------------------------- MODULE PreviewFileProofs -------------------------
(***************************************************************************)
(* Proofs about PreviewFile: one run at a time works on the slot, what it  *)
(* publishes is of the version it began with, and neither the cache's      *)
(* entry nor a note ever names frames that are not there.                  *)
(***************************************************************************)
EXTENDS PreviewFile, TLAPS

\* Where a run is at an output, from the choice of the publisher to its note.
AtOutput == {"choosing", "packing", "swapping", "written", "stamping"}

\* The runs at work on the slot are the lock's holder.
LockHeld ==
  /\ \A w \in Workers : w \in lock <=> pc[w] \in Holding
  /\ \A u, w \in lock : u = w

\* Runs and notes name versions the file has had; nobody notes a newer one while a run is at an output.
Behind ==
  /\ \A w \in Workers : fp[w] <= source
  /\ \A a \in Noted : note[a] <= source
  /\ \A w \in Workers, a \in Noted : pc[w] \in AtOutput => note[a] <= fp[w]

\* Plex's outputs are addressed by what they show.
BundleOwn == \A v \in Versions : bundle[v] \subseteq {v}

\* The publisher a run is at.
TurnsValid ==
  \A w \in Workers :
    /\ pc[w] \in Holding \ {"lookup"} => turn[w] >= 1
    /\ pc[w] \in AtOutput => turn[w] \in DOMAIN Publishers
    /\ pc[w] = "swapping" => Publishers[turn[w]] = "jellyfin"
    /\ pc[w] = "stamping" => Publishers[turn[w]] \in Noted

\* Unless its run has emptied the slot for new frames, an entry describes it.
CacheKept ==
  /\ \A w \in Workers : emptied[w] => pc[w] \in Holding \ ({"lookup"} \cup Publishing)
  /\ entry # None /\ (\A w \in lock : ~emptied[w]) => slot = {entry} /\ full

\* Frames of one version, no older than the run's and no newer than the file's.
OneVersionSince(v) == \E s \in Versions : slot = {s} /\ v <= s /\ s <= source

\* The slot, and the output just written from it, step by step of the run that holds it.
FramesAt(w) ==
  /\ pc[w] \in {"extracting", "suspended", "extracted", "unpacked"} => OneVersionSince(fp[w])
  /\ pc[w] \in {"extracted", "unpacked"} => full
  /\ pc[w] \in {"putting"} \cup AtOutput => slot = {fp[w]} /\ full
  /\ pc[w] = "next" => full /\ (slot = {fp[w]} \/ fp[w] < source)
  /\ pc[w] \in {"written", "stamping"} /\ Publishers[turn[w]] \in Noted => out[Publishers[turn[w]]] = {fp[w]}
FramesKnown == \A w \in Workers : FramesAt(w)

FileInv ==
  /\ TypeOK /\ LockHeld /\ Behind /\ BundleOwn /\ NoteVouches
  /\ TurnsValid /\ CacheKept /\ FramesKnown


-----------------------------------------------------------------------------
\* Constants.

\* Versions are numbers, and no version is None; publishers are adapters.
LEMMA ConstantFacts ==
  /\ Versions \subseteq Nat \ {0} /\ None = 0 /\ None \notin Versions
  /\ \A i \in DOMAIN Publishers : Publishers[i] \in Adapters
  /\ Adapters \subseteq {"plex", "emby", "jellyfin"} /\ Noted = Adapters \ {"plex"}
  /\ DOMAIN Publishers = 1..Len(Publishers) /\ Len(Publishers) \in Nat
BY BoundsAssumption, PublishersAssumption DEF Versions, None, Adapters, Noted

\* Versions are compared as numbers.
LEMMA Numbers ==
  ASSUME TypeOK
  PROVE  /\ source \in Nat \ {0} /\ \A w \in Workers : fp[w] \in Nat \ {0}
         /\ \A a \in Noted : note[a] \in Nat
<1>1. source \in Versions /\ (\A w \in Workers : fp[w] \in Versions)
  BY DEF TypeOK
<1>2. \A a \in Noted : note[a] \in Versions \cup {None}
  BY DEF TypeOK
<1>q. QED BY <1>1, <1>2, BoundsAssumption DEF Versions, None

-----------------------------------------------------------------------------
\* The first state, and the steps.

\* Nothing is cached, noted or under way at the start.
LEMMA InitFile == Init => FileInv
<1> USE DEF Init
<1>0. SUFFICES ASSUME Init PROVE FileInv OBVIOUS
<1>1. TypeOK
  <2>1. source \in Versions /\ 1 \in Versions BY <1>0, BoundsAssumption DEF Versions
  <2>2. pc \in [Workers -> {"idle", "check", "waiting"} \cup Holding] BY <1>0
  <2>3. used \in [{"runs", "fails", "crashes"} -> Nat] BY <1>0
  <2>4. regenerate \in [Workers -> BOOLEAN] /\ emptied \in [Workers -> BOOLEAN] BY <1>0
  <2>q. QED BY <1>0, <2>1, <2>2, <2>3, <2>4 DEF TypeOK
<1>2. LockHeld BY <1>0 DEF LockHeld, Holding, Publishing
<1>3. Behind BY <1>0, ConstantFacts DEF Behind, AtOutput
<1>4. BundleOwn BY <1>0 DEF BundleOwn
<1>5. NoteVouches BY <1>0, ConstantFacts DEF NoteVouches
<1>6. TurnsValid BY <1>0 DEF TurnsValid, Holding, Publishing, AtOutput
<1>7. CacheKept BY <1>0 DEF CacheKept
<1>8. FramesKnown BY <1>0 DEF FramesKnown, FramesAt, AtOutput
<1>q. QED BY <1>1, <1>2, <1>3, <1>4, <1>5, <1>6, <1>7, <1>8 DEF FileInv

\* A run begins with the file as it is.
LEMMA BeginKeeps ==
  ASSUME FileInv, NEW w \in Workers, Begin(w) PROVE FileInv'
<1> USE DEF FileInv, Begin, Go, Spend, diskVars, cacheVars, Holding, Publishing, AtOutput
<1>1. TypeOK'
  <2>1. pc' \in [Workers -> {"idle", "check", "waiting"} \cup Holding] BY DEF TypeOK
  <2>2. turn' \in [Workers -> Nat] BY DEF TypeOK
  <2>3. used' \in [{"runs", "fails", "crashes"} -> Nat] BY DEF TypeOK
  <2>4. bundle' \in [Versions -> SUBSET Versions] /\ out' \in [Noted -> SUBSET Versions]
    BY DEF TypeOK
  <2>5. /\ note' \in [Noted -> Versions \cup {None}]
        /\ entry' \in Versions \cup {None} /\ lock' \subseteq Workers /\ fp' \in [Workers -> Versions]
    BY DEF TypeOK
  <2>6. slot' \subseteq Versions /\ full' \in BOOLEAN BY DEF TypeOK
  <2>7. regenerate' \in [Workers -> BOOLEAN] /\ emptied' \in [Workers -> BOOLEAN]
    <3>1. PICK again \in BOOLEAN : regenerate' = [regenerate EXCEPT ![w] = again] OBVIOUS
    <3>2. emptied' = emptied OBVIOUS
    <3>q. QED BY <3>1, <3>2, Zenon DEF TypeOK
  <2>8. source' \in Versions BY DEF TypeOK
  <2>q. QED BY <2>1, <2>2, <2>3, <2>4, <2>5, <2>6, <2>7, <2>8 DEF TypeOK
<1>2. LockHeld' BY DEF LockHeld
<1>3. Behind' BY Numbers DEF Behind
<1>4. BundleOwn' BY DEF BundleOwn
<1>5. NoteVouches' BY DEF NoteVouches
<1>6. TurnsValid' BY DEF TurnsValid
<1>7. CacheKept' BY DEF CacheKept
<1>8. FramesKnown' BY DEF TypeOK, FramesKnown, FramesAt, OneVersionSince
<1>q. QED BY <1>1, <1>2, <1>3, <1>4, <1>5, <1>6, <1>7, <1>8

\* A run skips, asks for generation, or ends as a check.
LEMMA CheckKeeps ==
  ASSUME FileInv, NEW w \in Workers, Check(w) PROVE FileInv'
<1> USE ConstantFacts DEF FileInv, Holding, Publishing, AtOutput
<1>a. PICK to \in {"idle", "waiting"} : pc' = [pc EXCEPT ![w] = to]
  BY DEF Check, Skip, NeedsGeneration, Go
<1>b. pc[w] = "check" BY DEF Check, Skip, NeedsGeneration
<1>c. note' = note \/ note' = [a \in Noted |-> None] BY DEF Check, NeedsGeneration, diskVars
<1>d. UNCHANGED <<source, bundle, out, slot, full, entry, lock, fp, regenerate, turn, emptied, used>>
  BY DEF Check, diskVars, cacheVars, runVars
<1>1. TypeOK'
  BY <1>a, <1>b, <1>c, <1>d DEF TypeOK
<1>2. LockHeld'
  BY <1>a, <1>b, <1>c, <1>d DEF LockHeld
<1>3. Behind'
  BY <1>a, <1>b, <1>c, <1>d, Numbers DEF Behind
<1>4. BundleOwn'
  BY <1>a, <1>b, <1>c, <1>d DEF BundleOwn
<1>5. NoteVouches'
  BY <1>a, <1>b, <1>c, <1>d, Numbers DEF NoteVouches
<1>6. TurnsValid'
  BY <1>a, <1>b, <1>c, <1>d DEF TurnsValid
<1>7. CacheKept'
  BY <1>a, <1>b, <1>c, <1>d DEF CacheKept
<1>8. FramesKnown'
  BY <1>a, <1>b, <1>c, <1>d DEF FramesKnown, FramesAt, OneVersionSince
<1>q. QED BY <1>1, <1>2, <1>3, <1>4, <1>5, <1>6, <1>7, <1>8

\* The generation lock is taken when it is free.
LEMMA AcquireKeeps ==
  ASSUME FileInv, NEW w \in Workers, Acquire(w) PROVE FileInv'
<1> USE DEF FileInv, Acquire, Go, diskVars, cacheVars, runVars, Holding, AtOutput
<1>1. TypeOK' BY DEF TypeOK
<1>2. LockHeld' BY DEF TypeOK, LockHeld
<1>3. Behind' BY DEF Behind
<1>4. BundleOwn' BY DEF BundleOwn
<1>5. NoteVouches' BY DEF NoteVouches
<1>6. TurnsValid' BY DEF TurnsValid
<1>7. CacheKept' BY DEF CacheKept
<1>8. FramesKnown' BY DEF FramesKnown, FramesAt, OneVersionSince
<1>q. QED BY <1>1, <1>2, <1>3, <1>4, <1>5, <1>6, <1>7, <1>8

\* A waiting run is cancelled.
LEMMA CancelWaitKeeps ==
  ASSUME FileInv, NEW w \in Workers, CancelWait(w) PROVE FileInv'
<1> USE DEF FileInv, CancelWait, Go, Spend, diskVars, cacheVars, runVars, Holding, Publishing, AtOutput
<1>1. TypeOK' BY DEF TypeOK
<1>2. LockHeld' BY DEF LockHeld
<1>3. Behind' BY DEF Behind
<1>4. BundleOwn' BY DEF BundleOwn
<1>5. NoteVouches' BY DEF NoteVouches
<1>6. TurnsValid' BY DEF TurnsValid
<1>7. CacheKept' BY DEF CacheKept
<1>8. FramesKnown' BY DEF FramesKnown, FramesAt, OneVersionSince
<1>q. QED BY <1>1, <1>2, <1>3, <1>4, <1>5, <1>6, <1>7, <1>8

\* An entry of the file as it is carries the run to its publishers; another is evicted.
LEMMA LookupKeeps ==
  ASSUME FileInv, NEW w \in Workers, Lookup(w) PROVE FileInv'
<1> USE ConstantFacts DEF FileInv, Lookup, Go, diskVars, cacheVars, Holding, Publishing, AtOutput
<1>1. TypeOK' BY DEF TypeOK
<1>2. LockHeld' BY DEF TypeOK, LockHeld
<1>3. Behind' BY DEF TypeOK, Behind
<1>4. BundleOwn' BY DEF BundleOwn
<1>5. NoteVouches' BY DEF NoteVouches
<1>6. TurnsValid' BY DEF TypeOK, TurnsValid
<1>7. CacheKept' BY DEF LockHeld, CacheKept
<1>8. FramesKnown' BY Numbers DEF TypeOK, LockHeld, Behind, CacheKept, FramesKnown, FramesAt
<1>q. QED BY <1>1, <1>2, <1>3, <1>4, <1>5, <1>6, <1>7, <1>8

\* What a sibling's output holds is of the file as it is: its note, or its path, says so.
LEMMA ReuseKeeps ==
  ASSUME FileInv, NEW w \in Workers, Reuse(w) PROVE FileInv'
<1> USE ConstantFacts DEF FileInv, Reuse, Fresh, Go, Spend, diskVars, cacheVars, Holding, Publishing, AtOutput
<1>1. TypeOK'
  <2>1. pc' \in [Workers -> {"idle", "check", "waiting"} \cup Holding] BY DEF TypeOK
  <2>2. turn' \in [Workers -> Nat] BY DEF TypeOK
  <2>3. used' \in [{"runs", "fails", "crashes"} -> Nat] BY DEF TypeOK
  <2>4. bundle' \in [Versions -> SUBSET Versions] /\ out' \in [Noted -> SUBSET Versions]
    BY DEF TypeOK
  <2>5. /\ note' \in [Noted -> Versions \cup {None}]
        /\ entry' \in Versions \cup {None} /\ lock' \subseteq Workers /\ fp' \in [Workers -> Versions]
    BY DEF TypeOK
  <2>6. slot' \subseteq Versions /\ full' \in BOOLEAN BY DEF TypeOK
  <2>7. regenerate' \in [Workers -> BOOLEAN] /\ emptied' \in [Workers -> BOOLEAN]
    BY DEF TypeOK
  <2>8. source' \in Versions BY DEF TypeOK
  <2>q. QED BY <2>1, <2>2, <2>3, <2>4, <2>5, <2>6, <2>7, <2>8 DEF TypeOK
<1>2. LockHeld' BY DEF TypeOK, LockHeld
<1>3. Behind' BY DEF TypeOK, Behind
<1>4. BundleOwn' BY DEF BundleOwn
<1>5. NoteVouches' BY DEF NoteVouches
<1>6. TurnsValid' BY DEF TypeOK, TurnsValid
<1>7. CacheKept' BY DEF TypeOK, LockHeld, CacheKept
<1>8. FramesKnown'
  <2>1. \A u \in Workers \ {w} : FramesAt(u)'
    <3> SUFFICES ASSUME NEW u \in Workers \ {w} PROVE FramesAt(u)' OBVIOUS
    <3>1. pc'[u] \notin Holding BY DEF TypeOK, LockHeld
    <3>q. QED BY <3>1 DEF FramesAt
  <2>2. FramesAt(w)'
    <3>1. CASE pc' = [pc EXCEPT ![w] = "extract"]
      BY <3>1 DEF FramesAt
    <3>2. CASE pc' = [pc EXCEPT ![w] = "unpacked"] /\ full'
      <4>1. slot' = {source}
        <5>1. PICK a \in Adapters \ {"jellyfin"} :
                Fresh(a, TRUE) /\ slot' = (IF a = "plex" THEN bundle[source] ELSE out[a])
          BY <3>2 DEF TypeOK
        <5>2. CASE a = "plex" BY <5>1, <5>2 DEF TypeOK, BundleOwn
        <5>3. CASE a # "plex" BY <5>1, <5>3, Numbers DEF NoteVouches
        <5>q. QED BY <5>2, <5>3
      <4>2. fp[w] <= source BY DEF Behind
      <4>3. OneVersionSince(fp[w])' BY <4>1, <4>2 DEF TypeOK, OneVersionSince
      <4>q. QED BY <3>2, <4>3 DEF TypeOK, FramesAt
    <3>q. QED BY <3>1, <3>2
  <2>q. QED BY <2>1, <2>2 DEF FramesKnown
<1>q. QED BY <1>1, <1>2, <1>3, <1>4, <1>5, <1>6, <1>7, <1>8

\* FFmpeg opens the file as it is, which is no older than the run's version.
LEMMA ExtractKeeps ==
  ASSUME FileInv, NEW w \in Workers, Extract(w) PROVE FileInv'
<1> USE ConstantFacts DEF FileInv, Extract, Go, diskVars, Holding, Publishing, AtOutput
<1>1. TypeOK' BY DEF TypeOK
<1>2. LockHeld' BY DEF LockHeld
<1>3. Behind' BY DEF Behind
<1>4. BundleOwn' BY DEF BundleOwn
<1>5. NoteVouches' BY DEF NoteVouches
<1>6. TurnsValid' BY DEF TurnsValid
<1>7. CacheKept' BY DEF TypeOK, LockHeld, CacheKept
<1>8. FramesKnown' BY DEF TypeOK, LockHeld, Behind, FramesKnown, FramesAt, OneVersionSince
<1>q. QED BY <1>1, <1>2, <1>3, <1>4, <1>5, <1>6, <1>7, <1>8

\* The set of frames is whole.
LEMMA ExtractedKeeps ==
  ASSUME FileInv, NEW w \in Workers, Extracted(w) PROVE FileInv'
<1> USE DEF FileInv, Extracted, Go, diskVars, runVars, Holding, Publishing, AtOutput
<1>1. TypeOK' BY DEF TypeOK
<1>2. LockHeld' BY DEF LockHeld
<1>3. Behind' BY DEF Behind
<1>4. BundleOwn' BY DEF BundleOwn
<1>5. NoteVouches' BY DEF NoteVouches
<1>6. TurnsValid' BY DEF TurnsValid
<1>7. CacheKept' BY DEF CacheKept
<1>8. FramesKnown' BY DEF TypeOK, FramesKnown, FramesAt, OneVersionSince
<1>q. QED BY <1>1, <1>2, <1>3, <1>4, <1>5, <1>6, <1>7, <1>8

\* FFmpeg is stopped where it is, or goes on.
LEMMA PauseKeeps ==
  ASSUME FileInv, NEW w \in Workers, Suspend(w) \/ Continue(w) PROVE FileInv'
<1> USE DEF FileInv, Holding, Publishing, AtOutput
<1>a. PICK to \in {"extracting", "suspended"} : pc' = [pc EXCEPT ![w] = to]
  BY DEF Suspend, Continue, Go
<1>b. pc[w] \in {"extracting", "suspended"} BY DEF Suspend, Continue
<1>d. UNCHANGED <<source, bundle, out, note, slot, full, entry, lock, fp, regenerate, turn, emptied, used>>
  BY DEF Suspend, Continue, diskVars, cacheVars, runVars
<1>1. TypeOK' BY <1>a, <1>d DEF TypeOK
<1>2. LockHeld' BY <1>a, <1>b, <1>d DEF LockHeld
<1>3. Behind' BY <1>a, <1>b, <1>d DEF Behind
<1>4. BundleOwn' BY <1>d DEF BundleOwn
<1>5. NoteVouches' BY <1>d DEF NoteVouches
<1>6. TurnsValid' BY <1>a, <1>b, <1>d DEF TurnsValid
<1>7. CacheKept' BY <1>a, <1>b, <1>d DEF CacheKept
<1>8. FramesKnown' BY <1>a, <1>b, <1>d DEF FramesKnown, FramesAt, OneVersionSince
<1>q. QED BY <1>1, <1>2, <1>3, <1>4, <1>5, <1>6, <1>7, <1>8

\* The extraction stops short.
LEMMA ExtractFailsKeeps ==
  ASSUME FileInv, NEW w \in Workers, ExtractFails(w) PROVE FileInv'
<1> USE DEF FileInv, ExtractFails, Go, Spend, diskVars, cacheVars, runVars, Holding, Publishing, AtOutput
<1>1. TypeOK' BY DEF TypeOK
<1>2. LockHeld' BY DEF LockHeld
<1>3. Behind' BY DEF Behind
<1>4. BundleOwn' BY DEF BundleOwn
<1>5. NoteVouches' BY DEF NoteVouches
<1>6. TurnsValid' BY DEF TurnsValid
<1>7. CacheKept' BY DEF CacheKept
<1>8. FramesKnown' BY DEF LockHeld, FramesKnown, FramesAt, OneVersionSince
<1>q. QED BY <1>1, <1>2, <1>3, <1>4, <1>5, <1>6, <1>7, <1>8

\* Frames are kept only if the file is still the one the run began with.
LEMMA SourceCheckKeeps ==
  ASSUME FileInv, NEW w \in Workers, SourceCheck(w) PROVE FileInv'
<1> USE ConstantFacts DEF FileInv, SourceCheck, Go, diskVars, cacheVars, runVars, Holding, Publishing, AtOutput
<1>1. TypeOK' BY DEF TypeOK
<1>2. LockHeld' BY DEF LockHeld
<1>3. Behind' BY DEF Behind
<1>4. BundleOwn' BY DEF BundleOwn
<1>5. NoteVouches' BY DEF NoteVouches
<1>6. TurnsValid' BY DEF TurnsValid
<1>7. CacheKept' BY DEF CacheKept
<1>8. FramesKnown' BY DEF TypeOK, FramesKnown, FramesAt, OneVersionSince
<1>q. QED BY <1>1, <1>2, <1>3, <1>4, <1>5, <1>6, <1>7, <1>8

\* The entry names the run's version, which the frames are of.
LEMMA PutKeeps ==
  ASSUME FileInv, NEW w \in Workers, Put(w) PROVE FileInv'
<1> USE DEF FileInv, Put, Go, diskVars, Holding, Publishing, AtOutput
<1>1. TypeOK' BY DEF TypeOK
<1>2. LockHeld' BY DEF LockHeld
<1>3. Behind' BY DEF Behind
<1>4. BundleOwn' BY DEF BundleOwn
<1>5. NoteVouches' BY DEF NoteVouches
<1>6. TurnsValid' BY DEF TurnsValid
<1>7. CacheKept' BY DEF TypeOK, CacheKept, FramesKnown, FramesAt
<1>8. FramesKnown' BY DEF FramesKnown, FramesAt, OneVersionSince
<1>q. QED BY <1>1, <1>2, <1>3, <1>4, <1>5, <1>6, <1>7, <1>8

\* The loop goes on while the file is the run's.
LEMMA NextPublisherKeeps ==
  ASSUME FileInv, NEW w \in Workers, NextPublisher(w) PROVE FileInv'
<1> USE DEF FileInv, NextPublisher, Go, diskVars, cacheVars, runVars, Holding, Publishing, AtOutput
<1>1. TypeOK' BY DEF TypeOK
<1>2. LockHeld' BY DEF LockHeld
<1>3. Behind' BY Numbers DEF Behind
<1>4. BundleOwn' BY DEF BundleOwn
<1>5. NoteVouches' BY DEF NoteVouches
<1>6. TurnsValid' BY DEF TypeOK, TurnsValid
<1>7. CacheKept' BY DEF CacheKept
<1>8. FramesKnown' BY Numbers DEF FramesKnown, FramesAt, OneVersionSince
<1>q. QED BY <1>1, <1>2, <1>3, <1>4, <1>5, <1>6, <1>7, <1>8

\* A publisher is passed over or gets the frames.
LEMMA ChooseKeeps ==
  ASSUME FileInv, NEW w \in Workers, Choose(w) PROVE FileInv'
<1> USE DEF FileInv, Choose, Fresh, Advance, Go, Spend, diskVars, cacheVars, Holding, Publishing, AtOutput
<1>1. TypeOK'
  <2>1. pc' \in [Workers -> {"idle", "check", "waiting"} \cup Holding] BY DEF TypeOK
  <2>2. turn' \in [Workers -> Nat] BY DEF TypeOK
  <2>3. used' \in [{"runs", "fails", "crashes"} -> Nat] BY DEF TypeOK
  <2>4. bundle' \in [Versions -> SUBSET Versions] /\ out' \in [Noted -> SUBSET Versions]
    BY DEF TypeOK
  <2>5. /\ note' \in [Noted -> Versions \cup {None}]
        /\ entry' \in Versions \cup {None} /\ lock' \subseteq Workers /\ fp' \in [Workers -> Versions]
    BY DEF TypeOK
  <2>6. slot' \subseteq Versions /\ full' \in BOOLEAN BY DEF TypeOK
  <2>7. regenerate' \in [Workers -> BOOLEAN] /\ emptied' \in [Workers -> BOOLEAN]
    BY DEF TypeOK
  <2>8. source' \in Versions BY DEF TypeOK
  <2>q. QED BY <2>1, <2>2, <2>3, <2>4, <2>5, <2>6, <2>7, <2>8 DEF TypeOK
<1>2. LockHeld' BY DEF TypeOK, LockHeld
<1>3. Behind' BY DEF TypeOK, Behind
<1>4. BundleOwn' BY DEF BundleOwn
<1>5. NoteVouches' BY DEF NoteVouches
<1>6. TurnsValid' BY DEF TypeOK, TurnsValid
<1>7. CacheKept' BY DEF LockHeld, CacheKept
<1>8. FramesKnown' BY DEF TypeOK, FramesKnown, FramesAt, OneVersionSince
<1>q. QED BY <1>1, <1>2, <1>3, <1>4, <1>5, <1>6, <1>7, <1>8

\* An output is written from the slot.
LEMMA PackKeeps ==
  ASSUME FileInv, NEW w \in Workers, Pack(w) PROVE FileInv'
<1> USE ConstantFacts DEF FileInv, Pack, Advance, Go, Spend, diskVars, cacheVars, runVars, Holding, Publishing, AtOutput
<1>1. TypeOK'
  <2>1. pc' \in [Workers -> {"idle", "check", "waiting"} \cup Holding] BY DEF TypeOK
  <2>2. turn' \in [Workers -> Nat]
    <3>1. turn' = turn \/ turn' = [turn EXCEPT ![w] = @ + 1] OBVIOUS
    <3>2. turn \in [Workers -> Nat] BY DEF TypeOK
    <3> HIDE DEF FileInv, Pack
    <3>q. QED BY <3>1, <3>2
  <2>3. used' \in [{"runs", "fails", "crashes"} -> Nat] BY DEF TypeOK
  <2>4. bundle' \in [Versions -> SUBSET Versions] /\ out' \in [Noted -> SUBSET Versions]
    BY DEF TypeOK
  <2>5. /\ note' \in [Noted -> Versions \cup {None}]
        /\ entry' \in Versions \cup {None} /\ lock' \subseteq Workers /\ fp' \in [Workers -> Versions]
    BY DEF TypeOK
  <2>6. slot' \subseteq Versions /\ full' \in BOOLEAN BY DEF TypeOK
  <2>7. regenerate' \in [Workers -> BOOLEAN] /\ emptied' \in [Workers -> BOOLEAN]
    BY DEF TypeOK
  <2>8. source' \in Versions BY DEF TypeOK
  <2>q. QED BY <2>1, <2>2, <2>3, <2>4, <2>5, <2>6, <2>7, <2>8 DEF TypeOK
<1>2. LockHeld' BY DEF TypeOK, LockHeld
<1>3. Behind'
  <2>1. \A a \in Noted : note'[a] = note[a] \/ note'[a] = None BY DEF TypeOK
  <2>2. \A u \in Workers : pc'[u] \in AtOutput => u = w BY DEF TypeOK, LockHeld
  <2>3. \A a \in Noted : note[a] <= fp[w] BY DEF Behind
  <2>4. UNCHANGED <<source, fp>> OBVIOUS
  <2> HIDE DEF Pack
  <2>q. QED BY <2>1, <2>2, <2>3, <2>4, Numbers DEF Behind
<1>4. BundleOwn'
  <2>1. bundle' = bundle \/ bundle' = [bundle EXCEPT ![fp[w]] = {fp[w]}]
    BY DEF FramesKnown, FramesAt
  <2>2. bundle \in [Versions -> SUBSET Versions] /\ fp[w] \in Versions BY DEF TypeOK
  <2>q. QED BY <2>1, <2>2 DEF BundleOwn
<1>5. NoteVouches'
  <2>1. CASE UNCHANGED <<out, note>> BY <2>1 DEF NoteVouches
  <2>2. CASE ~UNCHANGED <<out, note>>
    <3>1. PICK b \in Noted : out' = [out EXCEPT ![b] = slot] \/ out' = [out EXCEPT ![b] = {}]
      BY <2>2 DEF TurnsValid
    <3>2. slot = {fp[w]} /\ fp[w] <= source /\ \A a \in Noted : note[a] <= fp[w]
      BY DEF FramesKnown, FramesAt, Behind
    <3>3. \A a \in Noted : note'[a] = note[a] \/ note'[a] = None
      BY DEF TypeOK
    <3>4. out \in [Noted -> SUBSET Versions] /\ source' = source BY DEF TypeOK
    <3>q. QED BY <3>1, <3>2, <3>3, <3>4, Numbers DEF NoteVouches
  <2>q. QED BY <2>1, <2>2
<1>6. TurnsValid' BY DEF TypeOK, TurnsValid
<1>7. CacheKept' BY DEF LockHeld, CacheKept
<1>8. FramesKnown'
  <2>1. \A u \in Workers \ {w} : FramesAt(u)'
    <3> SUFFICES ASSUME NEW u \in Workers \ {w} PROVE FramesAt(u)' OBVIOUS
    <3>1. pc'[u] \notin Holding BY DEF TypeOK, LockHeld
    <3>q. QED BY <3>1 DEF FramesAt
  <2>2. FramesAt(w)'
    <3>1. pc' = [pc EXCEPT ![w] = pc'[w]] /\ pc'[w] \in {"next", "written", "swapping"} BY DEF TypeOK
    <3>2. slot = {fp[w]} /\ full BY DEF FramesKnown, FramesAt
    <3>3. UNCHANGED <<slot, full, fp, source>> OBVIOUS
    <3>4. CASE pc'[w] # "written" BY <3>1, <3>2, <3>3, <3>4 DEF FramesAt
    <3>5. CASE pc'[w] = "written" /\ Publishers[turn[w]] \in Noted
      <4>1. turn' = turn /\ out' = [out EXCEPT ![Publishers[turn[w]]] = slot] BY <3>5 DEF TypeOK
      <4>q. QED BY <3>2, <3>3, <3>5, <4>1 DEF TypeOK, FramesAt
    <3>6. CASE pc'[w] = "written" /\ Publishers[turn[w]] \notin Noted
      <4>1. turn' = turn BY <3>6 DEF TypeOK
      <4>q. QED BY <3>2, <3>3, <3>6, <4>1 DEF FramesAt
    <3>q. QED BY <3>4, <3>5, <3>6
  <2>q. QED BY <2>1, <2>2 DEF FramesKnown
<1>q. QED BY <1>1, <1>2, <1>3, <1>4, <1>5, <1>6, <1>7, <1>8

\* Jellyfin's sheets are in place.
LEMMA SwapKeeps ==
  ASSUME FileInv, NEW w \in Workers, Swap(w) PROVE FileInv'
<1> USE DEF FileInv, Swap, Go, cacheVars, runVars, Holding, Publishing, AtOutput
<1>1. TypeOK' BY DEF TypeOK
<1>2. LockHeld' BY DEF LockHeld
<1>3. Behind' BY DEF Behind
<1>4. BundleOwn' BY DEF BundleOwn
<1>5. NoteVouches' BY Numbers DEF Behind, NoteVouches, FramesKnown, FramesAt
<1>6. TurnsValid' BY DEF TurnsValid
<1>7. CacheKept' BY DEF CacheKept
<1>8. FramesKnown' BY DEF TypeOK, TurnsValid, FramesKnown, FramesAt, OneVersionSince
<1>q. QED BY <1>1, <1>2, <1>3, <1>4, <1>5, <1>6, <1>7, <1>8

\* An output of a file that changed meanwhile is not noted.
LEMMA VerifyKeeps ==
  ASSUME FileInv, NEW w \in Workers, Verify(w) PROVE FileInv'
<1> USE DEF FileInv, Verify, Advance, Go, diskVars, cacheVars, Holding, Publishing, AtOutput
<1>1. TypeOK'
  <2>1. pc' \in [Workers -> {"idle", "check", "waiting"} \cup Holding] BY DEF TypeOK
  <2>2. turn' \in [Workers -> Nat] BY DEF TypeOK
  <2>3. used' \in [{"runs", "fails", "crashes"} -> Nat] BY DEF TypeOK
  <2>4. bundle' \in [Versions -> SUBSET Versions] /\ out' \in [Noted -> SUBSET Versions]
    BY DEF TypeOK
  <2>5. /\ note' \in [Noted -> Versions \cup {None}]
        /\ entry' \in Versions \cup {None} /\ lock' \subseteq Workers /\ fp' \in [Workers -> Versions]
    BY DEF TypeOK
  <2>6. slot' \subseteq Versions /\ full' \in BOOLEAN BY DEF TypeOK
  <2>7. regenerate' \in [Workers -> BOOLEAN] /\ emptied' \in [Workers -> BOOLEAN]
    BY DEF TypeOK
  <2>8. source' \in Versions BY DEF TypeOK
  <2>q. QED BY <2>1, <2>2, <2>3, <2>4, <2>5, <2>6, <2>7, <2>8 DEF TypeOK
<1>2. LockHeld' BY DEF TypeOK, LockHeld
<1>3. Behind' BY DEF TypeOK, Behind
<1>4. BundleOwn' BY DEF BundleOwn
<1>5. NoteVouches' BY DEF NoteVouches
<1>6. TurnsValid' BY DEF TypeOK, TurnsValid
<1>7. CacheKept' BY DEF LockHeld, CacheKept
<1>8. FramesKnown'
  <2>1. \A u \in Workers \ {w} : FramesAt(u)'
    <3> SUFFICES ASSUME NEW u \in Workers \ {w} PROVE FramesAt(u)' OBVIOUS
    <3>1. pc'[u] \notin Holding BY DEF TypeOK, LockHeld
    <3>q. QED BY <3>1 DEF FramesAt
  <2>2. FramesAt(w)' BY DEF TypeOK, FramesKnown, FramesAt
  <2>q. QED BY <2>1, <2>2 DEF FramesKnown
<1>q. QED BY <1>1, <1>2, <1>3, <1>4, <1>5, <1>6, <1>7, <1>8

\* A note names the version its output shows.
LEMMA StampKeeps ==
  ASSUME FileInv, NEW w \in Workers, Stamp(w) PROVE FileInv'
<1> USE DEF FileInv, Stamp, Advance, Go, Spend, cacheVars, Holding, Publishing, AtOutput
<1>1. TypeOK'
  <2>1. pc' \in [Workers -> {"idle", "check", "waiting"} \cup Holding] BY DEF TypeOK
  <2>2. turn' \in [Workers -> Nat] BY DEF TypeOK
  <2>3. used' \in [{"runs", "fails", "crashes"} -> Nat] BY DEF TypeOK
  <2>4. bundle' \in [Versions -> SUBSET Versions] /\ out' \in [Noted -> SUBSET Versions]
    BY DEF TypeOK
  <2>5. /\ note' \in [Noted -> Versions \cup {None}]
        /\ entry' \in Versions \cup {None} /\ lock' \subseteq Workers /\ fp' \in [Workers -> Versions]
    BY DEF TypeOK
  <2>6. slot' \subseteq Versions /\ full' \in BOOLEAN BY DEF TypeOK
  <2>7. regenerate' \in [Workers -> BOOLEAN] /\ emptied' \in [Workers -> BOOLEAN]
    BY DEF TypeOK
  <2>8. source' \in Versions BY DEF TypeOK
  <2>q. QED BY <2>1, <2>2, <2>3, <2>4, <2>5, <2>6, <2>7, <2>8 DEF TypeOK
<1>2. LockHeld' BY DEF LockHeld
<1>3. Behind'
  <2>1. \A a \in Noted : note'[a] \in Nat /\ note'[a] <= fp[w]
    <3>1. \A a \in Noted : note'[a] = note[a] \/ note'[a] = fp[w] BY DEF TypeOK
    <3>2. \A a \in Noted : note[a] <= fp[w] BY DEF Behind
    <3>q. QED BY <3>1, <3>2, Numbers
  <2>2. fp' = fp /\ source' = source OBVIOUS
  <2>3. \A u \in Workers : pc'[u] \in AtOutput => u = w
    BY DEF LockHeld
  <2>q. QED BY <2>1, <2>2, <2>3, Numbers DEF Behind
<1>4. BundleOwn' BY DEF BundleOwn
<1>5. NoteVouches' BY DEF TypeOK, Behind, NoteVouches, FramesKnown, FramesAt, OneVersionSince
<1>6. TurnsValid' BY DEF TypeOK, TurnsValid
<1>7. CacheKept' BY DEF CacheKept
<1>8. FramesKnown' BY DEF TypeOK, FramesKnown, FramesAt, OneVersionSince
<1>q. QED BY <1>1, <1>2, <1>3, <1>4, <1>5, <1>6, <1>7, <1>8

\* A run that emptied the slot drops it before the lock goes.
LEMMA FinishKeeps ==
  ASSUME FileInv, NEW w \in Workers, Finish(w) PROVE FileInv'
<1> USE DEF FileInv, Finish, Go, diskVars, cacheVars, Holding, Publishing, AtOutput
<1>1. TypeOK' BY DEF TypeOK
<1>2. LockHeld' BY DEF TypeOK, LockHeld
<1>3. Behind' BY DEF Behind
<1>4. BundleOwn' BY DEF BundleOwn
<1>5. NoteVouches' BY DEF NoteVouches
<1>6. TurnsValid' BY DEF TurnsValid
<1>7. CacheKept' BY DEF TypeOK, CacheKept
<1>8. FramesKnown' BY DEF LockHeld, FramesKnown, FramesAt
<1>q. QED BY <1>1, <1>2, <1>3, <1>4, <1>5, <1>6, <1>7, <1>8

\* A new version is named by no note yet.
LEMMA ReplaceKeeps ==
  ASSUME FileInv, Replace PROVE FileInv'
<1> USE ConstantFacts DEF FileInv, Replace, diskVars, cacheVars, runVars
<1>1. TypeOK'
  <2>1. source' \in Versions BY BoundsAssumption DEF TypeOK, Versions
  <2>q. QED BY <2>1 DEF TypeOK
<1>2. LockHeld' BY DEF LockHeld
<1>3. Behind' BY Numbers DEF Behind
<1>4. BundleOwn' BY DEF BundleOwn
<1>5. NoteVouches' BY Numbers DEF Behind, NoteVouches
<1>6. TurnsValid' BY DEF TurnsValid
<1>7. CacheKept' BY DEF CacheKept
<1>8. FramesKnown' BY Numbers DEF FramesKnown, FramesAt, OneVersionSince
<1>q. QED BY <1>1, <1>2, <1>3, <1>4, <1>5, <1>6, <1>7, <1>8

\* Only a slot that nobody holds is swept.
LEMMA EvictKeeps ==
  ASSUME FileInv, Evict PROVE FileInv'
<1> USE DEF FileInv, Evict, diskVars, runVars, Holding, Publishing, AtOutput
<1>1. TypeOK' BY DEF TypeOK
<1>2. LockHeld' BY DEF LockHeld
<1>3. Behind' BY DEF Behind
<1>4. BundleOwn' BY DEF BundleOwn
<1>5. NoteVouches' BY DEF NoteVouches
<1>6. TurnsValid' BY DEF TurnsValid
<1>7. CacheKept' BY DEF CacheKept
<1>8. FramesKnown' BY DEF LockHeld, FramesKnown, FramesAt
<1>q. QED BY <1>1, <1>2, <1>3, <1>4, <1>5, <1>6, <1>7, <1>8

\* After a crash there is no entry and nobody at work.
LEMMA CrashKeeps ==
  ASSUME FileInv, Crash PROVE FileInv'
<1> USE DEF FileInv, Crash, Spend, diskVars, Holding, Publishing, AtOutput
<1>1. TypeOK' BY DEF TypeOK
<1>2. LockHeld' BY DEF LockHeld
<1>3. Behind' BY DEF Behind
<1>4. BundleOwn' BY DEF BundleOwn
<1>5. NoteVouches' BY DEF NoteVouches
<1>6. TurnsValid' BY DEF TurnsValid
<1>7. CacheKept' BY DEF CacheKept
<1>8. FramesKnown' BY DEF FramesKnown, FramesAt
<1>q. QED BY <1>1, <1>2, <1>3, <1>4, <1>5, <1>6, <1>7, <1>8

\* A step that changes nothing.
LEMMA StutterKeeps == ASSUME FileInv, UNCHANGED vars PROVE FileInv'
BY DEF FileInv, TypeOK, LockHeld, Behind, BundleOwn, NoteVouches, TurnsValid, CacheKept, FramesKnown, FramesAt,
       OneVersionSince, vars, diskVars, cacheVars, runVars

-----------------------------------------------------------------------------
\* The theorems.

\* The invariant: who holds the slot, what lies in it, and what entry and notes say of it.
THEOREM InvariantHolds == Spec => []FileInv
<1>1. FileInv /\ [Next]_vars => FileInv'
  <2> SUFFICES ASSUME FileInv, [Next]_vars PROVE FileInv' OBVIOUS
  <2>1. CASE \E w \in Workers : Begin(w) \/ CancelWait(w) \/ Suspend(w) \/ Continue(w) \/ ExtractFails(w)
    BY <2>1, BeginKeeps, CancelWaitKeeps, PauseKeeps, ExtractFailsKeeps
  <2>2. CASE \E w \in Workers : Step(w)
    BY <2>2, CheckKeeps, AcquireKeeps, LookupKeeps, ReuseKeeps, ExtractKeeps, ExtractedKeeps, SourceCheckKeeps,
       PutKeeps, NextPublisherKeeps, ChooseKeeps, PackKeeps, SwapKeeps, VerifyKeeps, StampKeeps, FinishKeeps DEF Step
  <2>3. CASE Replace \/ Evict \/ Crash
    BY <2>3, ReplaceKeeps, EvictKeeps, CrashKeeps
  <2>4. CASE UNCHANGED vars BY <2>4, StutterKeeps
  <2>q. QED BY <2>1, <2>2, <2>3, <2>4 DEF Next
<1>q. QED BY <1>1, InitFile, PTL DEF Spec

\* Every variable keeps its type.
THEOREM TypeCorrect == Spec => []TypeOK
<1>1. FileInv => TypeOK BY DEF FileInv
<1>q. QED BY <1>1, InvariantHolds, PTL

\* From the choice to the note, the shared slot holds a whole set of frames of the run's version, for any number of
\* runs, replacements, failures and crashes.
THEOREM FramesHold == Spec => []FramesStay
<1>1. FileInv => FramesStay BY DEF FileInv, FramesKnown, FramesAt, FramesStay, AtOutput
<1>q. QED BY <1>1, InvariantHolds, PTL

\* Whenever nobody is at work on the slot, the cache's entry describes what lies in it.
THEOREM EntryHolds == Spec => []EntryDescribesSlot
<1>1. FileInv => EntryDescribesSlot
  BY DEF FileInv, CacheKept, LockHeld, TypeOK, EntryDescribesSlot
<1>q. QED BY <1>1, InvariantHolds, PTL

\* A note that names the file as it is stands next to frames of this file.
THEOREM NotesHold == Spec => []NoteVouches
<1>1. FileInv => NoteVouches BY DEF FileInv
<1>q. QED BY <1>1, InvariantHolds, PTL
=============================================================================
