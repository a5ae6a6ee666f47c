---------------------------- MODULE PreviewFile ----------------------------
(***************************************************************************)
(* Previews of one media file (processing/multi_server.py): runs that may  *)
(* overlap, the frame cache's slot for the file (frame_cache.py), each     *)
(* server's output and its .meta note (output/), while the file is         *)
(* replaced in place, other files' frames push this file's out of the      *)
(* cache, pauses suspend an extraction, steps fail and the process dies.   *)
(*                                                                         *)
(* A version stands for the file's fingerprint and for frames made from    *)
(* it.  A file that goes away, sibling mounts, refresh requests to the     *)
(* servers, orphan cleanup and bulk scans' trust in Plex's own hash are    *)
(* left out; one frame interval and quality for all runs.                  *)
(***************************************************************************)
EXTENDS Integers, Sequences, FiniteSets

CONSTANTS
  Workers,      \* threads that run the pipeline
  Publishers,   \* the owning servers' adapters, in turn: "plex", "emby", "jellyfin"
  Regenerates,  \* whether runs may be asked to regenerate
  MaxVersions,  \* bound: versions of the file
  MaxRuns,      \* bound: runs
  MaxFails,     \* bound: failed steps
  MaxCrashes    \* bound: deaths of the process

ASSUME PublishersAssumption == Publishers \in Seq({"plex", "emby", "jellyfin"}) /\ Len(Publishers) > 0
ASSUME BoundsAssumption == MaxVersions \in Nat \ {0} /\ {MaxRuns, MaxFails, MaxCrashes} \subseteq Nat

Versions == 1..MaxVersions
None == 0
Adapters == {Publishers[i] : i \in DOMAIN Publishers}
Noted == Adapters \ {"plex"}        \* content_addressed is Plex's alone

VARIABLES
  source,      \* the version on disk
  bundle,      \* Plex: the frames under each version's hash
  out, note,   \* other outputs: their frames, and the version their .meta names
  slot, full,  \* the cache slot's frames; whether they are a whole set
  entry,       \* the version of the cache's entry
  lock,        \* who holds the file's generation lock
  pc, fp, regenerate, turn, emptied,   \* each run: where it is, source_fingerprint, flags, the publisher it is at
  used         \* bounded steps taken

diskVars == <<bundle, out, note>>
cacheVars == <<slot, full, entry>>
runVars == <<fp, regenerate, turn, emptied>>
vars == <<source, diskVars, cacheVars, lock, pc, runVars, used>>

\* Where a run holds the lock with frames it may publish.
Publishing == {"next", "choosing", "packing", "swapping", "written", "stamping"}
Holding == {"lookup", "reuse", "unpacked", "extract", "extracting", "suspended", "extracted", "putting", "ending"}
           \cup Publishing

TypeOK ==
  /\ source \in Versions /\ bundle \in [Versions -> SUBSET Versions]
  /\ out \in [Noted -> SUBSET Versions] /\ note \in [Noted -> Versions \cup {None}]
  /\ slot \subseteq Versions /\ full \in BOOLEAN /\ entry \in Versions \cup {None} /\ lock \subseteq Workers
  /\ pc \in [Workers -> {"idle", "check", "waiting"} \cup Holding] /\ fp \in [Workers -> Versions]
  /\ regenerate \in [Workers -> BOOLEAN] /\ emptied \in [Workers -> BOOLEAN] /\ turn \in [Workers -> Nat]
  /\ used \in [{"runs", "fails", "crashes"} -> Nat]

Init ==
  /\ source = 1 /\ bundle = [v \in Versions |-> {}] /\ out = [a \in Noted |-> {}] /\ note = [a \in Noted |-> None]
  /\ slot = {} /\ full = FALSE /\ entry = None /\ lock = {}
  /\ pc = [w \in Workers |-> "idle"] /\ fp = [w \in Workers |-> 1] /\ turn = [w \in Workers |-> 1]
  /\ regenerate = [w \in Workers |-> FALSE] /\ emptied = regenerate
  /\ used = [x \in {"runs", "fails", "crashes"} |-> 0]

Spend(what, max) == used[what] < max /\ used' = [used EXCEPT ![what] = @ + 1]
Go(w, to) == pc' = [pc EXCEPT ![w] = to]

(***************************************************************************)
(* Freshness (output/journal.py, multi_server._outputs_fresh)              *)
(***************************************************************************)

\* A missing note counts as fresh, unless frames are to be taken over (strict).
Fresh(a, strict) ==
  IF a = "plex" THEN bundle[source] # {}
  ELSE out[a] # {} /\ (note[a] = source \/ (note[a] = None /\ ~strict))

(***************************************************************************)
(* A run                                                                   *)
(***************************************************************************)

Begin(w) ==
  /\ pc[w] = "idle" /\ Spend("runs", MaxRuns)
  /\ \E again \in (IF Regenerates THEN BOOLEAN ELSE {FALSE}) : regenerate' = [regenerate EXCEPT ![w] = again]
  /\ fp' = [fp EXCEPT ![w] = source] /\ Go(w, "check")
  /\ UNCHANGED <<source, diskVars, cacheVars, lock, turn, emptied>>

\* Plex's path is computed only for the file the run began with; an error there means not fresh.
AllFresh(w) == \A a \in Adapters : (a = "plex" => source = fp[w]) /\ Fresh(a, FALSE)

Skip(w) == pc[w] = "check" /\ ~regenerate[w] /\ AllFresh(w) /\ Go(w, "idle")

\* Not fresh, or to be regenerated.  A check (check_only) ends here and a later run does the work.
NeedsGeneration(w) ==
  /\ pc[w] = "check" /\ (regenerate[w] \/ ~AllFresh(w))
  /\ note' = IF regenerate[w]
             THEN [a \in Noted |-> None]
             ELSE note
  /\ Go(w, "waiting") \/ Go(w, "idle")

Check(w) ==
  \/ Skip(w) /\ UNCHANGED <<source, diskVars, cacheVars, lock, runVars, used>>
  \/ NeedsGeneration(w) /\ UNCHANGED <<source, bundle, out, cacheVars, lock, runVars, used>>


Acquire(w) ==
  /\ pc[w] = "waiting" /\ lock = {} /\ lock' = {w} /\ Go(w, "lookup")
  /\ UNCHANGED <<source, diskVars, cacheVars, runVars, used>>

CancelWait(w) ==
  /\ pc[w] = "waiting" /\ Spend("fails", MaxFails) /\ Go(w, "idle")
  /\ UNCHANGED <<source, diskVars, cacheVars, lock, runVars>>

\* FrameCache.get; an entry too old is evicted like one for another version.
Lookup(w) ==
  /\ pc[w] = "lookup"
  /\ \/ regenerate[w] /\ Go(w, "extract") /\ UNCHANGED cacheVars
     \/ ~regenerate[w] /\ entry = source /\ full /\ Go(w, "next") /\ UNCHANGED cacheVars
     \/ /\ ~regenerate[w] /\ entry # None /\ Go(w, "reuse")
        /\ entry' = None /\ slot' = {} /\ full' = FALSE
     \/ ~regenerate[w] /\ entry = None /\ Go(w, "reuse") /\ UNCHANGED cacheVars
  /\ turn' = [turn EXCEPT ![w] = 1]
  /\ UNCHANGED <<source, diskVars, lock, fp, regenerate, emptied, used>>

\* Frames of the first sibling's .bif known to be of the current file; one at another interval is passed over, and an
\* unpack that fails leaves what it wrote.
Reuse(w) ==
  /\ pc[w] = "reuse" /\ emptied' = [emptied EXCEPT ![w] = @ \/ Len(Publishers) > 1]
  /\ \/ Go(w, "extract") /\ UNCHANGED <<cacheVars, used>>
     \/ /\ Len(Publishers) > 1
        /\ \E a \in Adapters \ {"jellyfin"} :
             /\ Fresh(a, TRUE) /\ (a = "plex" => source = fp[w])
             /\ slot' = IF a = "plex" THEN bundle[source] ELSE out[a]
        /\ \/ Go(w, "unpacked") /\ full' = TRUE /\ UNCHANGED used
           \/ Go(w, "extract") /\ full' = FALSE /\ Spend("fails", MaxFails)
        /\ UNCHANGED entry
  /\ UNCHANGED <<source, diskVars, lock, fp, regenerate, turn>>

\* The slot is emptied, then filled from the file as it is when FFmpeg opens it.
Extract(w) ==
  /\ pc[w] = "extract" /\ Go(w, "extracting") /\ emptied' = [emptied EXCEPT ![w] = TRUE]
  /\ slot' = {source} /\ full' = FALSE
  /\ UNCHANGED <<source, diskVars, entry, lock, fp, regenerate, turn, used>>

Extracted(w) ==
  /\ pc[w] = "extracting" /\ Go(w, "extracted") /\ full' = TRUE
  /\ UNCHANGED <<source, diskVars, slot, entry, lock, runVars, used>>

\* While everything is paused, or the run's job by its schedule's stop time, FFmpeg is stopped where it is: the lock
\* stays held (ffmpeg_runner.py: SIGSTOP, SIGCONT).
Suspend(w) ==
  /\ pc[w] = "extracting" /\ Go(w, "suspended")
  /\ UNCHANGED <<source, diskVars, cacheVars, lock, runVars, used>>

Continue(w) ==
  /\ pc[w] = "suspended" /\ Go(w, "extracting")
  /\ UNCHANGED <<source, diskVars, cacheVars, lock, runVars, used>>

\* No frames, a dead node, or cancelled, which a pause does not hold up: the run stops short.
ExtractFails(w) ==
  /\ pc[w] \in {"extracting", "suspended"} /\ Spend("fails", MaxFails) /\ Go(w, "ending")
  /\ UNCHANGED <<source, diskVars, cacheVars, lock, runVars>>

SourceCheck(w) ==
  /\ pc[w] \in {"unpacked", "extracted"} /\ Go(w, IF source = fp[w] THEN "putting" ELSE "ending")
  /\ UNCHANGED <<source, diskVars, cacheVars, lock, runVars, used>>

\* FrameCache.put, with the fingerprint taken before the extraction.
Put(w) ==
  /\ pc[w] = "putting" /\ Go(w, "next")
  /\ entry' = fp[w] /\ emptied' = [emptied EXCEPT ![w] = FALSE]
  /\ UNCHANGED <<source, diskVars, slot, full, lock, fp, regenerate, turn, used>>

\* The loop over the publishers: a changed file stops it.
NextPublisher(w) ==
  /\ pc[w] = "next"
  /\ Go(w, IF turn[w] > Len(Publishers) \/ source # fp[w] THEN "ending" ELSE "choosing")
  /\ UNCHANGED <<source, diskVars, cacheVars, lock, runVars, used>>

Advance(w) == turn' = [turn EXCEPT ![w] = @ + 1] /\ Go(w, "next")

\* _publish_one: paths are for the run's own version or the publisher fails; fresh outputs are left alone.
Choose(w) ==
  /\ pc[w] = "choosing"
  /\ \/ source # fp[w] /\ Advance(w) /\ UNCHANGED used
     \/ source = fp[w] /\ ~regenerate[w] /\ Fresh(Publishers[turn[w]], FALSE) /\ Advance(w) /\ UNCHANGED used
     \/ /\ source = fp[w] /\ (regenerate[w] \/ ~Fresh(Publishers[turn[w]], FALSE))
        /\ Go(w, "packing") /\ UNCHANGED <<turn, used>>
     \/ Spend("fails", MaxFails) /\ Advance(w)     \* not in the library yet, no path, no room
  /\ UNCHANGED <<source, diskVars, cacheVars, lock, fp, regenerate, emptied>>

\* The new output replaces the old in one rename; Plex's only if the file is still the same, and Jellyfin's after the
\* old sheets were renamed away, their note with them.
Pack(w) ==
  LET a == Publishers[turn[w]] IN
  /\ pc[w] = "packing"
  /\ \/ a = "plex" /\ source # fp[w] /\ Advance(w) /\ UNCHANGED diskVars
     \/ /\ a = "plex" /\ source = fp[w] /\ bundle' = [bundle EXCEPT ![fp[w]] = slot]
        /\ Go(w, "written") /\ UNCHANGED <<out, note, turn>>
     \/ a = "emby" /\ out' = [out EXCEPT ![a] = slot] /\ Go(w, "written") /\ UNCHANGED <<bundle, note, turn>>
     \/ /\ a = "jellyfin" /\ out' = [out EXCEPT ![a] = {}] /\ note' = [note EXCEPT ![a] = None]
        /\ Go(w, "swapping") /\ UNCHANGED <<bundle, turn>>
  /\ UNCHANGED <<source, cacheVars, lock, fp, regenerate, emptied, used>>

Swap(w) ==
  /\ pc[w] = "swapping" /\ out' = [out EXCEPT !["jellyfin"] = slot] /\ Go(w, "written")
  /\ UNCHANGED <<source, bundle, note, cacheVars, lock, runVars, used>>

\* A file that changed while it was published is a failure, and gets no note.
Verify(w) ==
  /\ pc[w] = "written"
  /\ IF source = fp[w] /\ Publishers[turn[w]] \in Noted THEN Go(w, "stamping") /\ UNCHANGED turn ELSE Advance(w)
  /\ UNCHANGED <<source, diskVars, cacheVars, lock, fp, regenerate, emptied, used>>

\* Broken variant: the note names the file as it is when the note is written.
StampCurrent(w) ==
  /\ pc[w] = "stamping" /\ Advance(w)
  /\ note' = [note EXCEPT ![Publishers[turn[w]]] = source]
  /\ UNCHANGED <<source, bundle, out, cacheVars, lock, fp, regenerate, emptied, used>>

\* write_meta names the run's version; a note that cannot be written is passed over.
Stamp(w) ==
  /\ pc[w] = "stamping" /\ Advance(w)
  /\ \/ note' = [note EXCEPT ![Publishers[turn[w]]] = fp[w]] /\ UNCHANGED used
     \/ Spend("fails", MaxFails) /\ UNCHANGED note
  /\ UNCHANGED <<source, bundle, out, cacheVars, lock, fp, regenerate, emptied>>

\* Broken variant: a run that stops short leaves the slot and the entry as they are.
FinishKeepsSlot(w) ==
  /\ pc[w] = "ending" /\ Go(w, "idle") /\ lock' = lock \ {w} /\ emptied' = [emptied EXCEPT ![w] = FALSE]
  /\ UNCHANGED <<source, diskVars, cacheVars, fp, regenerate, turn, used>>

\* Broken variant: a run that stops short keeps the lock.
FinishKeepsLock(w) ==
  /\ pc[w] = "ending" /\ Go(w, "idle") /\ lock' = (IF emptied[w] THEN lock ELSE lock \ {w})
  /\ emptied' = [emptied EXCEPT ![w] = FALSE]
  /\ IF emptied[w] THEN slot' = {} /\ full' = FALSE /\ entry' = None ELSE UNCHANGED cacheVars
  /\ UNCHANGED <<source, diskVars, fp, regenerate, turn, used>>

\* The finally block: a slot emptied and not stored again is dropped before the lock goes.
Finish(w) ==
  /\ pc[w] = "ending" /\ Go(w, "idle") /\ lock' = lock \ {w} /\ emptied' = [emptied EXCEPT ![w] = FALSE]
  /\ IF emptied[w] THEN slot' = {} /\ full' = FALSE /\ entry' = None ELSE UNCHANGED cacheVars
  /\ UNCHANGED <<source, diskVars, fp, regenerate, turn, used>>

(***************************************************************************)
(* The surroundings                                                        *)
(***************************************************************************)

\* The file is replaced in place (an upgrade).
Replace ==
  /\ source < MaxVersions /\ source' = source + 1
  /\ UNCHANGED <<diskVars, cacheVars, lock, pc, runVars, used>>

\* Broken variant: the sweep does not ask whether the slot is in use.
EvictInUse ==
  /\ slot # {} /\ slot' = {} /\ full' = FALSE /\ entry' = None
  /\ UNCHANGED <<source, diskVars, lock, pc, runVars, used>>

\* Another file's put sweeps what is old or over a cap; a slot in use is left alone (_remove_slot_if_idle).
Evict ==
  /\ slot # {} /\ lock = {} /\ slot' = {} /\ full' = FALSE /\ entry' = None
  /\ UNCHANGED <<source, diskVars, lock, pc, runVars, used>>

\* The process dies: the slot and the outputs stay as they were.
Crash ==
  /\ Spend("crashes", MaxCrashes) /\ lock' = {} /\ entry' = None
  /\ pc' = [w \in Workers |-> "idle"] /\ emptied' = [w \in Workers |-> FALSE]
  /\ UNCHANGED <<source, diskVars, slot, full, fp, regenerate, turn>>

Step(w) ==
  \/ Check(w) \/ Acquire(w) \/ Lookup(w) \/ Reuse(w) \/ Extract(w) \/ Extracted(w) \/ SourceCheck(w) \/ Put(w)
  \/ NextPublisher(w) \/ Choose(w) \/ Pack(w) \/ Swap(w) \/ Verify(w) \/ Stamp(w) \/ Finish(w)

Next ==
  \/ \E w \in Workers : Begin(w) \/ Step(w) \/ CancelWait(w) \/ Suspend(w) \/ Continue(w) \/ ExtractFails(w)
  \/ Replace \/ Evict \/ Crash

Spec == Init /\ [][Next]_vars

\* Threads run and nothing has to fail.  Strong, for the two steps that come and go: a run that polls for the lock is
\* let in some time it is free, and a pause stops FFmpeg without losing what it has done.  Nobody has to lift a pause.
Fairness == \A w \in Workers : SF_vars(Step(w) /\ UNCHANGED used)
FairSpec == Spec /\ Fairness

(***************************************************************************)
(* Properties                                                              *)
(***************************************************************************)

\* While an output is packed from them and until its note is written, the shared slot holds a whole set of frames of
\* the version the run began with: nobody empties, sweeps or refills it meanwhile (the generation lock, kept for a
\* regenerate too, and _remove_slot_if_idle).
FramesStay == \A w \in Workers : pc[w] \in {"packing", "swapping", "written", "stamping"} => slot = {fp[w]} /\ full

\* Whenever nobody is at work on the slot, the cache's entry describes exactly what lies in it, whatever was cancelled,
\* failed or raced a replacement (FrameCache.put's fingerprint, the finally block's invalidate).
EntryDescribesSlot == entry # None /\ (\A w \in lock : pc[w] \in Publishing) => slot = {entry} /\ full

\* A note that names the file as it is now is next to frames of this file, through replacements, failures and crashes
\* between an output and its note (write_meta).
NoteVouches == \A a \in Noted : note[a] = source => out[a] \subseteq {source}

\* A run that waits for the file's lock gets it, or is cancelled, and comes to its end (multi_server.py:2156), as long
\* as no pause lasts for ever: FFmpeg is stopped with the lock held, and the waiting run looks for a cancel only.
WaitersAreServed ==
  []<>(\A s \in Workers : pc[s] # "suspended") => \A w \in Workers : pc[w] = "waiting" ~> pc[w] = "idle"

\* A run that waits for the file's lock gets it, or is cancelled, whatever pause the run that holds it is under
\* (multi_server.py:2156, ffmpeg_runner.py:701).
EveryWaiterIsServed == \A w \in Workers : pc[w] = "waiting" ~> pc[w] # "waiting"

\* The note check "guards against" a file replaced in place whose outputs are stale (multi_server.py:1526): a run that
\* skips because everything is fresh leaves no server with frames of another version.
SkipsOnlyCurrent == [][\A w \in Workers : Skip(w) => \A a \in Noted : out[a] = {source}]_vars

\* Dropping the notes of a regenerate keeps a later check from being misled (multi_server.py:2090): it never makes
\* an output of another version count as fresh.
ClearingNeverVouches ==
  [][\A w \in Workers : NeedsGeneration(w) => \A a \in Noted : Fresh(a, FALSE)' => Fresh(a, FALSE)]_vars
=============================================================================
