--------------------------- MODULE ParkingProofs ---------------------------
(***************************************************************************)
(* Proofs about module Parking, for every set of files, runner and bounds. *)
(*                                                                         *)
(* ContinuationCovers is not inductive: the checkpoint a resumed pass      *)
(* reads, the one being written and the ones about to be unlinked must be  *)
(* told apart.  ParkInv says how: a reference is used once, the row's own  *)
(* is never about to be unlinked, and a pass works on what the row's       *)
(* continuation holds as long as the row lives.                            *)
(***************************************************************************)
EXTENDS Parking, TLAPS

\* What a pass still has in its tracker.
AtWork == {"running", "snapshot", "written", "committed"}

\* TypeOK in parts: the rows, the files, the counters and references, and the places of runner and tracker.
RowTypes ==
  /\ mem \in [status : Statuses, ref : References \cup {NoFile}]
  /\ db \in [status : Statuses, ref : References \cup {NoFile}]
FileTypes ==
  /\ disk \in [References -> SUBSET Files] /\ trash \subseteq References
  /\ done \subseteq Files /\ left \subseteq Files
CountTypes ==
  /\ passRef \in References \cup {NoFile} /\ newRef \in References \cup {NoFile}
  /\ written \in 0..MaxParks /\ stops \in 0..MaxStops
PlaceTypes ==
  /\ flag \in BOOLEAN /\ cancelling \in BOOLEAN /\ open \in BOOLEAN /\ parked \in BOOLEAN
  /\ fence \in {"down", "up", "drained"} /\ tracker \in {"none", "attached", "cancelled"}
  /\ pc \in {"stopped", "loaded", "start", "gate", "running", "snapshot", "written", "committed", "detached",
             "teardown", "next", "ended"}
  /\ tracker # "none" => pc \in {"running", "snapshot", "written", "committed"}

\* The manager's row is the stored one; an ended row has no continuation, and only a live one is revived.
RowAgrees ==
  /\ mem = db
  /\ Ended(db.status) => db.ref = NoFile
  /\ pc \in {"stopped", "loaded"} => ~cancelling
  /\ pc = "loaded" => ~Ended(db.status)

\* References are used in order, and each is in one hand: the row's, the pass's new one, or the bin.
ReferencesApart ==
  /\ db.ref \in 0..written /\ passRef \in 0..written /\ \A r \in trash : r <= written
  /\ db.ref \notin trash
  /\ pc = "snapshot" => written < MaxParks
  /\ pc = "written" => newRef = written /\ newRef # db.ref /\ newRef \notin trash /\ newRef # NoFile
  /\ pc \in {"committed", "detached"} => db.ref \in {NoFile, newRef}

\* A pass at the gate goes on from the row's continuation; one at work has every unfinished file.
WorkIsKnown ==
  /\ pc = "gate" /\ Live(mem.status) => passRef = mem.ref
  /\ pc \in AtWork => Files \ done \subseteq left
  /\ pc \in {"snapshot", "written"} => left # {}
  /\ pc = "written" => disk[newRef] = left

ParkInv == TypeOK /\ RowAgrees /\ ReferencesApart /\ WorkIsKnown /\ ContinuationCovers

\* Nothing is stored, written or at work yet.
LEMMA InitPark == Init => ParkInv
<1> SUFFICES ASSUME Init PROVE ParkInv OBVIOUS
<1> USE BoundsAssumption DEF Init, NoFile, References
<1>1. mem \in [status : Statuses, ref : References \cup {NoFile}] BY DEF Statuses
<1>2. TypeOK
  <2>1. disk \in [References -> SUBSET Files] /\ trash \subseteq References OBVIOUS
  <2>2. written \in 0..MaxParks /\ stops \in 0..MaxStops OBVIOUS
  <2>3. db \in [status : Statuses, ref : References \cup {NoFile}] BY <1>1
  <2>q. QED BY <1>1, <2>1, <2>2, <2>3 DEF TypeOK
<1>3. RowAgrees /\ ContinuationCovers BY DEF RowAgrees, ContinuationCovers, Ended
<1>4. ReferencesApart BY DEF ReferencesApart
<1>5. WorkIsKnown BY DEF WorkIsKnown, AtWork
<1>q. QED BY <1>2, <1>3, <1>4, <1>5 DEF ParkInv

\* What ending a row, or finding that it has ended, leaves of row and bin.
SettledRow ==
  /\ mem' \in [status : Statuses, ref : References \cup {NoFile}] /\ db' = mem'
  /\ ~Live(mem'.status) /\ (Ended(mem'.status) => mem'.ref = NoFile)
  /\ mem'.ref \in {NoFile, mem.ref} /\ mem'.ref \notin trash'
  /\ trash' \subseteq References /\ trash' \subseteq trash \cup {mem.ref}
  /\ ~Ended(mem'.status) => UNCHANGED <<mem, db, trash>>

\* _persist_job, through cancel_job and complete_job.
LEMMA SettlePark ==
  ASSUME ParkInv, NEW s \in {"CANCELLED", "COMPLETED"}, SettleLive(s)
  PROVE  SettledRow
<1> USE DEF SettledRow, Ended, Live, NoFile, Statuses, References
<1>1. /\ mem \in [status : Statuses, ref : References \cup {NoFile}] /\ trash \subseteq References /\ db = mem
      /\ (Ended(mem.status) => mem.ref = NoFile) /\ mem.ref \notin trash
      BY DEF ParkInv, TypeOK, RowAgrees, ReferencesApart
<1>2. CASE Live(mem.status)
  <2>1. /\ mem' = [status |-> s, ref |-> NoFile] /\ db' = mem'
        /\ trash' = IF mem.ref = NoFile THEN trash ELSE trash \cup {mem.ref}
        BY <1>2 DEF SettleLive, Settle
  <2>2. NoFile \notin trash' BY <1>1, <2>1
  <2>q. QED BY <1>1, <2>1, <2>2
<1>3. CASE ~Live(mem.status)
  <2>1. UNCHANGED <<mem, db, trash>> BY <1>3 DEF SettleLive, rows
  <2>q. QED BY <1>1, <1>3, <2>1
<1>q. QED BY <1>2, <1>3

-----------------------------------------------------------------------------
\* Lemmas of the steps: each keeps the invariant.

\* The pass reads the row's reference; a row that lives still has it at the gate.
LEMMA StartPassPark == ParkInv /\ StartPass => ParkInv'
<1> SUFFICES ASSUME ParkInv, StartPass PROVE ParkInv' OBVIOUS
<1> USE BoundsAssumption DEF StartPass, ParkInv, TypeOK, NoFile, rows, work, pass
<1>1. TypeOK'
  <2>1. RowTypes' /\ FileTypes' BY DEF RowTypes, FileTypes, References, Statuses
  <2>2. CountTypes' BY DEF CountTypes, References
  <2>3. PlaceTypes' BY DEF PlaceTypes
  <2>q. QED BY <2>1, <2>2, <2>3 DEF RowTypes, FileTypes, CountTypes, PlaceTypes
<1>2. RowAgrees' BY DEF RowAgrees, Ended, Live
<1>3. ReferencesApart' BY DEF RowAgrees, ReferencesApart, References
<1>4. WorkIsKnown' BY DEF RowAgrees, WorkIsKnown, AtWork, Live
<1>5. ContinuationCovers' BY DEF RowAgrees, ReferencesApart, WorkIsKnown, ContinuationCovers, Ended
<1>q. QED BY <1>1, <1>2, <1>3, <1>4, <1>5

\* The pass works on what its reference holds, which covers the unfinished files.
LEMMA ResumePark == ParkInv /\ Resume => ParkInv'
<1> SUFFICES ASSUME ParkInv, Resume PROVE ParkInv' OBVIOUS
<1> USE BoundsAssumption DEF Resume, ParkInv, TypeOK, NoFile, rows, work, pass
<1>1. TypeOK'
  <2>1. RowTypes' /\ FileTypes' BY DEF RowTypes, FileTypes, References, Statuses
  <2>2. CountTypes' BY DEF CountTypes, References
  <2>3. PlaceTypes' BY DEF PlaceTypes
  <2>q. QED BY <2>1, <2>2, <2>3 DEF RowTypes, FileTypes, CountTypes, PlaceTypes
<1>2. RowAgrees' BY DEF RowAgrees, Ended, Live
<1>3. ReferencesApart' BY DEF RowAgrees, ReferencesApart, References
<1>4. WorkIsKnown' BY DEF RowAgrees, WorkIsKnown, AtWork, Live, ContinuationCovers, Ended
<1>5. ContinuationCovers' BY DEF RowAgrees, ReferencesApart, WorkIsKnown, ContinuationCovers, Ended
<1>q. QED BY <1>1, <1>2, <1>3, <1>4, <1>5

\* The loop's cancel touches the tracker alone.
LEMMA LoopCancelsPark == ParkInv /\ LoopCancels => ParkInv'
<1> SUFFICES ASSUME ParkInv, LoopCancels PROVE ParkInv' OBVIOUS
<1> USE BoundsAssumption DEF LoopCancels, ParkInv, TypeOK, NoFile, rows, work, pass
<1>1. TypeOK'
  <2>1. RowTypes' /\ FileTypes' BY DEF RowTypes, FileTypes, References, Statuses
  <2>2. CountTypes' BY DEF CountTypes, References
  <2>3. PlaceTypes' BY DEF PlaceTypes
  <2>q. QED BY <2>1, <2>2, <2>3 DEF RowTypes, FileTypes, CountTypes, PlaceTypes
<1>2. RowAgrees' BY DEF RowAgrees, Ended, Live
<1>3. ReferencesApart' BY DEF RowAgrees, ReferencesApart, References
<1>4. WorkIsKnown' BY DEF RowAgrees, WorkIsKnown, AtWork, Live
<1>5. ContinuationCovers' BY DEF RowAgrees, ReferencesApart, WorkIsKnown, ContinuationCovers, Ended
<1>q. QED BY <1>1, <1>2, <1>3, <1>4, <1>5

\* The fence holds nothing that is stored.
LEMMA RaiseFencePark == ParkInv /\ RaiseFence => ParkInv'
<1> SUFFICES ASSUME ParkInv, RaiseFence PROVE ParkInv' OBVIOUS
<1> USE BoundsAssumption DEF RaiseFence, ParkInv, TypeOK, NoFile, rows, work, pass
<1>1. TypeOK'
  <2>1. RowTypes' /\ FileTypes' BY DEF RowTypes, FileTypes, References, Statuses
  <2>2. CountTypes' BY DEF CountTypes, References
  <2>3. PlaceTypes' BY DEF PlaceTypes
  <2>q. QED BY <2>1, <2>2, <2>3 DEF RowTypes, FileTypes, CountTypes, PlaceTypes
<1>2. RowAgrees' BY DEF RowAgrees, Ended, Live
<1>3. ReferencesApart' BY DEF RowAgrees, ReferencesApart, References
<1>4. WorkIsKnown' BY DEF RowAgrees, WorkIsKnown, AtWork, Live
<1>5. ContinuationCovers' BY DEF RowAgrees, ReferencesApart, WorkIsKnown, ContinuationCovers, Ended
<1>q. QED BY <1>1, <1>2, <1>3, <1>4, <1>5

\* There is room for one more checkpoint, and something to put in it.
LEMMA TakeSnapshotPark == ParkInv /\ TakeSnapshot => ParkInv'
<1> SUFFICES ASSUME ParkInv, TakeSnapshot PROVE ParkInv' OBVIOUS
<1> USE BoundsAssumption DEF TakeSnapshot, ParkInv, TypeOK, NoFile, rows, work, pass
<1>1. TypeOK'
  <2>1. RowTypes' /\ FileTypes' BY DEF RowTypes, FileTypes, References, Statuses
  <2>2. CountTypes' BY DEF CountTypes, References
  <2>3. PlaceTypes' BY DEF PlaceTypes
  <2>q. QED BY <2>1, <2>2, <2>3 DEF RowTypes, FileTypes, CountTypes, PlaceTypes
<1>2. RowAgrees' BY DEF RowAgrees, Ended, Live
<1>3. ReferencesApart' BY DEF RowAgrees, ReferencesApart, References
<1>4. WorkIsKnown' BY DEF RowAgrees, WorkIsKnown, AtWork, Live
<1>5. ContinuationCovers' BY DEF RowAgrees, ReferencesApart, WorkIsKnown, ContinuationCovers, Ended
<1>q. QED BY <1>1, <1>2, <1>3, <1>4, <1>5

\* The reference is new: neither the row's nor one about to be unlinked.
LEMMA WriteCheckpointPark == ParkInv /\ WriteCheckpoint => ParkInv'
<1> SUFFICES ASSUME ParkInv, WriteCheckpoint PROVE ParkInv' OBVIOUS
<1> USE BoundsAssumption DEF WriteCheckpoint, ParkInv, TypeOK, NoFile, rows, work, pass
<1>1. TypeOK' BY DEF References, Statuses, ReferencesApart
<1>2. RowAgrees' BY DEF RowAgrees, Ended, Live
<1>3. ReferencesApart' BY DEF RowAgrees, ReferencesApart, References
<1>4. WorkIsKnown' BY DEF RowAgrees, WorkIsKnown, AtWork, Live, ReferencesApart, References
<1>5. ContinuationCovers' BY DEF RowAgrees, ReferencesApart, WorkIsKnown, ContinuationCovers, Ended
<1>q. QED BY <1>1, <1>2, <1>3, <1>4, <1>5

\* A failed write leaves everything as it was.
LEMMA WriteFailsPark == ParkInv /\ WriteFails => ParkInv'
<1> SUFFICES ASSUME ParkInv, WriteFails PROVE ParkInv' OBVIOUS
<1> USE BoundsAssumption DEF WriteFails, ParkInv, TypeOK, NoFile, rows, work, pass
<1>1. TypeOK'
  <2>1. RowTypes' /\ FileTypes' BY DEF RowTypes, FileTypes, References, Statuses
  <2>2. CountTypes' BY DEF CountTypes, References
  <2>3. PlaceTypes' BY DEF PlaceTypes
  <2>q. QED BY <2>1, <2>2, <2>3 DEF RowTypes, FileTypes, CountTypes, PlaceTypes
<1>2. RowAgrees' BY DEF RowAgrees, Ended, Live
<1>3. ReferencesApart' BY DEF RowAgrees, ReferencesApart, References
<1>4. WorkIsKnown' BY DEF RowAgrees, WorkIsKnown, AtWork, Live
<1>5. ContinuationCovers' BY DEF RowAgrees, ReferencesApart, WorkIsKnown, ContinuationCovers, Ended
<1>q. QED BY <1>1, <1>2, <1>3, <1>4, <1>5

\* Row and reference are committed together, over a checkpoint that is complete.
LEMMA ParkJobPark == ParkInv /\ ParkJob => ParkInv'
<1> SUFFICES ASSUME ParkInv, ParkJob PROVE ParkInv' OBVIOUS
<1> USE BoundsAssumption DEF ParkJob, ParkInv, TypeOK, NoFile, rows, work, pass
<1>1. TypeOK'
  <2>1. RowTypes' /\ FileTypes' BY DEF RowTypes, FileTypes, References, Statuses
  <2>2. CountTypes' BY DEF CountTypes, References
  <2>3. PlaceTypes' BY DEF PlaceTypes
  <2>q. QED BY <2>1, <2>2, <2>3 DEF RowTypes, FileTypes, CountTypes, PlaceTypes
<1>2. RowAgrees' BY DEF RowAgrees, Ended, Live
<1>3. ReferencesApart' BY DEF RowAgrees, ReferencesApart, References
<1>4. WorkIsKnown' BY DEF RowAgrees, WorkIsKnown, AtWork, Live
<1>5. ContinuationCovers' BY DEF RowAgrees, ReferencesApart, WorkIsKnown, ContinuationCovers, Ended, AtWork, Live
<1>q. QED BY <1>1, <1>2, <1>3, <1>4, <1>5

\* Only the checkpoint nothing refers to is removed.
LEMMA ParkFailsPark == ParkInv /\ ParkFails => ParkInv'
<1> SUFFICES ASSUME ParkInv, ParkFails PROVE ParkInv' OBVIOUS
<1> USE BoundsAssumption DEF ParkFails, ParkInv, TypeOK, NoFile, rows, work, pass
<1>1. TypeOK' BY DEF References, Statuses, ReferencesApart
<1>2. RowAgrees' BY DEF RowAgrees, Ended, Live
<1>3. ReferencesApart' BY DEF RowAgrees, ReferencesApart, References
<1>4. WorkIsKnown' BY DEF RowAgrees, WorkIsKnown, AtWork, Live
<1>5. ContinuationCovers' BY DEF RowAgrees, ReferencesApart, WorkIsKnown, ContinuationCovers, Ended
<1>q. QED BY <1>1, <1>2, <1>3, <1>4, <1>5

\* The row keeps the new reference.
LEMMA DetachPark == ParkInv /\ Detach => ParkInv'
<1> SUFFICES ASSUME ParkInv, Detach PROVE ParkInv' OBVIOUS
<1> USE BoundsAssumption DEF Detach, ParkInv, TypeOK, NoFile, rows, work, pass
<1>1. TypeOK'
  <2>1. RowTypes' /\ FileTypes' BY DEF RowTypes, FileTypes, References, Statuses
  <2>2. CountTypes' BY DEF CountTypes, References
  <2>3. PlaceTypes' BY DEF PlaceTypes
  <2>q. QED BY <2>1, <2>2, <2>3 DEF RowTypes, FileTypes, CountTypes, PlaceTypes
<1>2. RowAgrees' BY DEF RowAgrees, Ended, Live
<1>3. ReferencesApart' BY DEF RowAgrees, ReferencesApart, References
<1>4. WorkIsKnown' BY DEF RowAgrees, WorkIsKnown, AtWork, Live
<1>5. ContinuationCovers' BY DEF RowAgrees, ReferencesApart, WorkIsKnown, ContinuationCovers, Ended
<1>q. QED BY <1>1, <1>2, <1>3, <1>4, <1>5

\* The previous checkpoint goes when the row no longer names it.
LEMMA DropPreviousPark == ParkInv /\ DropPrevious => ParkInv'
<1> SUFFICES ASSUME ParkInv, DropPrevious PROVE ParkInv' OBVIOUS
<1> USE BoundsAssumption DEF DropPrevious, ParkInv, TypeOK, NoFile, rows, work, pass
<1>1. TypeOK'
  <2>1. RowTypes' /\ FileTypes' BY DEF RowTypes, FileTypes, References, Statuses
  <2>2. CountTypes' BY DEF CountTypes, References
  <2>3. PlaceTypes' BY DEF PlaceTypes
  <2>q. QED BY <2>1, <2>2, <2>3 DEF RowTypes, FileTypes, CountTypes, PlaceTypes
<1>2. RowAgrees' BY DEF RowAgrees, Ended, Live
<1>3. ReferencesApart' BY DEF RowAgrees, ReferencesApart, References
<1>4. WorkIsKnown' BY DEF RowAgrees, WorkIsKnown, AtWork, Live
<1>5. ContinuationCovers' BY DEF RowAgrees, ReferencesApart, WorkIsKnown, ContinuationCovers, Ended
<1>q. QED BY <1>1, <1>2, <1>3, <1>4, <1>5

\* The teardown touches the flag alone.
LEMMA TearDownPark == ParkInv /\ TearDown => ParkInv'
<1> SUFFICES ASSUME ParkInv, TearDown PROVE ParkInv' OBVIOUS
<1> USE BoundsAssumption DEF TearDown, ParkInv, TypeOK, NoFile, rows, work, pass
<1>1. TypeOK'
  <2>1. RowTypes' /\ FileTypes' BY DEF RowTypes, FileTypes, References, Statuses
  <2>2. CountTypes' BY DEF CountTypes, References
  <2>3. PlaceTypes' BY DEF PlaceTypes
  <2>q. QED BY <2>1, <2>2, <2>3 DEF RowTypes, FileTypes, CountTypes, PlaceTypes
<1>2. RowAgrees' BY DEF RowAgrees, Ended, Live
<1>3. ReferencesApart' BY DEF RowAgrees, ReferencesApart, References
<1>4. WorkIsKnown' BY DEF RowAgrees, WorkIsKnown, AtWork, Live
<1>5. ContinuationCovers' BY DEF RowAgrees, ReferencesApart, WorkIsKnown, ContinuationCovers, Ended
<1>q. QED BY <1>1, <1>2, <1>3, <1>4, <1>5

\* Between passes nothing changes but the runner's place.
LEMMA NextPassPark == ParkInv /\ NextPass => ParkInv'
<1> SUFFICES ASSUME ParkInv, NextPass PROVE ParkInv' OBVIOUS
<1> USE BoundsAssumption DEF NextPass, ParkInv, TypeOK, NoFile, rows, work, pass
<1>1. TypeOK'
  <2>1. RowTypes' /\ FileTypes' BY DEF RowTypes, FileTypes, References, Statuses
  <2>2. CountTypes' BY DEF CountTypes, References
  <2>3. PlaceTypes' BY DEF PlaceTypes
  <2>q. QED BY <2>1, <2>2, <2>3 DEF RowTypes, FileTypes, CountTypes, PlaceTypes
<1>2. RowAgrees' BY DEF RowAgrees, Ended, Live
<1>3. ReferencesApart' BY DEF RowAgrees, ReferencesApart, References
<1>4. WorkIsKnown' BY DEF RowAgrees, WorkIsKnown, AtWork, Live
<1>5. ContinuationCovers' BY DEF RowAgrees, ReferencesApart, WorkIsKnown, ContinuationCovers, Ended
<1>q. QED BY <1>1, <1>2, <1>3, <1>4, <1>5

\* A requested cancel touches the flags alone.
LEMMA RequestCancelPark == ParkInv /\ RequestCancel => ParkInv'
<1> SUFFICES ASSUME ParkInv, RequestCancel PROVE ParkInv' OBVIOUS
<1> USE BoundsAssumption DEF RequestCancel, ParkInv, TypeOK, NoFile, rows, work, pass
<1>1. TypeOK'
  <2>1. RowTypes' /\ FileTypes' BY DEF RowTypes, FileTypes, References, Statuses
  <2>2. CountTypes' BY DEF CountTypes, References
  <2>3. PlaceTypes' BY DEF PlaceTypes
  <2>q. QED BY <2>1, <2>2, <2>3 DEF RowTypes, FileTypes, CountTypes, PlaceTypes
<1>2. RowAgrees' BY DEF RowAgrees, Ended, Live
<1>3. ReferencesApart' BY DEF RowAgrees, ReferencesApart, References
<1>4. WorkIsKnown' BY DEF RowAgrees, WorkIsKnown, AtWork, Live
<1>5. ContinuationCovers' BY DEF RowAgrees, ReferencesApart, WorkIsKnown, ContinuationCovers, Ended
<1>q. QED BY <1>1, <1>2, <1>3, <1>4, <1>5

\* The hours touch nothing that is stored.
LEMMA SetHoursPark == ParkInv /\ SetHours => ParkInv'
<1> SUFFICES ASSUME ParkInv, SetHours PROVE ParkInv' OBVIOUS
<1> USE BoundsAssumption DEF SetHours, ParkInv, TypeOK, NoFile, rows, work, pass
<1>1. TypeOK'
  <2>1. RowTypes' /\ FileTypes' BY DEF RowTypes, FileTypes, References, Statuses
  <2>2. CountTypes' BY DEF CountTypes, References
  <2>3. PlaceTypes' BY DEF PlaceTypes
  <2>q. QED BY <2>1, <2>2, <2>3 DEF RowTypes, FileTypes, CountTypes, PlaceTypes
<1>2. RowAgrees' BY DEF RowAgrees, Ended, Live
<1>3. ReferencesApart' BY DEF RowAgrees, ReferencesApart, References
<1>4. WorkIsKnown' BY DEF RowAgrees, WorkIsKnown, AtWork, Live
<1>5. ContinuationCovers' BY DEF RowAgrees, ReferencesApart, WorkIsKnown, ContinuationCovers, Ended
<1>q. QED BY <1>1, <1>2, <1>3, <1>4, <1>5

\* A stop keeps the stored row and the files; the unlinks under way are forgotten.
LEMMA StopPark == ParkInv /\ Stop => ParkInv'
<1> SUFFICES ASSUME ParkInv, Stop PROVE ParkInv' OBVIOUS
<1> USE BoundsAssumption DEF Stop, ParkInv, TypeOK, NoFile, rows, work, pass
<1>1. TypeOK'
  <2>1. {mem', db'} \subseteq [status : Statuses, ref : References \cup {NoFile}]
        BY DEF Statuses, References
  <2>2. disk' \in [References -> SUBSET Files] /\ trash' \subseteq References BY DEF References
  <2>3. written' \in 0..MaxParks /\ stops' \in 0..MaxStops OBVIOUS
  <2>4. {flag', cancelling', open', parked'} \subseteq BOOLEAN OBVIOUS
  <2>5. done' \subseteq Files /\ left' \subseteq Files /\ tracker' = "none" /\ fence' = "down" /\ pc' = "stopped"
        OBVIOUS
  <2>6. passRef' \in References \cup {NoFile} /\ newRef' \in References \cup {NoFile} OBVIOUS
  <2>q. QED BY <2>1, <2>2, <2>3, <2>4, <2>5, <2>6
<1>2. RowAgrees' BY DEF RowAgrees, Ended, Live
<1>3. ReferencesApart' BY DEF RowAgrees, ReferencesApart, References
<1>4. WorkIsKnown' BY DEF RowAgrees, WorkIsKnown, AtWork, Live
<1>5. ContinuationCovers' BY DEF RowAgrees, ReferencesApart, WorkIsKnown, ContinuationCovers, Ended
<1>q. QED BY <1>1, <1>2, <1>3, <1>4, <1>5

\* The start keeps an interrupted row's continuation.
LEMMA LoadPark == ParkInv /\ Load => ParkInv'
<1> SUFFICES ASSUME ParkInv, Load PROVE ParkInv' OBVIOUS
<1> USE BoundsAssumption DEF Load, ParkInv, TypeOK, NoFile, rows, work, pass
<1>1. TypeOK'
  <2>1. RowTypes' /\ FileTypes' BY DEF RowTypes, FileTypes, References, Statuses
  <2>2. CountTypes' BY DEF CountTypes, References
  <2>3. PlaceTypes' BY DEF PlaceTypes
  <2>q. QED BY <2>1, <2>2, <2>3 DEF RowTypes, FileTypes, CountTypes, PlaceTypes
<1>2. RowAgrees' BY DEF RowAgrees, Ended, Live
<1>3. ReferencesApart' BY DEF RowAgrees, ReferencesApart, References
<1>4. WorkIsKnown' BY DEF RowAgrees, WorkIsKnown, AtWork, Live
<1>5. ContinuationCovers' BY DEF RowAgrees, ReferencesApart, WorkIsKnown, ContinuationCovers, Ended
<1>q. QED BY <1>1, <1>2, <1>3, <1>4, <1>5

\* A revived row keeps its continuation.
LEMMA RevivePark == ParkInv /\ Revive => ParkInv'
<1> SUFFICES ASSUME ParkInv, Revive PROVE ParkInv' OBVIOUS
<1> USE BoundsAssumption DEF Revive, ParkInv, TypeOK, NoFile, rows, work, pass
<1>1. TypeOK'
  <2>1. RowTypes' /\ FileTypes' BY DEF RowTypes, FileTypes, References, Statuses
  <2>2. CountTypes' BY DEF CountTypes, References
  <2>3. PlaceTypes' BY DEF PlaceTypes
  <2>q. QED BY <2>1, <2>2, <2>3 DEF RowTypes, FileTypes, CountTypes, PlaceTypes
<1>2. RowAgrees' BY DEF RowAgrees, Ended, Live
<1>3. ReferencesApart' BY DEF RowAgrees, ReferencesApart, References
<1>4. WorkIsKnown' BY DEF RowAgrees, WorkIsKnown, AtWork, Live
<1>5. ContinuationCovers' BY DEF RowAgrees, ReferencesApart, WorkIsKnown, ContinuationCovers, Ended
<1>q. QED BY <1>1, <1>2, <1>3, <1>4, <1>5

\* A finished file leaves what is left and what must be covered.
LEMMA FinishFilePark == \A f \in Files : ParkInv /\ FinishFile(f) => ParkInv'
<1> SUFFICES ASSUME NEW f \in Files, ParkInv, FinishFile(f) PROVE ParkInv' OBVIOUS
<1> USE BoundsAssumption DEF FinishFile, ParkInv, TypeOK, NoFile, rows, work, pass
<1>1. TypeOK'
  <2>1. RowTypes' /\ FileTypes' BY DEF RowTypes, FileTypes, References, Statuses
  <2>2. CountTypes' BY DEF CountTypes, References
  <2>3. PlaceTypes' BY DEF PlaceTypes
  <2>q. QED BY <2>1, <2>2, <2>3 DEF RowTypes, FileTypes, CountTypes, PlaceTypes
<1>2. RowAgrees' BY DEF RowAgrees, Ended, Live
<1>3. ReferencesApart' BY DEF RowAgrees, ReferencesApart, References
<1>4. WorkIsKnown' BY DEF RowAgrees, WorkIsKnown, AtWork, Live
<1>5. ContinuationCovers' BY DEF RowAgrees, ReferencesApart, WorkIsKnown, ContinuationCovers, Ended
<1>q. QED BY <1>1, <1>2, <1>3, <1>4, <1>5

\* What is unlinked is not the row's, nor the one being written.
LEMMA UnlinkPark == \A r \in References : ParkInv /\ Unlink(r) => ParkInv'
<1> SUFFICES ASSUME NEW r \in References, ParkInv, Unlink(r) PROVE ParkInv' OBVIOUS
<1> USE BoundsAssumption DEF Unlink, ParkInv, TypeOK, NoFile, rows, work, pass
<1>1. TypeOK'
  <2>1. RowTypes' /\ FileTypes' BY DEF RowTypes, FileTypes, References, Statuses
  <2>2. CountTypes' BY DEF CountTypes, References
  <2>3. PlaceTypes' BY DEF PlaceTypes
  <2>q. QED BY <2>1, <2>2, <2>3 DEF RowTypes, FileTypes, CountTypes, PlaceTypes
<1>2. RowAgrees' BY DEF RowAgrees, Ended, Live
<1>3. ReferencesApart' BY DEF RowAgrees, ReferencesApart, References
<1>4. WorkIsKnown' BY DEF RowAgrees, WorkIsKnown, AtWork, Live, ReferencesApart
<1>5. ContinuationCovers' BY DEF RowAgrees, ReferencesApart, WorkIsKnown, ContinuationCovers, Ended
<1>q. QED BY <1>1, <1>2, <1>3, <1>4, <1>5

\* The row ends at the gate, or is left to the cancel route.
LEMMA LeaveGatePark == ParkInv /\ LeaveGate => ParkInv'
<1> SUFFICES ASSUME ParkInv, LeaveGate PROVE ParkInv' OBVIOUS
<1> DEFINE s == "CANCELLED"
<1>1. s \in {"CANCELLED", "COMPLETED"} /\ (SettleLive(s) \/ UNCHANGED rows) BY DEF LeaveGate
<1>2. UNCHANGED <<disk, open, done, left, fence, passRef, newRef, written, stops>> BY DEF LeaveGate, work, pass
<1> HIDE DEF s
<1>3. SettledRow \/ UNCHANGED <<mem, db, trash>> BY <1>1, <1>2, SettlePark DEF rows
<1> USE <1>2, <1>3, BoundsAssumption DEF LeaveGate, ParkInv, TypeOK, NoFile, rows, work, pass, SettledRow
<1>4. TypeOK'
  <2>1. RowTypes' /\ FileTypes' BY DEF RowTypes, FileTypes, References, Statuses
  <2>2. CountTypes' BY DEF CountTypes, References
  <2>3. PlaceTypes' BY DEF PlaceTypes
  <2>q. QED BY <2>1, <2>2, <2>3 DEF RowTypes, FileTypes, CountTypes, PlaceTypes
<1>5. RowAgrees' BY DEF RowAgrees, Ended, Live
<1>6. ReferencesApart'
  <2>1. CASE SettledRow BY <2>1 DEF RowAgrees, ReferencesApart, References
  <2>2. CASE UNCHANGED <<mem, db, trash>> BY <2>2 DEF RowAgrees, ReferencesApart, References
  <2>q. QED BY <1>3, <2>1, <2>2
<1>7. WorkIsKnown' BY DEF RowAgrees, WorkIsKnown, AtWork, Live
<1>8. ContinuationCovers' BY DEF RowAgrees, ReferencesApart, WorkIsKnown, ContinuationCovers, Ended
<1>q. QED BY <1>4, <1>5, <1>6, <1>7, <1>8

\* The row ends with the pass.
LEMMA EndWaitPark == ParkInv /\ EndWait => ParkInv'
<1> SUFFICES ASSUME ParkInv, EndWait PROVE ParkInv' OBVIOUS
<1> DEFINE s == IF tracker = "cancelled" \/ flag THEN "CANCELLED" ELSE "COMPLETED"
<1>1. s \in {"CANCELLED", "COMPLETED"} /\ SettleLive(s) BY DEF EndWait
<1>2. UNCHANGED <<disk, open, done, left, passRef, newRef, written, stops>> BY DEF EndWait, work, pass
<1> HIDE DEF s
<1>3. SettledRow BY <1>1, <1>2, SettlePark
<1> USE <1>2, <1>3, BoundsAssumption DEF EndWait, ParkInv, TypeOK, NoFile, rows, work, pass, SettledRow
<1>4. TypeOK'
  <2>1. RowTypes' /\ FileTypes' BY DEF RowTypes, FileTypes, References, Statuses
  <2>2. CountTypes' BY DEF CountTypes, References
  <2>3. PlaceTypes' BY DEF PlaceTypes
  <2>q. QED BY <2>1, <2>2, <2>3 DEF RowTypes, FileTypes, CountTypes, PlaceTypes
<1>5. RowAgrees' BY DEF RowAgrees, Ended, Live
<1>6. ReferencesApart' BY DEF RowAgrees, ReferencesApart, References
<1>7. WorkIsKnown' BY DEF RowAgrees, WorkIsKnown, AtWork, Live
<1>8. ContinuationCovers' BY DEF RowAgrees, ReferencesApart, WorkIsKnown, ContinuationCovers, Ended
<1>q. QED BY <1>4, <1>5, <1>6, <1>7, <1>8

\* The row ends though its continuation was just committed.
LEMMA CancelAfterCommitPark == ParkInv /\ CancelAfterCommit => ParkInv'
<1> SUFFICES ASSUME ParkInv, CancelAfterCommit PROVE ParkInv' OBVIOUS
<1> DEFINE s == "CANCELLED"
<1>1. s \in {"CANCELLED", "COMPLETED"} /\ SettleLive(s) BY DEF CancelAfterCommit
<1>2. UNCHANGED <<disk, open, done, left, passRef, newRef, written, stops>> BY DEF CancelAfterCommit, work, pass
<1> HIDE DEF s
<1>3. SettledRow BY <1>1, <1>2, SettlePark
<1> USE <1>2, <1>3, BoundsAssumption DEF CancelAfterCommit, ParkInv, TypeOK, NoFile, rows, work, pass, SettledRow
<1>4. TypeOK'
  <2>1. RowTypes' /\ FileTypes' BY DEF RowTypes, FileTypes, References, Statuses
  <2>2. CountTypes' BY DEF CountTypes, References
  <2>3. PlaceTypes' BY DEF PlaceTypes
  <2>q. QED BY <2>1, <2>2, <2>3 DEF RowTypes, FileTypes, CountTypes, PlaceTypes
<1>5. RowAgrees' BY DEF RowAgrees, Ended, Live
<1>6. ReferencesApart' BY DEF RowAgrees, ReferencesApart, References
<1>7. WorkIsKnown' BY DEF RowAgrees, WorkIsKnown, AtWork, Live
<1>8. ContinuationCovers' BY DEF RowAgrees, ReferencesApart, WorkIsKnown, ContinuationCovers, Ended
<1>q. QED BY <1>4, <1>5, <1>6, <1>7, <1>8

\* The row ends by the cancel route.
LEMMA CancelRowPark == ParkInv /\ CancelRow => ParkInv'
<1> SUFFICES ASSUME ParkInv, CancelRow PROVE ParkInv' OBVIOUS
<1> DEFINE s == "CANCELLED"
<1>1. s \in {"CANCELLED", "COMPLETED"} /\ SettleLive(s) BY DEF CancelRow
<1>2. UNCHANGED <<disk, open, done, left, passRef, newRef, written, stops>> BY DEF CancelRow, work, pass
<1> HIDE DEF s
<1>3. SettledRow BY <1>1, <1>2, SettlePark
<1> USE <1>2, <1>3, BoundsAssumption DEF CancelRow, ParkInv, TypeOK, NoFile, rows, work, pass, SettledRow
<1>4. TypeOK'
  <2>1. RowTypes' /\ FileTypes' BY DEF RowTypes, FileTypes, References, Statuses
  <2>2. CountTypes' BY DEF CountTypes, References
  <2>3. PlaceTypes' BY DEF PlaceTypes
  <2>q. QED BY <2>1, <2>2, <2>3 DEF RowTypes, FileTypes, CountTypes, PlaceTypes
<1>5. RowAgrees' BY DEF RowAgrees, Ended, Live
<1>6. ReferencesApart' BY DEF RowAgrees, ReferencesApart, References
<1>7. WorkIsKnown' BY DEF RowAgrees, WorkIsKnown, AtWork, Live
<1>8. ContinuationCovers' BY DEF RowAgrees, ReferencesApart, WorkIsKnown, ContinuationCovers, Ended
<1>q. QED BY <1>4, <1>5, <1>6, <1>7, <1>8

\* Every step keeps it.
LEMMA StepPark == ParkInv /\ [Next]_vars => ParkInv'
<1> SUFFICES ASSUME ParkInv, [Next]_vars PROVE ParkInv' OBVIOUS
<1>1. CASE PassStep
      BY <1>1, StartPassPark, LeaveGatePark, ResumePark, EndWaitPark, LoopCancelsPark, TearDownPark, NextPassPark,
         TakeSnapshotPark, WriteCheckpointPark, ParkJobPark, CancelAfterCommitPark, DetachPark, ParkFailsPark,
         DropPreviousPark, CancelRowPark, LoadPark, RevivePark
      DEF PassStep
<1>2. CASE \E f \in Files : FinishFile(f) BY <1>2, FinishFilePark
<1>3. CASE \E r \in References : Unlink(r) BY <1>3, UnlinkPark
<1>4. CASE RaiseFence \/ WriteFails \/ RequestCancel \/ SetHours \/ Stop
      BY <1>4, RaiseFencePark, WriteFailsPark, RequestCancelPark, SetHoursPark, StopPark
<1>5. CASE UNCHANGED vars
  <2>1. TypeOK' /\ RowAgrees' BY <1>5 DEF vars, rows, work, pass, ParkInv, TypeOK, RowAgrees
  <2>2. ReferencesApart' /\ WorkIsKnown' /\ ContinuationCovers'
        BY <1>5 DEF vars, rows, work, pass, ParkInv, ReferencesApart, WorkIsKnown, ContinuationCovers
  <2>q. QED BY <2>1, <2>2 DEF ParkInv
<1>q. QED BY <1>1, <1>2, <1>3, <1>4, <1>5 DEF Next

\* The invariant holds in every reachable state.
THEOREM InvariantHolds == Spec => []ParkInv
<1>q. QED BY InitPark, StepPark, PTL DEF Spec

\* Every variable keeps its type.
THEOREM TypeCorrect == Spec => []TypeOK
<1>1. ParkInv => TypeOK BY DEF ParkInv
<1>q. QED BY <1>1, InvariantHolds, PTL

\* park_if_unavailable, _persist_job and _load_jobs: whenever the process stops, the continuation the stored row names
\* is on disk and holds every file that is not finished.
THEOREM ContinuationHolds == Spec => []ContinuationCovers
<1>1. ParkInv => ContinuationCovers BY DEF ParkInv
<1>q. QED BY <1>1, InvariantHolds, PTL

-----------------------------------------------------------------------------
\* Only a live row is given another status, and a row is revived only if it was found live.
LEMMA StepKeepsEnded == ParkInv /\ [Next]_vars => [Ended(db.status) => db'.status = db.status]_db
<1> SUFFICES ASSUME ParkInv, [Next]_vars, Ended(db.status) PROVE db'.status = db.status OBVIOUS
<1>1. ~Live(mem.status) /\ pc # "loaded" BY DEF ParkInv, RowAgrees, Ended, Live
<1>2. CASE LeaveGate \/ EndWait \/ CancelAfterCommit \/ CancelRow
  <2>1. PICK s \in {"CANCELLED", "COMPLETED"} : SettleLive(s) \/ UNCHANGED rows
        BY <1>2 DEF LeaveGate, EndWait, CancelAfterCommit, CancelRow
  <2>q. QED BY <1>1, <2>1 DEF SettleLive, rows
<1>3. CASE Load BY <1>3 DEF Load, Ended
<1>4. CASE StartPass \/ Resume \/ LoopCancels \/ TearDown \/ NextPass \/ WriteCheckpoint \/ ParkJob \/ Detach
           \/ ParkFails \/ DropPrevious \/ Revive
      BY <1>1, <1>4 DEF StartPass, Resume, LoopCancels, TearDown, NextPass, WriteCheckpoint, ParkJob, Detach, ParkFails,
                        DropPrevious, Revive, rows
<1>5. CASE \/ (\E f \in Files : FinishFile(f)) \/ RaiseFence \/ TakeSnapshot \/ WriteFails
           \/ (\E r \in References : Unlink(r)) \/ RequestCancel \/ SetHours \/ Stop \/ UNCHANGED vars
      BY <1>5 DEF FinishFile, RaiseFence, TakeSnapshot, WriteFails, Unlink, RequestCancel, SetHours, Stop, rows, vars
<1>q. QED BY <1>2, <1>3, <1>4, <1>5 DEF Next, PassStep

\* _persist_job, _cancel_job, park_job and the revival: a row stored as ended keeps its status, restarts included.
THEOREM EndedHolds == Spec => EndedStaysEnded
<1>q. QED BY InvariantHolds, StepKeepsEnded, PTL DEF Spec, EndedStaysEnded
=============================================================================
