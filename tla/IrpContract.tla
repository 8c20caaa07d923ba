----------------------------- MODULE IrpContract -----------------------------
(***************************************************************************)
(* What a driver that queues requests promises to the I/O manager, whatever *)
(* its queue, timers, locks and threads look like.                         *)
(*                                                                         *)
(*   - A request is completed exactly once, and only after it was issued.  *)
(*   - A request may be put in the driver's queue only as long as cleanup  *)
(*     of its handle is not over.                                          *)
(*   - When cleanup is over, no request of the handle lies idle in the     *)
(*     queue: each one is complete, or something is already under way      *)
(*     that completes it.                                                  *)
(*                                                                         *)
(* The I/O manager's side is in the guards of Close and Unload.            *)
(***************************************************************************)
CONSTANTS Files, Reqs, NoFile

VARIABLES device, handle, irpFile, phase

vars == <<device, handle, irpFile, phase>>

HandleStates == {"none", "open", "cleanup", "cleaned", "closed"}

\* "issued"    : in the dispatch routine        "queued" : idle in the queue
\* "committed" : its completion is under way    "completed" : once and for all
Phases == {"none", "issued", "queued", "committed", "completed"}

TypeOK ==
  /\ device \in {"live", "deleted"}
  /\ handle \in [Files -> HandleStates]
  /\ irpFile \in [Reqs -> Files \cup {NoFile}]
  /\ phase \in [Reqs -> Phases]

Init ==
  /\ device = "live"
  /\ handle = [f \in Files |-> "none"]
  /\ irpFile = [r \in Reqs |-> NoFile]
  /\ phase = [r \in Reqs |-> "none"]

Step(r, from, to) ==
  /\ phase[r] \in from
  /\ phase' = [phase EXCEPT ![r] = to]

Open(f) ==
  /\ device = "live"
  /\ handle[f] = "none"
  /\ handle' = [handle EXCEPT ![f] = "open"]
  /\ UNCHANGED <<device, irpFile, phase>>

Issue(r, f) ==
  /\ handle[f] = "open"
  /\ Step(r, {"none"}, "issued")
  /\ irpFile' = [irpFile EXCEPT ![r] = f]
  /\ UNCHANGED <<device, handle>>

\* The dispatch routine completes the request itself.
Answer(r) ==
  /\ Step(r, {"issued"}, "completed")
  /\ UNCHANGED <<device, handle, irpFile>>

Queue(r) ==
  /\ Step(r, {"issued"}, "queued")
  /\ handle[irpFile[r]] \in {"open", "cleanup"}
  /\ UNCHANGED <<device, handle, irpFile>>

\* The requests S leave the queue, each with a completion under way.
Commit(S) ==
  /\ \A r \in S : phase[r] \in {"issued", "queued"}
  /\ phase' = [r \in Reqs |-> IF r \in S THEN "committed" ELSE phase[r]]
  /\ UNCHANGED <<device, handle, irpFile>>

Complete(r) ==
  /\ Step(r, {"committed"}, "completed")
  /\ UNCHANGED <<device, handle, irpFile>>

BeginCleanup(f) ==
  /\ handle[f] = "open"
  /\ handle' = [handle EXCEPT ![f] = "cleanup"]
  /\ UNCHANGED <<device, irpFile, phase>>

EndCleanup(f) ==
  /\ handle[f] = "cleanup"
  /\ \A r \in Reqs : irpFile[r] = f => phase[r] # "queued"
  /\ handle' = [handle EXCEPT ![f] = "cleaned"]
  /\ UNCHANGED <<device, irpFile, phase>>

Close(f) ==
  /\ handle[f] = "cleaned"
  /\ \A r \in Reqs : irpFile[r] = f => phase[r] = "completed"
  /\ handle' = [handle EXCEPT ![f] = "closed"]
  /\ UNCHANGED <<device, irpFile, phase>>

Unload ==
  /\ device = "live"
  /\ \A f \in Files : handle[f] \in {"none", "closed"}
  /\ device' = "deleted"
  /\ UNCHANGED <<handle, irpFile, phase>>

Next ==
  \/ \E f \in Files : Open(f) \/ BeginCleanup(f) \/ EndCleanup(f) \/ Close(f)
  \/ \E r \in Reqs :
       \/ \E f \in Files : Issue(r, f)
       \/ Answer(r) \/ Queue(r) \/ Complete(r)
  \/ \E S \in SUBSET Reqs : Commit(S)
  \/ Unload

Spec == Init /\ [][Next]_vars
=============================================================================
