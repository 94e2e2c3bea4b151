----------------------------- MODULE AtomicExport -----------------------------
(***************************************************************************)
(* export_atomic_ppm16, run by several exporters and interrupted anywhere, *)
(* on one destination that other programs also create and remove.  The     *)
(* image is encoded, written to an exclusively created temporary file with *)
(* a random name, synchronised, read back and compared, and published by   *)
(* one native call: a rename that replaces, a rename that does not, or,    *)
(* where neither exists, a hard link followed by an unlink.                *)
(*                                                                         *)
(* The content of a file is the image it was written for and how much of   *)
(* it is there; a directory at the destination, links and forbidden paths  *)
(* are refused alike.                                                      *)
(*                                                                         *)
(* A definition named Operator_Defect is a faulty variant of Operator.     *)
(***************************************************************************)
EXTENDS Integers

CONSTANTS
  Exporters,   \* threads or processes that export
  Foreign,     \* what another program writes to the destination
  Unsafe,      \* a directory, link or device at the destination
  Nothing,     \* no file
  MaxChunks,   \* chunks an encoded image is written in
  MaxCalls,    \* bound on the calls of one exporter
  MaxForeign   \* bound on what other programs do

ASSUME ExportAssumption ==
  /\ MaxChunks \in Nat \ {0} /\ MaxCalls \in Nat /\ MaxForeign \in Nat
  /\ Foreign # Unsafe /\ Foreign # Nothing /\ Unsafe # Nothing

VARIABLES
  destination,  \* what is at the destination
  temporary,    \* temporary[e]: the temporary file of e's call, or Nothing
  phase,        \* phase[e]: how far e's call is
  policy,       \* policy[e]: "refuse_existing" or "replace_existing"
  cancelled,    \* cancelled[e]: "no", or when the request to stop came
  outcome,      \* outcome[e]: the code e's last call ended with
  calls,        \* calls[e]: calls e has made
  foreign,      \* what other programs have done so far
  published     \* the calls whose file was ever at the destination

files == <<destination, published>>
request == <<policy, cancelled, calls>>
vars == <<files, temporary, phase, request, outcome, foreign>>

\* The file of the current call of e.
File(e, chunks) == [owner |-> e, call |-> calls[e], chunks |-> chunks, intact |-> TRUE]
IsFile(f) == f \notin {Nothing, Foreign, Unsafe}
Whole(f) == f.chunks = MaxChunks /\ f.intact

Init ==
  /\ destination \in {Nothing, Foreign}
  /\ temporary = [e \in Exporters |-> Nothing]
  /\ phase = [e \in Exporters |-> "idle"]
  /\ policy = [e \in Exporters |-> "refuse_existing"]
  /\ cancelled = [e \in Exporters |-> "no"]
  /\ outcome = [e \in Exporters |-> "none"]
  /\ calls = [e \in Exporters |-> 0]
  /\ foreign = 0
  /\ published = {}

Goto(e, p) == phase' = [phase EXCEPT ![e] = p]

\* The call ends and the temporary file it still owns is removed.
Return(e, code) ==
  /\ Goto(e, "idle")
  /\ outcome' = [outcome EXCEPT ![e] = code]
  /\ temporary' = [temporary EXCEPT ![e] = Nothing]
  /\ UNCHANGED <<request, foreign>>

Stopped(e) == cancelled[e] # "no"

\* Where check_cancelled is called.
StopAt == {"started", "encoded", "writing", "written", "flushed", "verified", "rechecked"}

Stop(e) ==
  /\ phase[e] \in StopAt
  /\ Stopped(e)
  /\ Return(e, "cancelled")
  /\ UNCHANGED files

\* The error validate_destination_safety and the policy give; "" when none.
Refused(e) ==
  IF destination = Unsafe THEN "unsafe_destination"
  ELSE IF destination # Nothing /\ policy[e] = "refuse_existing" THEN "destination_exists"
  ELSE ""

(***************************************************************************)
(* The call                                                                *)
(***************************************************************************)

\* A new call; what a dead one left behind has a name no other call uses.
Begin(e, p) ==
  /\ phase[e] = "idle"
  /\ calls[e] < MaxCalls
  /\ calls' = [calls EXCEPT ![e] = @ + 1]
  /\ policy' = [policy EXCEPT ![e] = p]
  /\ cancelled' = [cancelled EXCEPT ![e] = "no"]
  /\ outcome' = [outcome EXCEPT ![e] = "none"]
  /\ temporary' = [temporary EXCEPT ![e] = Nothing]
  /\ Goto(e, "started")
  /\ UNCHANGED <<files, foreign>>

\* Paths and policy are validated and the image encoded.
Validate(e) ==
  /\ phase[e] = "started"
  /\ ~Stopped(e)
  /\ IF Refused(e) # "" THEN Return(e, Refused(e))
     ELSE Goto(e, "encoded") /\ UNCHANGED <<temporary, request, outcome, foreign>>
  /\ UNCHANGED files

\* create_temporary_file
CreateTemporary(e) ==
  /\ phase[e] = "encoded"
  /\ ~Stopped(e)
  /\ temporary' = [temporary EXCEPT ![e] = File(e, 0)]
  /\ Goto(e, "writing")
  /\ UNCHANGED <<files, request, outcome, foreign>>

\* One chunk; the medium may keep something else than what was written.
WriteChunk(e) ==
  /\ phase[e] = "writing"
  /\ ~Stopped(e)
  /\ \E kept \in BOOLEAN :
       temporary' = [temporary EXCEPT ![e].chunks = @ + 1, ![e].intact = @ /\ kept]
  /\ Goto(e, IF temporary[e].chunks + 1 = MaxChunks THEN "written" ELSE "writing")
  /\ UNCHANGED <<files, request, outcome, foreign>>

\* flush_and_close
Flush(e) ==
  /\ phase[e] = "written"
  /\ ~Stopped(e)
  /\ Goto(e, "flushed")
  /\ UNCHANGED <<files, temporary, request, outcome, foreign>>

\* Variant: the file is decoded but not compared with the image.
Verify_DecodesOnly(e) ==
  /\ phase[e] = "flushed"
  /\ ~Stopped(e)
  /\ Goto(e, "verified")
  /\ UNCHANGED <<files, temporary, request, outcome, foreign>>

\* The file is read back, decoded and compared pixel for pixel.
Verify(e) ==
  /\ phase[e] = "flushed"
  /\ ~Stopped(e)
  /\ IF ~Whole(temporary[e]) THEN Return(e, "verification_failed")
     ELSE Goto(e, "verified") /\ UNCHANGED <<temporary, request, outcome, foreign>>
  /\ UNCHANGED files

\* The destination is looked at again and its directory synchronised.
Recheck(e) ==
  /\ phase[e] = "verified"
  /\ ~Stopped(e)
  /\ IF Refused(e) # "" THEN Return(e, Refused(e))
     ELSE Goto(e, "rechecked") /\ UNCHANGED <<temporary, request, outcome, foreign>>
  /\ UNCHANGED files

\* Variant: the last look at the cancellation is missing.
PassGate_Unchecked(e) ==
  /\ phase[e] = "rechecked"
  /\ Goto(e, "committing")
  /\ UNCHANGED <<files, temporary, request, outcome, foreign>>

\* The last check_cancelled, next to the native call.
PassGate(e) ==
  /\ phase[e] = "rechecked"
  /\ ~Stopped(e)
  /\ Goto(e, "committing")
  /\ UNCHANGED <<files, temporary, request, outcome, foreign>>

(***************************************************************************)
(* Publication                                                             *)
(***************************************************************************)
Publish(e) ==
  /\ destination' = temporary[e]
  /\ published' = published \cup {<<e, calls[e]>>}

\* publish_replace: rename replaces a file or a link, and fails on a directory.
PublishReplace(e) ==
  /\ phase[e] = "committing"
  /\ policy[e] = "replace_existing"
  /\ \/ Publish(e) /\ Return(e, "ok")
     \/ destination = Unsafe /\ UNCHANGED files /\ Return(e, "publish_failed")

\* Variant: the policy is left to the earlier checks.
PublishNoReplace_Replaces(e) ==
  /\ phase[e] = "committing"
  /\ policy[e] = "refuse_existing"
  /\ Publish(e) /\ Return(e, "ok")

\* publish_no_replace by one rename.
PublishNoReplace(e) ==
  /\ phase[e] = "committing"
  /\ policy[e] = "refuse_existing"
  /\ \/ destination = Nothing /\ Publish(e) /\ Return(e, "ok")
     \/ /\ destination # Nothing /\ UNCHANGED files
        /\ Return(e, "destination_exists")

\* publish_no_replace by a hard link, where there is no such rename.
PublishLink(e) ==
  /\ phase[e] = "committing"
  /\ policy[e] = "refuse_existing"
  /\ destination = Nothing
  /\ Publish(e)
  /\ Goto(e, "linked")
  /\ UNCHANGED <<temporary, request, outcome, foreign>>

\* Variant: an unlink that fails is reported.
Unlink_Reports(e) ==
  /\ phase[e] = "linked"
  /\ \E code \in {"ok", "publish_failed"} : Return(e, code)
  /\ UNCHANGED files

\* The temporary name goes; when unlink fails the destructor tries once more,
\* and the export has succeeded all the same.
Unlink(e) ==
  /\ phase[e] = "linked"
  /\ Return(e, "ok")
  /\ UNCHANGED files

(***************************************************************************)
(* Cancellation, errors, death, other programs                             *)
(***************************************************************************)

\* request_stop, from another thread.
Cancel(e) ==
  /\ phase[e] # "idle"
  /\ ~Stopped(e)
  /\ cancelled' = [cancelled EXCEPT ![e] =
                     IF phase[e] \in {"committing", "linked"} THEN "late" ELSE "in_time"]
  /\ UNCHANGED <<files, temporary, phase, policy, calls, outcome, foreign>>

\* An input/output error before the native call, or of the native call.
Fail(e) ==
  /\ phase[e] \notin {"idle", "linked"}
  /\ Return(e, IF phase[e] = "committing" THEN "publish_failed"
               ELSE IF phase[e] = "flushed" THEN "verification_failed" ELSE "io_failure")
  /\ UNCHANGED files

\* The process dies; its temporary file stays under its private name.
Crash(e) ==
  /\ phase[e] # "idle"
  /\ outcome' = [outcome EXCEPT ![e] = "died"]
  /\ Goto(e, "idle")
  /\ UNCHANGED <<files, temporary, request, foreign>>

Interfere(f) ==
  /\ foreign < MaxForeign
  /\ f # destination
  /\ destination' = f
  /\ foreign' = foreign + 1
  /\ UNCHANGED <<temporary, phase, request, outcome, published>>

Step(e) ==
  \/ Validate(e) \/ CreateTemporary(e) \/ WriteChunk(e) \/ Flush(e) \/ Verify(e) \/ Recheck(e)
  \/ PassGate(e) \/ PublishReplace(e) \/ PublishNoReplace(e) \/ PublishLink(e) \/ Unlink(e)
  \/ Stop(e)

Next ==
  \/ \E e \in Exporters :
       \/ \E p \in {"refuse_existing", "replace_existing"} : Begin(e, p)
       \/ Step(e) \/ Cancel(e) \/ Fail(e) \/ Crash(e)
  \/ \E f \in {Nothing, Foreign, Unsafe} : Interfere(f)

Spec == Init /\ [][Next]_vars

(***************************************************************************)
(* Properties                                                              *)
(***************************************************************************)

\* What is at the destination is never part of an image nor a damaged one,
\* wherever exporters die and whatever the bytes are when they are read back.
NeverPartial == IsFile(destination) => Whole(destination)

\* An export that refuses an existing file never takes its place, also when the
\* file appears after the last look at the destination.
RefuseNeverReplaces ==
  [][\A e \in Exporters :
       <<e, calls[e]>> \in published' \ published /\ policy[e] = "refuse_existing"
         => destination = Nothing]_vars

\* A call reports success exactly when its file was published: an error means
\* that the file was at no moment at the destination.
OutcomeIsTrue ==
  \A e \in Exporters : phase[e] = "idle" /\ outcome[e] \notin {"none", "died"} =>
    (outcome[e] = "ok" <=> <<e, calls[e]>> \in published)

\* A request to stop that comes before the last check keeps the image from the
\* destination.
CancelInTimeWins ==
  \A e \in Exporters : cancelled[e] = "in_time" => <<e, calls[e]>> \notin published
=============================================================================
