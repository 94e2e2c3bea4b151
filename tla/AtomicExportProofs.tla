------------------------- MODULE AtomicExportProofs -------------------------
(***************************************************************************)
(* Proofs that export_atomic_ppm16 never shows part of an image and tells  *)
(* its caller the truth, for any number of exporters, chunks, calls and    *)
(* interferences of other programs.                                        *)
(***************************************************************************)
EXTENDS AtomicExport, TLAPS

(***************************************************************************)
(* The inductive invariant                                                 *)
(***************************************************************************)
Phases == StopAt \cup {"idle", "committing", "linked"}
Codes == {"none", "ok", "cancelled", "died", "unsafe_destination", "destination_exists",
          "verification_failed", "publish_failed", "io_failure"}
Files == [owner : Exporters, call : Nat, chunks : Nat, intact : BOOLEAN]

\* The phases in which the call has a temporary file, and those in which the
\* file has been compared with the image.
HasFile == {"writing", "written", "flushed", "verified", "rechecked", "committing", "linked"}
Compared == {"verified", "rechecked", "committing", "linked"}

TypeOK ==
  /\ temporary \in [Exporters -> Files \cup {Nothing}]
  /\ phase \in [Exporters -> Phases]
  /\ policy \in [Exporters -> {"refuse_existing", "replace_existing"}]
  /\ cancelled \in [Exporters -> {"no", "in_time", "late"}]
  /\ outcome \in [Exporters -> Codes]
  /\ calls \in [Exporters -> Nat]
  /\ published \subseteq Exporters \X Nat

\* Nobody touches the temporary file of a call but the call itself.
FileOf(e) ==
  /\ phase[e] \in HasFile => temporary[e] \in Files
  /\ phase[e] \in Compared => Whole(temporary[e])

\* A call publishes once, at the end, and its number was never used before.
PublishedOnce(e) ==
  /\ \A c \in Nat : <<e, c>> \in published => c <= calls[e]
  /\ phase[e] \notin {"idle", "linked"} => <<e, calls[e]>> \notin published
  /\ phase[e] = "linked" => <<e, calls[e]>> \in published

\* No request to stop is overlooked on the way to the native call.
StopSeen(e) ==
  /\ phase[e] \in {"committing", "linked"} => cancelled[e] # "in_time"
  /\ cancelled[e] = "in_time" => <<e, calls[e]>> \notin published

ToldTruth(e) ==
  phase[e] = "idle" /\ outcome[e] \notin {"none", "died"} =>
    (outcome[e] = "ok" <=> <<e, calls[e]>> \in published)

ExportInv ==
  /\ TypeOK
  /\ NeverPartial
  /\ \A e \in Exporters : FileOf(e) /\ PublishedOnce(e) /\ StopSeen(e) /\ ToldTruth(e)

\* Initially no call was made.
LEMMA InitExportInv == Init => ExportInv
<1> SUFFICES ASSUME Init PROVE ExportInv
  OBVIOUS
<1>1. TypeOK
  BY DEF Init, TypeOK, Phases, Codes
<1>2. NeverPartial
  BY DEF Init, NeverPartial, IsFile
<1>3. ASSUME NEW e \in Exporters
      PROVE  FileOf(e) /\ PublishedOnce(e) /\ StopSeen(e) /\ ToldTruth(e)
  BY DEF Init, FileOf, PublishedOnce, StopSeen, ToldTruth, HasFile, Compared
<1> QED BY <1>1, <1>2, <1>3 DEF ExportInv

(***************************************************************************)
(* Steps                                                                   *)
(***************************************************************************)

\* Nothing changes of the other exporters, and only x's call is published.
Frame(x) ==
  \A e \in Exporters \ {x} :
    /\ temporary'[e] = temporary[e] /\ phase'[e] = phase[e] /\ cancelled'[e] = cancelled[e]
    /\ outcome'[e] = outcome[e] /\ calls'[e] = calls[e]
    /\ \A c \in Nat : <<e, c>> \in published' <=> <<e, c>> \in published

\* A step of one exporter leaves what holds of the others.
LEMMA OwnStep ==
  ASSUME ExportInv, NEW x \in Exporters, TypeOK', NeverPartial', Frame(x),
         FileOf(x)', PublishedOnce(x)', StopSeen(x)', ToldTruth(x)'
  PROVE  ExportInv'
<1>1. ASSUME NEW e \in Exporters \ {x}
      PROVE  FileOf(e)' /\ PublishedOnce(e)' /\ StopSeen(e)' /\ ToldTruth(e)'
  <2>1. FileOf(e) /\ PublishedOnce(e) /\ StopSeen(e) /\ ToldTruth(e) /\ calls[e] \in Nat
    BY DEF ExportInv, TypeOK
  <2>2. /\ temporary'[e] = temporary[e] /\ phase'[e] = phase[e] /\ cancelled'[e] = cancelled[e]
        /\ outcome'[e] = outcome[e] /\ calls'[e] = calls[e]
        /\ \A c \in Nat : <<e, c>> \in published' <=> <<e, c>> \in published
    BY DEF Frame
  <2>3. <<e, calls[e]>> \in published' <=> <<e, calls[e]>> \in published
    BY <2>1, <2>2
  <2> QED BY <2>1, <2>2, <2>3 DEF FileOf, PublishedOnce, StopSeen, ToldTruth, Whole
<1> QED BY <1>1 DEF ExportInv

\* A call that goes from one place to the next.
LEMMA MoveStep ==
  ASSUME ExportInv, NEW x \in Exporters, NEW p \in Phases \ {"idle", "linked"},
         Goto(x, p), UNCHANGED <<files, temporary, request, outcome, foreign>>,
         phase[x] \notin {"idle", "linked"},
         p \in HasFile => temporary[x] \in Files,
         p \in Compared => Whole(temporary[x]),
         p = "committing" => cancelled[x] # "in_time"
  PROVE  ExportInv'
<1>1. phase' = [phase EXCEPT ![x] = p] /\ phase'[x] = p
      /\ UNCHANGED <<temporary, destination, published, policy, cancelled, calls, outcome>>
  BY DEF Goto, files, request, ExportInv, TypeOK
<1>2. TypeOK' /\ NeverPartial' /\ Frame(x)
  BY <1>1 DEF ExportInv, TypeOK, NeverPartial, IsFile, Whole, Frame
<1>3. FileOf(x)' /\ PublishedOnce(x)' /\ StopSeen(x)' /\ ToldTruth(x)'
  BY <1>1 DEF ExportInv, FileOf, Whole, PublishedOnce, StopSeen, ToldTruth
<1> QED BY <1>2, <1>3, OwnStep

\* A call that ends, its code true of what it published.
LEMMA ReturnStep ==
  ASSUME ExportInv, NEW x \in Exporters, NEW code \in Codes \ {"none", "died"},
         Return(x, code), TypeOK => published' \subseteq Exporters \X Nat,
         NeverPartial',
         published' \subseteq published \cup {<<x, calls[x]>>}, published \subseteq published',
         published' # published => cancelled[x] # "in_time",
         code = "ok" <=> <<x, calls[x]>> \in published'
  PROVE  ExportInv'
<1>1. /\ phase' = [phase EXCEPT ![x] = "idle"] /\ outcome' = [outcome EXCEPT ![x] = code]
      /\ temporary' = [temporary EXCEPT ![x] = Nothing]
      /\ UNCHANGED <<policy, cancelled, calls>>
  BY DEF Return, Goto, request
<1>2. TypeOK'
  BY <1>1 DEF ExportInv, TypeOK, Phases
<1>3. Frame(x)
  BY <1>1 DEF ExportInv, TypeOK, Frame
<1>4. phase'[x] = "idle" /\ outcome'[x] = code /\ calls'[x] = calls[x] /\ calls[x] \in Nat
      /\ cancelled'[x] = cancelled[x]
  BY <1>1 DEF ExportInv, TypeOK
<1>5. FileOf(x)' /\ ToldTruth(x)'
  BY <1>4 DEF FileOf, ToldTruth, HasFile, Compared
<1>6. PublishedOnce(x)' /\ StopSeen(x)'
  BY <1>4 DEF ExportInv, PublishedOnce, StopSeen
<1> QED BY <1>2, <1>3, <1>5, <1>6, OwnStep

\* Every step preserves the invariant.
LEMMA StepExportInv == ExportInv /\ [Next]_vars => ExportInv'
<1> SUFFICES ASSUME ExportInv, [Next]_vars PROVE ExportInv'
  OBVIOUS
<1>1. ASSUME NEW e \in Exporters
      PROVE  /\ FileOf(e) /\ PublishedOnce(e) /\ StopSeen(e) /\ ToldTruth(e)
             /\ phase[e] \in Phases /\ calls[e] \in Nat /\ cancelled[e] \in {"no", "in_time", "late"}
  BY DEF ExportInv, TypeOK
<1>2. ASSUME NEW e \in Exporters, NEW code \in Codes \ {"none", "died", "ok"},
             Return(e, code), UNCHANGED files, phase[e] \notin {"idle", "linked"}
      PROVE  ExportInv'
  <2>1. destination' = destination /\ published' = published
    BY <1>2 DEF files
  <2>2. NeverPartial' /\ (TypeOK => published' \subseteq Exporters \X Nat)
    BY <2>1 DEF ExportInv, NeverPartial, IsFile, Whole, TypeOK
  <2>3. code # "ok" /\ <<e, calls[e]>> \notin published'
    BY <2>1, <1>1, <1>2 DEF PublishedOnce
  <2> QED BY <1>2, <2>1, <2>2, <2>3, ReturnStep
<1>3. ASSUME NEW e \in Exporters, NEW p \in {"refuse_existing", "replace_existing"}, Begin(e, p)
      PROVE  ExportInv'
  <2>1. /\ calls' = [calls EXCEPT ![e] = @ + 1] /\ policy' = [policy EXCEPT ![e] = p]
        /\ cancelled' = [cancelled EXCEPT ![e] = "no"] /\ outcome' = [outcome EXCEPT ![e] = "none"]
        /\ temporary' = [temporary EXCEPT ![e] = Nothing] /\ phase' = [phase EXCEPT ![e] = "started"]
        /\ UNCHANGED <<destination, published>>
    BY <1>3 DEF Begin, Goto, files
  <2>2. TypeOK'
    BY <2>1 DEF ExportInv, TypeOK, Phases, StopAt, Codes
  <2>3. NeverPartial' /\ Frame(e)
    BY <2>1 DEF ExportInv, NeverPartial, IsFile, Whole, TypeOK, Frame
  <2>4. phase'[e] = "started" /\ calls'[e] = calls[e] + 1 /\ cancelled'[e] = "no"
    BY <2>1 DEF ExportInv, TypeOK
  <2>5. /\ <<e, calls'[e]>> \notin published'
        /\ \A c \in Nat : <<e, c>> \in published' => c <= calls'[e]
    <3>1. calls'[e] \in Nat /\ ~(calls'[e] <= calls[e])
      BY <1>1, <2>4
    <3>2. \A c \in Nat : <<e, c>> \in published' => c <= calls[e]
      BY <1>1, <2>1 DEF PublishedOnce
    <3>3. \A c \in Nat : c <= calls[e] => c <= calls'[e]
      BY <1>1, <2>4
    <3> QED BY <3>1, <3>2, <3>3
  <2>6. FileOf(e)' /\ PublishedOnce(e)' /\ StopSeen(e)' /\ ToldTruth(e)'
    BY <2>4, <2>5 DEF FileOf, PublishedOnce, StopSeen, ToldTruth, HasFile, Compared
  <2> QED BY <2>2, <2>3, <2>6, OwnStep
<1>4. ASSUME NEW e \in Exporters, Validate(e)
      PROVE  ExportInv'
  <2>1. CASE Return(e, Refused(e)) /\ UNCHANGED files /\ Refused(e) # ""
    BY <1>2, <1>4, <2>1 DEF Validate, Refused, Codes
  <2>2. CASE Goto(e, "encoded") /\ UNCHANGED <<files, temporary, request, outcome, foreign>>
    BY <1>4, <2>2, MoveStep DEF Validate, Phases, StopAt, HasFile, Compared
  <2> QED BY <1>4, <2>1, <2>2 DEF Validate, files
<1>5. ASSUME NEW e \in Exporters, CreateTemporary(e)
      PROVE  ExportInv'
  <2>1. /\ temporary' = [temporary EXCEPT ![e] = File(e, 0)] /\ phase' = [phase EXCEPT ![e] = "writing"]
        /\ UNCHANGED <<destination, published, policy, cancelled, calls, outcome>>
    BY <1>5 DEF CreateTemporary, Goto, files, request
  <2>2. File(e, 0) \in Files
    BY <1>1 DEF File, Files
  <2>3. TypeOK'
    BY <2>1, <2>2 DEF ExportInv, TypeOK, Phases, StopAt
  <2>4. NeverPartial' /\ Frame(e)
    BY <2>1 DEF ExportInv, NeverPartial, IsFile, Whole, TypeOK, Frame
  <2>5. phase'[e] = "writing" /\ temporary'[e] \in Files
    BY <2>1, <2>2 DEF ExportInv, TypeOK
  <2>6. FileOf(e)' /\ PublishedOnce(e)' /\ StopSeen(e)' /\ ToldTruth(e)'
    BY <1>1, <1>5, <2>1, <2>5 DEF CreateTemporary, FileOf, PublishedOnce, StopSeen, ToldTruth, Compared
  <2> QED BY <2>3, <2>4, <2>6, OwnStep
<1>6. ASSUME NEW e \in Exporters, WriteChunk(e)
      PROVE  ExportInv'
  <2>1. PICK kept \in BOOLEAN :
          temporary' = [temporary EXCEPT ![e].chunks = @ + 1, ![e].intact = @ /\ kept]
    BY <1>6 DEF WriteChunk
  <2>2. PICK p \in {"writing", "written"} : phase' = [phase EXCEPT ![e] = p]
    BY <1>6 DEF WriteChunk, Goto
  <2>3. UNCHANGED <<destination, published, policy, cancelled, calls, outcome>>
    BY <1>6 DEF WriteChunk, files, request
  <2>4. temporary[e] \in Files
    BY <1>1, <1>6 DEF WriteChunk, FileOf, HasFile
  <2>5. temporary'[e] \in Files
    <3>1. temporary'[e] = [temporary[e] EXCEPT !.chunks = @ + 1, !.intact = @ /\ kept]
      BY <2>1 DEF ExportInv, TypeOK
    <3>2. temporary[e].chunks + 1 \in Nat /\ (temporary[e].intact /\ kept) \in BOOLEAN
      BY <2>4 DEF Files
    <3> QED BY <2>4, <3>1, <3>2 DEF Files
  <2>6. TypeOK'
    BY <2>1, <2>2, <2>3, <2>5 DEF ExportInv, TypeOK, Phases, StopAt
  <2>7. NeverPartial' /\ Frame(e)
    BY <2>1, <2>2, <2>3 DEF ExportInv, NeverPartial, IsFile, Whole, TypeOK, Frame
  <2>8. phase'[e] = p
    BY <2>2 DEF ExportInv, TypeOK
  <2>9. FileOf(e)' /\ PublishedOnce(e)' /\ StopSeen(e)' /\ ToldTruth(e)'
    BY <1>1, <1>6, <2>3, <2>5, <2>8
    DEF WriteChunk, FileOf, PublishedOnce, StopSeen, ToldTruth, Compared
  <2> QED BY <2>6, <2>7, <2>9, OwnStep
<1>7. ASSUME NEW e \in Exporters, Flush(e)
      PROVE  ExportInv'
  <2>1. temporary[e] \in Files
    BY <1>1, <1>7 DEF Flush, FileOf, HasFile
  <2> QED BY <1>7, <2>1, MoveStep DEF Flush, Phases, StopAt, Compared
<1>8. ASSUME NEW e \in Exporters, Verify(e)
      PROVE  ExportInv'
  <2>1. CASE Return(e, "verification_failed") /\ UNCHANGED files
    BY <1>2, <1>8, <2>1 DEF Verify, Codes
  <2>2. CASE /\ Goto(e, "verified") /\ UNCHANGED <<files, temporary, request, outcome, foreign>>
             /\ Whole(temporary[e])
    <3>1. temporary[e] \in Files
      BY <1>1, <1>8 DEF Verify, FileOf, HasFile
    <3> QED BY <1>8, <2>2, <3>1, MoveStep DEF Verify, Phases, StopAt
  <2> QED BY <1>8, <2>1, <2>2 DEF Verify
<1>9. ASSUME NEW e \in Exporters, Recheck(e)
      PROVE  ExportInv'
  <2>1. CASE Return(e, Refused(e)) /\ UNCHANGED files /\ Refused(e) # ""
    BY <1>2, <1>9, <2>1 DEF Recheck, Refused, Codes
  <2>2. CASE Goto(e, "rechecked") /\ UNCHANGED <<files, temporary, request, outcome, foreign>>
    <3>1. temporary[e] \in Files /\ Whole(temporary[e])
      BY <1>1, <1>9 DEF Recheck, FileOf, HasFile, Compared
    <3> QED BY <1>9, <2>2, <3>1, MoveStep DEF Recheck, Phases, StopAt
  <2> QED BY <1>9, <2>1, <2>2 DEF Recheck
<1>10. ASSUME NEW e \in Exporters, PassGate(e)
       PROVE  ExportInv'
  <2>1. temporary[e] \in Files /\ Whole(temporary[e])
    BY <1>1, <1>10 DEF PassGate, FileOf, HasFile, Compared
  <2> QED BY <1>10, <2>1, MoveStep DEF PassGate, Phases, Stopped
<1>11. ASSUME NEW e \in Exporters, phase[e] = "committing", Publish(e)
       PROVE  /\ NeverPartial' /\ (TypeOK => published' \subseteq Exporters \X Nat)
              /\ published' \subseteq published \cup {<<e, calls[e]>>} /\ published \subseteq published'
              /\ <<e, calls[e]>> \in published' /\ cancelled[e] # "in_time"
  <2>1. Whole(temporary[e]) /\ destination' = temporary[e]
    BY <1>1, <1>11 DEF FileOf, Compared, Publish
  <2>2. NeverPartial'
    BY <2>1 DEF NeverPartial, Whole
  <2>3. <<e, calls[e]>> \in Exporters \X Nat /\ cancelled[e] # "in_time"
    BY <1>1, <1>11 DEF StopSeen
  <2> QED BY <1>11, <2>2, <2>3 DEF Publish, TypeOK
<1>12. ASSUME NEW e \in Exporters, PublishReplace(e) \/ PublishNoReplace(e)
       PROVE  ExportInv'
  <2>1. CASE Publish(e) /\ Return(e, "ok")
    <3>1. phase[e] = "committing" /\ "ok" \in Codes \ {"none", "died"}
      BY <1>12 DEF PublishReplace, PublishNoReplace, Codes
    <3> QED BY <1>11, <2>1, <3>1, ReturnStep
  <2>2. CASE UNCHANGED files /\ \E code \in {"publish_failed", "destination_exists"} : Return(e, code)
    BY <1>2, <1>12, <2>2 DEF PublishReplace, PublishNoReplace, Codes
  <2> QED BY <1>12, <2>1, <2>2 DEF PublishReplace, PublishNoReplace
<1>13. ASSUME NEW e \in Exporters, PublishLink(e)
       PROVE  ExportInv'
  <2>1. phase' = [phase EXCEPT ![e] = "linked"] /\ published' = published \cup {<<e, calls[e]>>}
        /\ UNCHANGED <<temporary, policy, cancelled, calls, outcome>>
    BY <1>13 DEF PublishLink, Goto, request, Publish
  <2>2. phase[e] = "committing" /\ NeverPartial' /\ cancelled[e] # "in_time"
    BY <1>11, <1>13 DEF PublishLink
  <2>3. TypeOK' /\ Frame(e)
    BY <1>1, <2>1 DEF ExportInv, TypeOK, Phases, Frame
  <2>4. phase'[e] = "linked" /\ temporary[e] \in Files /\ Whole(temporary[e])
    BY <1>1, <2>1, <2>2 DEF ExportInv, TypeOK, FileOf, HasFile, Compared
  <2>5. ASSUME NEW c \in Nat, <<e, c>> \in published'
        PROVE  c <= calls[e]
    <3>1. <<e, c>> \in published \/ c = calls[e]
      BY <2>1, <2>5
    <3>2. calls[e] \in Nat /\ (<<e, c>> \in published => c <= calls[e])
      BY <1>1 DEF PublishedOnce
    <3> QED BY <3>1, <3>2
  <2>6. FileOf(e)' /\ PublishedOnce(e)'
    BY <2>1, <2>4, <2>5 DEF FileOf, Whole, PublishedOnce
  <2>7. StopSeen(e)' /\ ToldTruth(e)'
    BY <2>1, <2>2, <2>4 DEF StopSeen, ToldTruth
  <2> QED BY <2>2, <2>3, <2>6, <2>7, OwnStep
<1>14. ASSUME NEW e \in Exporters, Unlink(e)
       PROVE  ExportInv'
  <2>1. <<e, calls[e]>> \in published /\ Return(e, "ok")
        /\ destination' = destination /\ published' = published
    BY <1>1, <1>14 DEF Unlink, PublishedOnce, files
  <2>2. NeverPartial' /\ (TypeOK => published' \subseteq Exporters \X Nat)
    BY <2>1 DEF ExportInv, NeverPartial, IsFile, Whole, TypeOK
  <2>3. "ok" \in Codes \ {"none", "died"}
    BY DEF Codes
  <2> QED BY <2>1, <2>2, <2>3, ReturnStep
<1>15. ASSUME NEW e \in Exporters, Stop(e)
       PROVE  ExportInv'
  BY <1>2, <1>15 DEF Stop, StopAt, Codes
<1>16. ASSUME NEW e \in Exporters, Cancel(e)
       PROVE  ExportInv'
  <2>1. PICK c \in {"in_time", "late"} :
          /\ cancelled' = [cancelled EXCEPT ![e] = c]
          /\ c = "in_time" => phase[e] \notin {"committing", "linked"}
    BY <1>16 DEF Cancel
  <2>2. UNCHANGED <<destination, published, temporary, phase, policy, calls, outcome>> /\ phase[e] # "idle"
    BY <1>16 DEF Cancel, files
  <2>3. TypeOK' /\ NeverPartial' /\ Frame(e) /\ cancelled'[e] = c
    BY <2>1, <2>2 DEF ExportInv, TypeOK, NeverPartial, IsFile, Whole, Frame
  <2>4. FileOf(e)' /\ PublishedOnce(e)' /\ StopSeen(e)' /\ ToldTruth(e)'
    BY <1>1, <2>1, <2>2, <2>3 DEF FileOf, Whole, PublishedOnce, StopSeen, ToldTruth
  <2> QED BY <2>3, <2>4, OwnStep
<1>17. ASSUME NEW e \in Exporters, Fail(e)
       PROVE  ExportInv'
  BY <1>2, <1>17 DEF Fail, Codes
<1>18. ASSUME NEW e \in Exporters, Crash(e)
       PROVE  ExportInv'
  <2>1. outcome' = [outcome EXCEPT ![e] = "died"] /\ phase' = [phase EXCEPT ![e] = "idle"]
        /\ UNCHANGED <<destination, published, temporary, policy, cancelled, calls>>
    BY <1>18 DEF Crash, Goto, files, request
  <2>2. TypeOK' /\ NeverPartial' /\ Frame(e) /\ phase'[e] = "idle" /\ outcome'[e] = "died"
    BY <2>1 DEF ExportInv, TypeOK, Phases, Codes, NeverPartial, IsFile, Whole, Frame
  <2>3. FileOf(e)' /\ PublishedOnce(e)' /\ StopSeen(e)' /\ ToldTruth(e)'
    BY <1>1, <2>1, <2>2 DEF FileOf, HasFile, Compared, PublishedOnce, StopSeen, ToldTruth
  <2> QED BY <2>2, <2>3, OwnStep
<1>19. ASSUME NEW f \in {Nothing, Foreign, Unsafe}, Interfere(f)
       PROVE  ExportInv'
  <2>1. destination' = f /\ UNCHANGED <<published, temporary, phase, policy, cancelled, calls, outcome>>
    BY <1>19 DEF Interfere, request
  <2>2. NeverPartial'
    BY <2>1 DEF NeverPartial, IsFile
  <2>3. TypeOK'
    BY <2>1 DEF ExportInv, TypeOK
  <2>4. ASSUME NEW e \in Exporters
        PROVE  FileOf(e)' /\ PublishedOnce(e)' /\ StopSeen(e)' /\ ToldTruth(e)'
    BY <1>1, <2>1 DEF FileOf, Whole, PublishedOnce, StopSeen, ToldTruth
  <2> QED BY <2>2, <2>3, <2>4 DEF ExportInv
<1>20. CASE UNCHANGED vars
  <2>1. UNCHANGED <<destination, published, temporary, phase, policy, cancelled, calls, outcome>>
    BY <1>20 DEF vars, files, request
  <2>2. TypeOK' /\ NeverPartial'
    BY <2>1 DEF ExportInv, TypeOK, NeverPartial, IsFile, Whole
  <2>3. ASSUME NEW e \in Exporters
        PROVE  FileOf(e)' /\ PublishedOnce(e)' /\ StopSeen(e)' /\ ToldTruth(e)'
    BY <1>1, <2>1 DEF FileOf, Whole, PublishedOnce, StopSeen, ToldTruth
  <2> QED BY <2>2, <2>3 DEF ExportInv
<1> QED
  BY <1>3, <1>4, <1>5, <1>6, <1>7, <1>8, <1>9, <1>10, <1>12, <1>13, <1>14, <1>15, <1>16, <1>17,
     <1>18, <1>19, <1>20
  DEF Next, Step

(***************************************************************************)
(* Theorems                                                                *)
(***************************************************************************)

\* The inductive invariant of an export: where its temporary file is whole,
\* which calls have published, and which requests to stop were seen.
THEOREM ExportInvariant == Spec => []ExportInv
BY InitExportInv, StepExportInv, PTL DEF Spec

\* What is at the destination is never part of an image nor a damaged one.
THEOREM NeverPartialAlways == Spec => []NeverPartial
<1>1. ExportInv => NeverPartial
  BY DEF ExportInv
<1> QED BY <1>1, ExportInvariant, PTL

\* A call reports success exactly when its file was published.
THEOREM OutcomeIsTrueAlways == Spec => []OutcomeIsTrue
<1>1. ExportInv => OutcomeIsTrue
  BY DEF ExportInv, ToldTruth, OutcomeIsTrue
<1> QED BY <1>1, ExportInvariant, PTL

\* A request to stop before the last check keeps the image from the
\* destination.
THEOREM CancelInTimeWinsAlways == Spec => []CancelInTimeWins
<1>1. ExportInv => CancelInTimeWins
  BY DEF ExportInv, StopSeen, CancelInTimeWins
<1> QED BY <1>1, ExportInvariant, PTL

\* An export that refuses an existing file never takes the place of one.
THEOREM RefuseNeverReplacesAlways == Spec => RefuseNeverReplaces
<1> DEFINE Refuses ==
      \A e \in Exporters :
        <<e, calls[e]>> \in published' \ published /\ policy[e] = "refuse_existing"
          => destination = Nothing
<1>1. ASSUME NEW x \in Exporters, Publish(x), policy[x] = "refuse_existing" => destination = Nothing
      PROVE  Refuses
  BY <1>1 DEF Publish
<1>2. ASSUME published' = published
      PROVE  Refuses
  BY <1>2
<1> HIDE DEF Refuses
<1>3. ASSUME NEW x \in Exporters, Step(x)
      PROVE  Refuses
  <2>1. CASE PublishReplace(x) \/ PublishNoReplace(x) \/ PublishLink(x)
    BY <1>1, <1>2, <2>1 DEF PublishReplace, PublishNoReplace, PublishLink, files
  <2>2. CASE ~(PublishReplace(x) \/ PublishNoReplace(x) \/ PublishLink(x))
    BY <1>2, <1>3, <2>2 DEF Step, Validate, CreateTemporary, WriteChunk, Flush, Verify, Recheck,
       PassGate, Unlink, Stop, files
  <2> QED BY <2>1, <2>2
<1>4. Next => Refuses
  BY <1>2, <1>3 DEF Next, Begin, Cancel, Fail, Crash, Interfere, files
<1>5. [Next]_vars => [Refuses]_vars
  BY <1>4
<1> QED BY <1>5, PTL DEF Spec, RefuseNeverReplaces, Refuses
=============================================================================
