------------------------------ MODULE Evidence ------------------------------
(***************************************************************************)
(* The bundle behind the evidence hash of a receipt: src/evidence-store.ts *)
(* and src/evidence.ts keep it before anything is signed, and check it     *)
(* when the receipt is opened.  A blob store may refuse a bundle, or take  *)
(* it and not say so; the plans of one second share a bundle; and a copy   *)
(* may be spoiled by hand.                                                 *)
(***************************************************************************)
EXTENDS Integers, FiniteSets

CONSTANTS
  Bundle,       \* evidence hashes: a bundle is what hashes to it
  Machine,      \* where the code runs
  Archiving,    \* the machines with credentials for the blob store
  Writing,      \* the machines whose file system can be written
  MaxSpoils     \* bound on the copies meddled with

ASSUME EvidenceAssumption == Archiving \subseteq Machine /\ Writing \subseteq Machine

VARIABLES
  copies,     \* what each place has under each hash
  told,       \* where the author of a decision was told that its bundle is
  recorded,   \* the hashes that receipts carry
  spoiled,    \* the copies that were meddled with
  reader      \* one receipt being opened

evidenceVars == <<copies, told, recorded, spoiled, reader>>

None == "none"
Archive == "archive"
Place == Machine \cup {Archive}

\* A reader is on a machine, and asks for the evidence of one receipt.  What it should
\* find depends on what authors had been told when it asked: that is kept with it.
NoReader == [pc |-> "off", at |-> None, hash |-> None, heard |-> {}, verdict |-> None]

EvidenceInit ==
  /\ copies = [p \in Place |-> [b \in Bundle |-> None]]
  /\ told = {} /\ recorded = {} /\ spoiled = {} /\ reader = NoReader
---------------------------------------------------------------------------
(* persistBundle, of the site and of the commands that plan.               *)

\* The author is told of one place; "none" is told too.
Keeps(b, places, place) ==
  /\ copies' = [p \in Place |-> [copies[p] EXCEPT ![b] = IF p \in places THEN "whole" ELSE @]]
  /\ told' = told \cup {<<b, place>>}
  /\ UNCHANGED <<recorded, spoiled, reader>>

\* The blob store, under the hash; what it had there is replaced by the same.
Uploads(m, b) == m \in Archiving /\ Keeps(b, {Archive}, Archive)

\* Whether an upload was not tried, failed, or failed only in its answer.
Attempted(m) == IF m \in Archiving THEN {{}, {Archive}} ELSE {{}}

\* Defect for the checks: an upload that was tried is taken for one that was made.
FallsBackToTheArchive(m, b) ==
  \E stored \in Attempted(m) : Keeps(b, stored \cup ({m} \cap Writing), Archive)

\* The file then; and nowhere, where no file can be written.
FallsBack(m, b) ==
  \E stored \in Attempted(m) :
    Keeps(b, stored \cup ({m} \cap Writing), IF m \in Writing THEN m ELSE None)

\* writeEvidence: pnpm execute writes its file, and goes no further without it.
WritesFile(m, b) == m \in Writing /\ Keeps(b, {m}, m)

Decides == \E m \in Machine, b \in Bundle : Uploads(m, b) \/ FallsBack(m, b) \/ WritesFile(m, b)

\* The trade settles with the hash, whatever became of the bundle.
Records ==
  /\ \E place \in Place \cup {None}, b \in Bundle :
       <<b, place>> \in told /\ recorded' = recorded \cup {b}
  /\ UNCHANGED <<copies, told, spoiled, reader>>

\* Somebody edits a copy, cuts it short, or removes it.
Spoils ==
  /\ Cardinality(spoiled) < MaxSpoils
  /\ \E p \in Place, b \in Bundle, to \in {"edited", "torn", None} :
       /\ copies[p][b] = "whole"
       /\ copies' = [copies EXCEPT ![p][b] = to]
       /\ spoiled' = spoiled \cup {<<b, p>>}
  /\ UNCHANGED <<told, recorded, reader>>
---------------------------------------------------------------------------
(* checkEvidence, of the page and of pnpm evidence.                        *)

Reads(r) == reader' = r /\ UNCHANGED <<copies, told, recorded, spoiled>>

Opens ==
  /\ reader.pc \in {"off", "checked", "unanswered"}
  /\ \E m \in Machine, b \in recorded :
       Reads([NoReader EXCEPT !.pc = "file", !.at = m, !.hash = b,
                              !.heard = {p \in Place : <<b, p>> \in told}])

\* A copy that does not parse is no copy.
Readable(copy) == copy \in {"whole", "edited"}

\* verifyEvidence: an edited bundle hashes to something else.
Verdict(copy) == IF copy = "whole" THEN "verified" ELSE "mismatch"

\* The file first; a file that cannot be read sends the reader to the archive.
ReadsFile ==
  /\ reader.pc = "file"
  /\ LET copy == copies[reader.at][reader.hash]
     IN Reads(IF Readable(copy) THEN [reader EXCEPT !.pc = "checked", !.verdict = Verdict(copy)]
              ELSE [reader EXCEPT !.pc = "archive"])

\* The archive, which may not answer; the reader is told the same when it has no copy.
ReadsArchive ==
  /\ reader.pc = "archive"
  /\ LET copy == copies[Archive][reader.hash]
     IN Reads([reader EXCEPT !.pc = "checked",
                 !.verdict = IF Readable(copy) THEN Verdict(copy) ELSE "unreachable"])

FetchFails ==
  /\ reader.pc = "archive"
  /\ Reads([reader EXCEPT !.pc = "unanswered", !.verdict = "unreachable"])

EvidenceNext == Decides \/ Records \/ Spoils \/ Opens \/ ReadsFile \/ ReadsArchive \/ FetchFails

EvidenceSpec == EvidenceInit /\ [][EvidenceNext]_evidenceVars
---------------------------------------------------------------------------
\* A copy that somebody meddled with.
Spoilt(b, p) == <<b, p>> \in spoiled

\* Whoever asks for a bundle that an author had been told is kept gets it.  From the machine
\* that kept it as a file: always.  From any machine, when it is in the archive: if the
\* archive answers, and the machine has no file of its own that was edited, which is read
\* first.
ReadersGetIt ==
  /\ /\ reader.pc \in {"checked", "unanswered"}
     /\ reader.at \in reader.heard /\ ~ Spoilt(reader.hash, reader.at)
     => reader.verdict = "verified"
  /\ /\ reader.pc = "checked"
     /\ Archive \in reader.heard /\ ~ Spoilt(reader.hash, Archive)
     => \/ reader.verdict = "verified"
        \/ reader.verdict = "mismatch" /\ Spoilt(reader.hash, reader.at)

\* Where the author of a recorded decision was told its bundle is, a whole copy is, unless
\* that copy was meddled with; a reader that can reach that place gets it, and it verifies;
\* and no copy is called changed unless one of the two that are looked at was meddled with
\* (evidence-store.ts 101-107 and 128-135, evidence.ts 170-177 and 205-233).
KeptBundlesVerify ==
  /\ \A b \in recorded, p \in Place :
       <<b, p>> \in told /\ ~ Spoilt(b, p) => copies[p][b] = "whole"
  /\ ReadersGetIt
  /\ reader.verdict = "mismatch" => \E p \in {reader.at, Archive} : Spoilt(reader.hash, p)
=============================================================================
