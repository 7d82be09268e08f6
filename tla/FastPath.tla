------------------------------ MODULE FastPath ------------------------------
(* The clean-rebase fast path (src/lanes/fastpath.mjs) over the certification*)
(* the gate layers earned: an update brings files of the default branch into *)
(* the certified tree, and the certification is carried over them, again and *)
(* again, where no claim anybody made reaches one.  A stop between the merge *)
(* and its stamp is in ShipLane.                                             *)
EXTENDS GateLayers

CONSTANTS Suites,         \* suite files, the shared breadth list, the pinned config
          Sources,        \* the files the layers' declarations come out of
          Inert,          \* files the project declares inert
          Unreadable,     \* changes that are no plain file: a link, a mode
          RecordFiles,    \* decision records
          Neighbourhood,  \* the records around the run's own
          Changes,        \* what one update may bring: sets of files
          Lenses          \* what the review findings of a green verdict may declare: sets of grounds

VARIABLES story,    \* the files of the run's own diff
          carry     \* [brought: files merged under the certification, lenses: its findings'
                    \*  grounds, records: what the reconciliation's certification answered last]

fastVars == <<gateVars, story, carry>>

Anew == [brought |-> {}, lenses |-> {}, records |-> "none"]
FastInit == /\ GateInit
            /\ story = cycle.own /\ carry = Anew

(* --- the two questions --------------------------------------------------- *)

DeclaredInputs == UNION {LayerGround(l) : l \in Gates}

CertificationStands ==
    /\ verdict = "green"
    /\ \A l \in Gates : Standing(l).status = "green"
    /\ story \cap Sources = {}

(* Seeded bug: the findings are looked for behind the last stamp, and an     *)
(* update that was carried has none of its own.                              *)
LensesOfTheLastStamp(incoming) ==
    carry.brought # {} \/ \A ground \in carry.lenses : ground # {} /\ ground \cap incoming = {}
LensesStand(incoming) == \A ground \in carry.lenses : ground # {} /\ ground \cap incoming = {}

(* A record is the reconciliation's to answer for; any other file must be    *)
(* claimed by nobody and declared inert.                                     *)
GroundStands(incoming) ==
    LET code == incoming \ RecordFiles
    IN /\ incoming \cap Unreadable = {}
       /\ code \cap (story \union Sources \union Suites \union DeclaredInputs) = {}
       /\ code \subseteq Inert

CodeAnswer(incoming, clean) ==
    IF clean /\ CertificationStands /\ LensesStand(incoming) /\ GroundStands(incoming) THEN "kept" ELSE "rejudge"

RecordsMoved(incoming) == incoming \cap ((story \cap RecordFiles) \union Neighbourhood) # {}
RecordsAnswer(incoming, clean) ==
    IF clean /\ CertificationStands /\ ~RecordsMoved(incoming) THEN "kept" ELSE "rerun"

(* --- the steps ----------------------------------------------------------- *)

(* A green verdict is stamped with the findings it leaves standing.          *)
Certify == /\ Render
           /\ IF verdict' = "green" THEN \E lenses \in Lenses : carry' = [carry EXCEPT !.lenses = lenses]
              ELSE UNCHANGED carry
           /\ UNCHANGED story

Update == at.pc = "rendered" /\ verdict = "green"

(* The code's certification moves with the tree.  One whose records have to  *)
(* be asked again comes back to the next update with it.                     *)
FastPathKept ==
    \E incoming \in Changes :
        /\ Update /\ CodeAnswer(incoming, TRUE) = "kept"
        /\ carry' = [carry EXCEPT !.brought = @ \union incoming, !.records = RecordsAnswer(incoming, TRUE)]
        /\ UNCHANGED <<gateVars, story>>

(* A refusal costs the cycle the merged tree would have taken anyway.        *)
FastPathRefused ==
    \E incoming \in Changes, clean \in BOOLEAN :
        /\ Update /\ CodeAnswer(incoming, clean) = "rejudge"
        /\ cycle.nth < MaxCycles
        /\ moved' = [f \in Files |-> IF f \in incoming THEN cycle.nth + 1 ELSE moved[f]]
        /\ cycle' = [cycle EXCEPT !.nth = @ + 1, !.own = @ \union (incoming \intersect Files)]
        /\ prior' = [l \in Gates |-> Standing(l)]
        /\ cur' = [l \in Gates |-> NoResult]
        /\ ladder' = 0 /\ verdict' = "none" /\ Go(Pc("enter"))
        /\ carry' = Anew
        /\ UNCHANGED <<open, stops, ran, story>>

Repaired == /\ NextCycle
            /\ story' = {f \in cycle'.own : f \in story \/ moved'[f] # moved[f]}
            /\ carry' = Anew

Layer(A) == A /\ UNCHANGED <<story, carry>>
FastStep == \/ Layer(RunCycle) \/ Layer(PlanBatch) \/ Layer(BatchEnds)
            \/ \E l \in Gates : Layer(LayerStarted(l) \/ Settle(l) \/ CommandError(l) \/ RerunLayer(l))
            \/ Layer(LadderWait) \/ Layer(RerunSettles) \/ Layer(RerunError) \/ Layer(Confirm)
            \/ Certify \/ FastPathKept \/ FastPathRefused
FastNext == FastStep \/ Repaired \/ Layer(GateCrash)
FastSpec == FastInit /\ [][FastNext]_fastVars

(* --- properties ---------------------------------------------------------- *)

(* However often it was carried, a certification answers for the tree that   *)
(* ships (src/lanes/fastpath.mjs): what the default branch brought is read by *)
(* no part, carried or run, and by no finding a reader judged; a record is   *)
(* the reconciliation's to answer for.                                       *)
CarriedGreenIsProven ==
    verdict = "green" =>
        /\ \A p \in AllParts : Ground[p] \cap (carry.brought \ RecordFiles) = {}
        /\ \A ground \in carry.lenses : ground \cap carry.brought = {}
        /\ (Suites \union Sources \union story) \cap (carry.brought \ RecordFiles) = {}
=============================================================================
