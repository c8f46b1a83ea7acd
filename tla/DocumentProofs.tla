--------------------------- MODULE DocumentProofs ---------------------------
(***************************************************************************)
(* Theorems about Documents, for any number of documents, pages, files and *)
(* faults: what an upload leaves behind, however it fails, and what a      *)
(* reader of a list is shown.                                              *)
(*                                                                         *)
(* An upload that has reached a statement has taken effect with the ones   *)
(* before it, and only a file that passed the checks got beyond them.      *)
(*                                                                         *)
(* A fetch takes the next rows below the cursor (Rank counts them); what   *)
(* is asked of a list, was passed over and is still there is Overdue, and  *)
(* has been paid for by a slip.  New rows come in above the cursor.        *)
(***************************************************************************)
EXTENDS Documents, TLAPS, FiniteSetTheorems

UploadRecord == [step : Steps, by : Uploader \cup {None}, org : Org \cup {None},
                 file : File \cup {None}, heard : BOOLEAN]
RowRecord == [stamp : Nat, org : Org \cup {None}, final : BOOLEAN,
              status : {"none", "DRAFT", "SENT", "COMPLETED"}]

TablesTyped ==
    /\ upload \in [Doc -> UploadRecord] /\ row \in [Doc -> RowRecord]
    /\ originals \in SUBSET Doc /\ finals \in SUBSET Doc
    /\ events \in [Doc -> Nat]

Present(d) == row[d].status # "none"

StepsFollow ==
    \A d \in Doc :
        /\ upload[d].step # "none" => upload[d].file \in File
        /\ upload[d].heard = TRUE => upload[d].step # "none"
        /\ upload[d].step \in {"row", "event", "ok"} => d \in originals
        /\ upload[d].step \in {"event", "ok"} => Present(d)
        /\ upload[d].step = "ok" => events[d] > 0
        /\ upload[d].step \in {"object", "row", "event", "ok"} => upload[d].file = "pdf"
        /\ d \in originals \/ Present(d) => upload[d].file = "pdf"
        /\ Present(d) => d \in originals
        /\ ~Present(d) => row[d] = NoRow
        /\ row[d].final = TRUE => d \in finals
        /\ d \in finals => Present(d)

Inv == TablesTyped /\ StepsFollow

LEMMA InitInv == Init => Inv
<1> SUFFICES ASSUME Init PROVE Inv
  OBVIOUS
<1>1. TablesTyped
  <2>1. \A d \in Doc : NewRow(d, Home) \in RowRecord /\ NoRow \in RowRecord
    BY DocumentAssumption DEF NewRow, NoRow, RowRecord, Doc
  <2>2. OldUpload \in UploadRecord /\ NoUpload \in UploadRecord
    BY DocumentAssumption DEF OldUpload, NoUpload, UploadRecord, Steps, File
  <2>3. 1..Old \subseteq Doc
    BY DocumentAssumption DEF Doc
  <2> QED
    BY <2>1, <2>2, <2>3 DEF Init, TablesTyped
<1>2. StepsFollow
  BY DocumentAssumption DEF Init, StepsFollow, Present, NewRow, NoRow, OldUpload, NoUpload, Doc, File
<1> QED
  BY <1>1, <1>2 DEF Inv

-----------------------------------------------------------------------------
LEMMA Goes ==
    ASSUME TablesTyped, NEW d \in Doc, NEW step \in Steps, Goto(d, step)
    PROVE  /\ upload' \in [Doc -> UploadRecord]
           /\ upload'[d].step = step /\ upload'[d].file = upload[d].file
           /\ \A e \in Doc : e # d => upload'[e] = upload[e]
<1> QED
  BY DEF Goto, TablesTyped, UploadRecord

(* The statements of an upload, in their order.                            *)
LEMMA CheckStep ==
    ASSUME Inv, NEW d \in Doc, CheckUpload(d)
    PROVE  Inv'
<1> USE DEF Inv
<1>1. PICK step \in {"object", "no"} :
         Goto(d, step) /\ (step = "object" => Suitable(upload[d].file) /\ Countable(upload[d].file))
  BY DEF CheckUpload, After
<1>2. /\ upload[d].step = "check" /\ UNCHANGED <<originals, finals, row, events>>
  BY DEF CheckUpload, stored
<1>3. /\ upload' \in [Doc -> UploadRecord]
      /\ upload'[d].step = step /\ upload'[d].file = upload[d].file
      /\ \A e \in Doc : e # d => upload'[e] = upload[e]
  BY <1>1, Goes DEF Steps
<1>4. step = "object" => upload[d].file = "pdf"
  BY <1>1, <1>2 DEF Suitable, Countable, StepsFollow, File
<1>5. TablesTyped'
  BY <1>2, <1>3 DEF TablesTyped
<1> QED
  BY <1>2, <1>3, <1>4, <1>5 DEF StepsFollow, Present

LEMMA ObjectStep ==
    ASSUME Inv, NEW d \in Doc, PutObject(d)
    PROVE  Inv'
<1> USE DEF Inv
<1>1. PICK step \in {"row", "no"} :
         Goto(d, step) /\ (step = "row" => originals' = originals \cup {d})
  BY DEF PutObject, Statement, After
<1>2. /\ upload[d].step = "object" /\ UNCHANGED <<finals, row, events>>
      /\ originals' = originals \cup {d} \/ originals' = originals
  BY DEF PutObject, Statement
<1>3. /\ upload' \in [Doc -> UploadRecord]
      /\ upload'[d].step = step /\ upload'[d].file = upload[d].file
      /\ \A e \in Doc : e # d => upload'[e] = upload[e]
  BY <1>1, Goes DEF Steps
<1>4. TablesTyped'
  BY <1>2, <1>3 DEF TablesTyped
<1> QED
  BY <1>1, <1>2, <1>3, <1>4 DEF StepsFollow, Present

LEMMA RowStep ==
    ASSUME Inv, NEW d \in Doc, InsertRow(d)
    PROVE  Inv'
<1> USE DEF Inv
<1> DEFINE new == NewRow(Cardinality(Rows) + 1, upload[d].org)
<1>1. PICK step \in {"event", "no"} :
         Goto(d, step) /\ (step = "event" => row' = [row EXCEPT ![d] = new])
  BY DEF InsertRow, Statement, After
<1>2. /\ upload[d].step = "row" /\ UNCHANGED <<finals, originals, events>>
      /\ row' = [row EXCEPT ![d] = new] \/ row' = row
  BY DEF InsertRow, Statement
<1>3. /\ upload' \in [Doc -> UploadRecord]
      /\ upload'[d].step = step /\ upload'[d].file = upload[d].file
      /\ \A e \in Doc : e # d => upload'[e] = upload[e]
  BY <1>1, Goes DEF Steps
<1>4. new \in RowRecord /\ new.status = "DRAFT" /\ new.final = FALSE
  <2>1. Cardinality(Rows) \in Nat
    <3>1. IsFiniteSet(Doc)
      BY FS_Interval, DocumentAssumption DEF Doc
    <3> QED
      BY <3>1, FS_Subset, FS_CardinalityType DEF Rows
  <2>2. upload[d].org \in Org \cup {None}
    BY DEF TablesTyped, UploadRecord
  <2> QED
    BY <2>1, <2>2 DEF NewRow, RowRecord
<1>5. /\ row' \in [Doc -> RowRecord]
      /\ \A e \in Doc : e # d => row'[e] = row[e]
      /\ row'[d] = new \/ row'[d] = row[d]
      /\ step = "event" => row'[d] = new
  BY <1>1, <1>2, <1>4 DEF TablesTyped
<1>6. TablesTyped'
  BY <1>2, <1>3, <1>5 DEF TablesTyped
<1> HIDE DEF new
<1>7. StepsFollow'
  <2> SUFFICES ASSUME NEW e \in Doc
               PROVE  /\ upload'[e].step # "none" => upload'[e].file \in File
                      /\ upload'[e].heard = TRUE => upload'[e].step # "none"
                      /\ upload'[e].step \in {"row", "event", "ok"} => e \in originals
                      /\ upload'[e].step \in {"event", "ok"} => row'[e].status # "none"
                      /\ upload'[e].step = "ok" => events[e] > 0
                      /\ upload'[e].step \in {"object", "row", "event", "ok"}
                            => upload'[e].file = "pdf"
                      /\ e \in originals \/ row'[e].status # "none" => upload'[e].file = "pdf"
                      /\ row'[e].status # "none" => e \in originals
                      /\ row'[e].status = "none" => row'[e] = NoRow
                      /\ row'[e].final = TRUE => e \in finals
                      /\ e \in finals => row'[e].status # "none"
    BY <1>2 DEF StepsFollow, Present
  <2>1. CASE e = d
    BY <1>2, <1>3, <1>4, <1>5, <2>1 DEF StepsFollow, Present
  <2>2. CASE e # d
    BY <1>2, <1>3, <1>5, <2>2 DEF StepsFollow, Present
  <2> QED
    BY <2>1, <2>2
<1> QED
  BY <1>6, <1>7

LEMMA EventStep ==
    ASSUME Inv, NEW d \in Doc, RecordUpload(d)
    PROVE  Inv'
<1> USE DEF Inv
<1>1. PICK step \in {"ok", "no"} :
         Goto(d, step) /\ (step = "ok" => events' = [events EXCEPT ![d] = @ + 1])
  BY DEF RecordUpload, Statement, After
<1>2. /\ upload[d].step = "event" /\ UNCHANGED <<finals, originals, row>>
      /\ events' = [events EXCEPT ![d] = @ + 1] \/ events' = events
  BY DEF RecordUpload, Statement
<1>3. /\ upload' \in [Doc -> UploadRecord]
      /\ upload'[d].step = step /\ upload'[d].file = upload[d].file
      /\ \A e \in Doc : e # d => upload'[e] = upload[e]
  BY <1>1, Goes DEF Steps
<1>4. /\ events' \in [Doc -> Nat] /\ (step = "ok" => events'[d] > 0)
      /\ \A e \in Doc : events'[e] >= events[e]
  BY <1>1, <1>2 DEF TablesTyped
<1>5. TablesTyped'
  BY <1>2, <1>3, <1>4 DEF TablesTyped
<1>6. \A e \in Doc : events[e] > 0 => events'[e] > 0
  BY <1>4 DEF TablesTyped
<1> QED
  BY <1>2, <1>3, <1>4, <1>5, <1>6 DEF StepsFollow, Present

(* The page: a click, answers, and broken connections.                     *)
LEMMA PageStep ==
    ASSUME Inv, UNCHANGED <<originals, finals, row, events>>, upload' \in [Doc -> UploadRecord],
           \A d \in Doc :
              \/ upload'[d] = upload[d]
              \/ /\ upload'[d].step \in {upload[d].step, "dead"}
                 /\ upload'[d].file = upload[d].file
                 /\ upload[d].step # "none"
              \/ /\ upload'[d].step = "check" /\ upload'[d].file \in File
                 /\ d \notin originals
    PROVE  Inv'
<1>1. TablesTyped'
  BY DEF Inv, TablesTyped
<1>2. StepsFollow'
  BY DEF Inv, StepsFollow, Present
<1> QED
  BY <1>1, <1>2 DEF Inv

LEMMA Clicks ==
    ASSUME Inv, NEW u \in Uploader, NEW d \in Doc, NEW o \in Org, NEW f \in File,
           Click(u, d, o, f)
    PROVE  Inv'
<1> DEFINE new == [step |-> "check", by |-> u, org |-> o, file |-> f, heard |-> TRUE]
<1>1. /\ upload' = [upload EXCEPT ![d] = new] /\ upload[d] = NoUpload
      /\ UNCHANGED <<originals, finals, row, events>>
  BY DEF Click, stored
<1>2. new \in UploadRecord /\ new.step = "check" /\ new.file = f
  BY DEF UploadRecord, Steps
<1> HIDE DEF new
<1>3. /\ upload' \in [Doc -> UploadRecord] /\ upload'[d] = new
      /\ \A e \in Doc : e # d => upload'[e] = upload[e]
  BY <1>1, <1>2 DEF Inv, TablesTyped
<1>4. d \notin originals
  BY <1>1, DocumentAssumption DEF NoUpload, Inv, StepsFollow, File
<1> QED
  BY <1>1, <1>2, <1>3, <1>4, PageStep

LEMMA Answers ==
    ASSUME Inv, NEW d \in Doc, Answer(d) \/ AnswerGarbled(d) \/ Disconnect(d)
    PROVE  Inv'
<1>1. UNCHANGED <<originals, finals, row, events>> /\ upload[d].heard
  BY DEF Answer, AnswerGarbled, Disconnect, stored
<1>2. \/ upload' = [upload EXCEPT ![d].heard = FALSE]
      \/ \E step \in {upload[d].step, "dead"} :
            upload' = [upload EXCEPT ![d].heard = FALSE, ![d].step = step]
  BY DEF Answer, AnswerGarbled, Disconnect
<1>3. upload \in [Doc -> UploadRecord] /\ upload[d].step # "none"
  BY <1>1 DEF Inv, TablesTyped, StepsFollow, UploadRecord
<1>4. CASE upload' = [upload EXCEPT ![d].heard = FALSE]
  <2>1. upload' \in [Doc -> UploadRecord]
    BY <1>3, <1>4 DEF UploadRecord
  <2>2. /\ upload'[d].step = upload[d].step /\ upload'[d].file = upload[d].file
        /\ \A e \in Doc : e # d => upload'[e] = upload[e]
    BY <1>3, <1>4 DEF UploadRecord
  <2> QED
    BY <1>1, <1>3, <2>1, <2>2, PageStep
<1>5. ASSUME NEW step \in {upload[d].step, "dead"},
             upload' = [upload EXCEPT ![d].heard = FALSE, ![d].step = step]
      PROVE  Inv'
  <2>1. upload' = [upload EXCEPT ![d] = [[@ EXCEPT !.heard = FALSE] EXCEPT !.step = step]]
    BY <1>3, <1>5 DEF UploadRecord
  <2>2. step \in Steps
    BY <1>3 DEF UploadRecord, Steps
  <2>3. upload' \in [Doc -> UploadRecord]
    BY <1>3, <2>1, <2>2 DEF UploadRecord
  <2>4. /\ upload'[d].step = step /\ upload'[d].file = upload[d].file
        /\ \A e \in Doc : e # d => upload'[e] = upload[e]
    BY <1>3, <2>1 DEF UploadRecord
  <2> QED
    BY <1>1, <1>3, <2>3, <2>4, PageStep
<1> QED
  BY <1>2, <1>4, <1>5

-----------------------------------------------------------------------------
(* The later life of a document.                                           *)
LEMMA Moves ==
    ASSUME Inv, NEW d \in Doc, Send(d) \/ Complete(d) \/ PutFinal(d) \/ RecordFinal(d)
    PROVE  Inv'
<1> USE DEF Inv
<1>1. /\ UNCHANGED <<upload, originals>>
      /\ finals' = finals \/ (finals' = finals \cup {d} /\ row[d].status # "none")
      /\ events' = [events EXCEPT ![d] = @ + 1] \/ events' = events
  BY DEF Send, Complete, Move, PutFinal, RecordFinal
<1>2. \/ row' = row
      \/ \E to \in {"SENT", "COMPLETED"} :
            row[d].status # "none" /\ row' = [row EXCEPT ![d].status = to]
      \/ d \in finals /\ row' = [row EXCEPT ![d].final = TRUE]
  BY DEF Send, Complete, Move, PutFinal, RecordFinal
<1>3. row \in [Doc -> RowRecord] /\ events \in [Doc -> Nat]
  BY DEF TablesTyped
<1>4. /\ events' \in [Doc -> Nat] /\ \A e \in Doc : events[e] > 0 => events'[e] > 0
  BY <1>1, <1>3
<1>5. /\ row' \in [Doc -> RowRecord] /\ \A e \in Doc : e # d => row'[e] = row[e]
      /\ \/ row'[d] = row[d]
         \/ /\ row[d].status # "none" /\ row'[d].status # "none"
            /\ row'[d].final = TRUE => row[d].final = TRUE \/ d \in finals
  <2>1. CASE row' = row
    BY <1>3, <2>1
  <2>2. ASSUME NEW to \in {"SENT", "COMPLETED"}, row[d].status # "none",
               row' = [row EXCEPT ![d].status = to]
        PROVE  /\ row' \in [Doc -> RowRecord] /\ \A e \in Doc : e # d => row'[e] = row[e]
               /\ row'[d].status # "none" /\ row'[d].final = row[d].final
    BY <1>3, <2>2 DEF RowRecord
  <2>3. CASE d \in finals /\ row' = [row EXCEPT ![d].final = TRUE]
    BY <1>3, <2>3 DEF RowRecord, StepsFollow, Present
  <2> QED
    BY <1>2, <2>1, <2>2, <2>3
<1>6. TablesTyped'
  BY <1>1, <1>4, <1>5 DEF TablesTyped
<1>7. StepsFollow'
  <2>1. row[d].final = TRUE => d \in finals
    BY DEF StepsFollow
  <2> QED
    BY <1>1, <1>4, <1>5, <2>1 DEF StepsFollow, Present
<1> QED
  BY <1>6, <1>7

LEMMA InvStep == Inv /\ [Next]_vars => Inv'
<1> SUFFICES ASSUME Inv, [Next]_vars PROVE Inv'
  OBVIOUS
<1>1. ASSUME NEW d \in Doc, Serve(d) PROVE Inv'
  BY <1>1, CheckStep, ObjectStep, RowStep, EventStep DEF Serve
<1>2. ASSUME NEW d \in Doc, Answer(d) \/ AnswerGarbled(d) \/ Disconnect(d) PROVE Inv'
  BY <1>2, Answers
<1>3. ASSUME NEW d \in Doc, Send(d) \/ Complete(d) \/ PutFinal(d) \/ RecordFinal(d) PROVE Inv'
  BY <1>3, Moves
<1>4. ASSUME UNCHANGED <<upload, originals, finals, row, events>> PROVE Inv'
  BY <1>4 DEF Inv, TablesTyped, StepsFollow, Present
<1>5. ASSUME NEW d \in Doc, BeginHistory(d) PROVE Inv'
  BY <1>4, <1>5 DEF BeginHistory, stored
<1>6. CASE FetchPage \/ \E filter \in {"all", "DRAFT"} : BeginList(filter)
  BY <1>4, <1>6 DEF FetchPage, BeginList, stored
<1>7. CASE UNCHANGED vars
  BY <1>4, <1>7 DEF vars
<1> QED
  BY <1>1, <1>2, <1>3, <1>5, <1>6, <1>7, Clicks DEF Next

LEMMA InvCorrect == Spec => []Inv
<1> QED BY InitInv, InvStep, PTL DEF Spec

(* Whichever of the three writes fails, and whatever becomes of the        *)
(* document later, what the lists name is in the store.                    *)
THEOREM RowsHaveFiles == Spec => []RowHasFile
<1>1. Inv => RowHasFile
  <2> SUFFICES ASSUME Inv, NEW d \in Rows PROVE d \in originals /\ (row[d].final => d \in finals)
    BY DEF RowHasFile
  <2>1. row[d] # NoRow /\ d \in Doc
    BY DEF Rows
  <2>2. row[d].final \in BOOLEAN
    BY <2>1 DEF Inv, TablesTyped, RowRecord
  <2> QED
    BY <2>1, <2>2 DEF Inv, StepsFollow
<1> QED BY <1>1, InvCorrect, PTL

(* An upload answered with success left the object, the row and the event. *)
THEOREM SuccessIsComplete == Spec => []PartsAreFailures
<1>1. Inv => PartsAreFailures
  BY DEF Inv, StepsFollow, PartsAreFailures, Present, Rows, NoRow
<1> QED BY <1>1, InvCorrect, PTL

(* Nothing is kept of a file that the checks refuse.                       *)
THEOREM RefusedIsGone == Spec => []RefusedLeavesNothing
<1>1. Inv => RefusedLeavesNothing
  <2> SUFFICES ASSUME Inv, NEW d \in originals \cup Rows PROVE upload[d].file = "pdf"
    BY DEF RefusedLeavesNothing
  <2>1. d \in Doc /\ (d \in originals \/ row[d] # NoRow)
    BY DEF Inv, TablesTyped, Rows
  <2> QED
    BY <2>1 DEF Inv, StepsFollow
<1> QED BY <1>1, InvCorrect, PTL

(* Every download that is offered has its file.                            *)
THEOREM LinksLead == Spec => []LinksLeadToFiles
<1>1. Inv => LinksLeadToFiles
  <2> SUFFICES ASSUME Inv, NEW d \in Doc, Readable(d) \/ OfferedToSigner(d)
               PROVE  d \in originals /\ (row[d].final => d \in finals)
    BY DEF LinksLeadToFiles, Offered, HasOriginal, HasFinal
  <2>1. row[d] # NoRow
    BY DocumentAssumption DEF Readable, OfferedToSigner, NoRow
  <2>2. row[d].final \in BOOLEAN
    BY DEF Inv, TablesTyped, RowRecord
  <2> QED
    BY <2>1, <2>2 DEF Inv, StepsFollow
<1> QED BY <1>1, InvCorrect, PTL

-----------------------------------------------------------------------------
(* Pages.  In a finite set of numbers the rank of a number is its place    *)
(* from the newest; the ranks are 1 to the size of the set.                *)
Rank(S) == [i \in S |-> Cardinality({j \in S : j >= i})]

LEMMA RanksAreDense ==
    ASSUME NEW S \in SUBSET Nat, IsFiniteSet(S)
    PROVE  /\ Cardinality(S) \in Nat
           /\ \A i \in S : Rank(S)[i] \in 1..Cardinality(S)
           /\ \A i, j \in S : i < j => Rank(S)[j] < Rank(S)[i]
           /\ \A k \in 1..Cardinality(S) : \E i \in S : Rank(S)[i] = k
<1> DEFINE Above(i) == {j \in S : j >= i}
           c == Cardinality(S)
<1>1. c \in Nat
  BY FS_CardinalityType
<1>2. \A i \in S : /\ IsFiniteSet(Above(i)) /\ Cardinality(Above(i)) \in Nat
                   /\ Cardinality(Above(i)) <= c
  <2> SUFFICES ASSUME NEW i \in S
               PROVE  /\ IsFiniteSet(Above(i)) /\ Cardinality(Above(i)) \in Nat
                      /\ Cardinality(Above(i)) <= c
    OBVIOUS
  <2>1. Above(i) \in SUBSET S
    OBVIOUS
  <2> HIDE DEF Above
  <2>2. IsFiniteSet(Above(i)) /\ Cardinality(Above(i)) <= c
    BY <2>1, FS_Subset
  <2> QED
    BY <2>2, FS_CardinalityType
<1>3. \A i \in S : Cardinality(Above(i)) >= 1
  <2> SUFFICES ASSUME NEW i \in S PROVE Cardinality(Above(i)) >= 1
    OBVIOUS
  <2>1. i \in Above(i)
    OBVIOUS
  <2> HIDE DEF Above
  <2> QED
    BY <1>2, <2>1, FS_EmptySet
<1>4. ASSUME NEW i \in S, NEW j \in S, i < j PROVE Cardinality(Above(j)) < Cardinality(Above(i))
  <2>0. i >= i /\ ~(i >= j) /\ \A k \in S : k >= j => k >= i
    BY <1>4
  <2>1. Above(j) \in SUBSET Above(i)
    BY <2>0
  <2>2. i \in Above(i) /\ i \notin Above(j)
    BY <2>0
  <2> HIDE DEF Above
  <2>3. Cardinality(Above(j)) <= Cardinality(Above(i)) /\ Cardinality(Above(i)) # Cardinality(Above(j))
    BY <1>2, <2>1, <2>2, FS_Subset
  <2> QED
    BY <1>2, <2>3
<1> HIDE DEF Above
<1>5. \A i \in S : Rank(S)[i] = Cardinality(Above(i))
  BY DEF Rank, Above
<1>6. Rank(S) \in Injection(S, 1..c)
  <2>1. Rank(S) \in [S -> 1..c]
    <3>1. Rank(S) = [i \in S |-> Cardinality(Above(i))]
      BY DEF Rank, Above
    <3> QED
      BY <1>1, <1>2, <1>3, <3>1
  <2>2. \A i, j \in S : Rank(S)[i] = Rank(S)[j] => i = j
    <3> SUFFICES ASSUME NEW i \in S, NEW j \in S, Rank(S)[i] = Rank(S)[j], i # j PROVE FALSE
      OBVIOUS
    <3>1. i < j \/ j < i
      OBVIOUS
    <3> QED
      BY <1>2, <1>4, <1>5, <3>1
  <2> QED
    BY <2>1, <2>2 DEF Injection, IsInjective
<1>7. Rank(S) \in Surjection(S, 1..c)
  <2>1. IsFiniteSet(1..c) /\ Cardinality(1..c) = c
    BY <1>1, FS_Interval
  <2> QED
    BY <1>6, <2>1, FS_Injection
<1>8. \A k \in 1..c : \E i \in S : Rank(S)[i] = k
  BY <1>7 DEF Surjection
<1> QED
  BY <1>1, <1>2, <1>3, <1>4, <1>5, <1>8

LEMMA HasEnds ==
    ASSUME NEW S \in SUBSET Nat, IsFiniteSet(S), S # {}
    PROVE  /\ \E m \in S : \A i \in S : m <= i
           /\ \E m \in S : \A i \in S : i <= m
<1> DEFINE c == Cardinality(S)
<1>1. c \in Nat /\ c # 0
  BY FS_EmptySet, FS_CardinalityType
<1>2. 1 \in 1..c /\ c \in 1..c
  BY <1>1
<1>3. PICK m \in S : Rank(S)[m] = c
  BY <1>2, RanksAreDense
<1>4. PICK n \in S : Rank(S)[n] = 1
  BY <1>2, RanksAreDense
<1>5. \A i \in S : /\ Rank(S)[i] \in Nat /\ Rank(S)[i] >= 1 /\ Rank(S)[i] <= c
                   /\ (i < m => Rank(S)[m] < Rank(S)[i]) /\ (n < i => Rank(S)[i] < Rank(S)[n])
  BY <1>1, RanksAreDense
<1> HIDE DEF c
<1>6. \A i \in S : m <= i /\ i <= n
  BY <1>1, <1>3, <1>4, <1>5
<1> QED
  BY <1>6

LEMMA NewestFacts ==
    ASSUME NEW S \in SUBSET Nat, IsFiniteSet(S), NEW n \in Nat
    PROVE  /\ Newest(S, n) \subseteq S /\ IsFiniteSet(Newest(S, n))
           /\ \A i \in Newest(S, n), j \in S : i <= j => j \in Newest(S, n)
           /\ n > 0 /\ S # {} => Newest(S, n) # {}
           /\ Cardinality(S) <= n => Newest(S, n) = S
           /\ Cardinality(Newest(S, n)) < n => Newest(S, n) = S
<1> DEFINE c == Cardinality(S)
           N == Newest(S, n)
<1>1. N = {i \in S : Rank(S)[i] <= n}
  BY DEF Newest, Rank
<1>2. /\ c \in Nat /\ \A i \in S : Rank(S)[i] \in 1..c
      /\ \A i, j \in S : i < j => Rank(S)[j] < Rank(S)[i]
      /\ \A k \in 1..c : \E i \in S : Rank(S)[i] = k
  BY RanksAreDense
<1>3. N \subseteq S /\ IsFiniteSet(N)
  BY <1>1, FS_Subset
<1>4. \A i \in N, j \in S : i <= j => j \in N
  <2> SUFFICES ASSUME NEW i \in S, NEW j \in S, Rank(S)[i] <= n, i <= j
               PROVE  Rank(S)[j] <= n
    BY <1>1
  <2>1. Rank(S)[i] \in Nat /\ Rank(S)[j] \in Nat
    BY <1>2
  <2>2. i = j \/ Rank(S)[j] < Rank(S)[i]
    BY <1>2
  <2> QED
    BY <2>1, <2>2
<1>5. ASSUME n > 0, S # {} PROVE N # {}
  <2>1. c # 0
    BY <1>5, FS_EmptySet
  <2>2. 1 \in 1..c
    BY <1>2, <2>1
  <2>3. PICK i \in S : Rank(S)[i] = 1
    BY <1>2, <2>2
  <2> QED
    BY <1>1, <1>5, <2>3
<1>6. ASSUME c <= n PROVE N = S
  <2>1. \A i \in S : Rank(S)[i] <= n
    BY <1>2, <1>6
  <2> QED
    BY <1>1, <2>1
<1>7. ASSUME Cardinality(N) < n PROVE N = S
  <2>1. CASE c <= n
    BY <1>6, <2>1
  <2>2. CASE n < c
    <3> DEFINE f == [i \in N |-> Rank(S)[i]]
    <3>1. \A i \in N : Rank(S)[i] \in 1..n
      <4> SUFFICES ASSUME NEW i \in S, Rank(S)[i] <= n PROVE Rank(S)[i] \in 1..n
        BY <1>1
      <4> QED
        BY <1>2
    <3>2. \A k \in 1..n : \E i \in N : Rank(S)[i] = k
      <4> SUFFICES ASSUME NEW k \in 1..n PROVE \E i \in N : Rank(S)[i] = k
        OBVIOUS
      <4>1. k \in 1..c /\ k <= n
        BY <1>2, <2>2
      <4>2. PICK i \in S : Rank(S)[i] = k
        BY <1>2, <4>1
      <4> QED
        BY <1>1, <4>1, <4>2
    <3> HIDE DEF N
    <3>3. f \in Surjection(N, 1..n)
      BY <3>1, <3>2 DEF Surjection
    <3>4. Cardinality(1..n) <= Cardinality(N)
      BY <1>3, <3>3, FS_Surjection
    <3>5. Cardinality(1..n) = n
      BY FS_Interval
    <3>6. Cardinality(N) \in Nat
      BY <1>3, FS_CardinalityType
    <3> QED
      BY <1>7, <3>4, <3>5, <3>6
  <2> QED
    BY <1>2, <2>1, <2>2
<1> HIDE DEF N, c
<1> QED
  BY <1>3, <1>4, <1>5, <1>6, <1>7 DEF N, c

\* Of a list, the page after a cursor shows what is older than the cursor but
\* for the newest of it, which it skips when the row of the cursor is gone.
Shows(items, cursor, rows, page, skipped) ==
    /\ IsFiniteSet(skipped) /\ Cardinality(skipped) <= 1
    /\ cursor \in items \cup {0} => skipped \subseteq {cursor}
    /\ page \subseteq items
    /\ \A i \in page : cursor # 0 => i < cursor
    /\ page # {} => \E m \in page : \A i \in page : m <= i
    /\ Cardinality(rows) > Limit => page # {}
    /\ \A i \in items : \/ i \in page \cup skipped
                        \/ cursor # 0 /\ i > cursor
                        \/ Cardinality(rows) > Limit /\ \A j \in page : i < j

LEMMA PageFacts ==
    ASSUME NEW items \in SUBSET (Nat \ {0}), IsFiniteSet(items), NEW cursor \in Nat
    PROVE  \E skipped \in SUBSET items :
              Shows(items, cursor, DbRows(items, cursor),
                    Newest(DbRows(items, cursor), Limit), skipped)
<1> DEFINE rows == DbRows(items, cursor)
           page == Newest(rows, Limit)
<1> DEFINE from == From(items, cursor)
           skipped == IF cursor = 0 THEN {} ELSE Newest(from, 1)
           rest == Skip(from, cursor)
<1>0. Limit \in Nat /\ Limit > 0 /\ Limit + 1 \in Nat
  BY DocumentAssumption
<1>1. from \in SUBSET Nat /\ from \in SUBSET items /\ IsFiniteSet(from)
  <2>1. from \in SUBSET items
    BY DEF From
  <2> HIDE DEF from
  <2> QED
    BY <2>1, FS_Subset
<1>2. \A i \in from : cursor # 0 => i <= cursor
  BY DEF From
<1>3. \A i \in items : i \in from \/ (cursor # 0 /\ i > cursor)
  BY DEF From
<1>4. cursor \in items => cursor \in from
  BY DEF From
<1> HIDE DEF from
<1>5. Newest(from, 1) \subseteq from /\ IsFiniteSet(Newest(from, 1))
  BY <1>1, NewestFacts
<1>6. ASSUME NEW i \in Newest(from, 1), NEW j \in from PROVE j <= i
  <2>0. i \in from /\ i \in Nat /\ j \in Nat
    BY <1>1, <1>5
  <2> SUFFICES ASSUME i < j PROVE FALSE
    BY <2>0
  <2> DEFINE above == {k \in from : k >= i}
  <2>1. i \in above /\ j \in above /\ above \in SUBSET from
    <3>1. i >= i /\ j >= i
      BY <2>0
    <3> QED
      BY <2>0, <3>1
  <2>2. Cardinality(above) <= 1
    BY DEF Newest
  <2> HIDE DEF above
  <2>3. {i, j} \in SUBSET above /\ IsFiniteSet(above)
    BY <1>1, <2>1, FS_Subset
  <2>4. Cardinality({i, j}) <= Cardinality(above)
    BY <2>3, FS_Subset
  <2>5. Cardinality({i} \cup {j}) = 2
    <3>1. IsFiniteSet({i}) /\ Cardinality({i}) = 1
      BY FS_Singleton
    <3>2. j # i
      BY <2>0
    <3>3. j \notin {i}
      BY <3>2
    <3>4. Cardinality({i} \cup {j}) = Cardinality({i}) + 1
      BY <3>1, <3>3, FS_AddElement
    <3> QED
      BY <3>1, <3>4
  <2>6. {i} \cup {j} = {i, j}
    OBVIOUS
  <2>7. Cardinality(above) \in Nat
    BY <2>3, FS_CardinalityType
  <2> QED
    BY <2>2, <2>4, <2>5, <2>6, <2>7
<1>7. \E x : Newest(from, 1) \subseteq {x}
  <2>1. \A i, j \in Newest(from, 1) : i = j
    <3> SUFFICES ASSUME NEW i \in Newest(from, 1), NEW j \in Newest(from, 1) PROVE i = j
      OBVIOUS
    <3>1. i <= j /\ j <= i /\ i \in Nat /\ j \in Nat
      BY <1>1, <1>5, <1>6
    <3> QED
      BY <3>1
  <2> QED
    BY <2>1
<1>8. skipped \in SUBSET items /\ IsFiniteSet(skipped) /\ Cardinality(skipped) <= 1
  <2>1. PICK x : skipped \in SUBSET {x}
    BY <1>7
  <2>2. IsFiniteSet({x}) /\ Cardinality({x}) = 1
    BY FS_Singleton
  <2>3. IsFiniteSet(skipped) /\ Cardinality(skipped) <= 1
    BY <2>1, <2>2, FS_Subset
  <2> QED
    BY <1>1, <1>5, <2>3
<1>9. cursor \in items \cup {0} => skipped \subseteq {cursor}
  <2> SUFFICES ASSUME cursor # 0, cursor \in items, NEW i \in Newest(from, 1) PROVE i = cursor
    OBVIOUS
  <2>1. cursor <= i /\ i <= cursor /\ i \in Nat
    BY <1>1, <1>2, <1>4, <1>5, <1>6
  <2> QED
    BY <2>1
<1>10. rest = from \ skipped
  BY DEF Skip
<1>11. \A i \in rest : cursor # 0 => i < cursor
  <2> SUFFICES ASSUME NEW i \in from, cursor # 0, i \notin Newest(from, 1), ~(i < cursor) PROVE FALSE
    BY <1>10
  <2>1. i = cursor
    BY <1>1, <1>2
  <2>2. \A j \in from : j <= i
    BY <1>2, <2>1
  <2>3. {j \in from : j >= i} \subseteq {i}
    <3> SUFFICES ASSUME NEW j \in from, j >= i PROVE j = i
      OBVIOUS
    <3>1. j \in Nat /\ i \in Nat /\ j <= i
      BY <1>1, <2>2
    <3> QED
      BY <3>1
  <2>4. Cardinality({j \in from : j >= i}) <= 1
    <3>1. IsFiniteSet({i}) /\ Cardinality({i}) = 1
      BY FS_Singleton
    <3> QED
      BY <2>3, <3>1, FS_Subset
  <2> QED
    BY <2>4 DEF Newest
<1> HIDE DEF skipped
<1>12. rest \in SUBSET from /\ rest \in SUBSET Nat /\ IsFiniteSet(rest)
  <2>1. rest \in SUBSET from
    BY <1>10
  <2> HIDE DEF rest
  <2> QED
    BY <1>1, <2>1, FS_Subset
<1> HIDE DEF rest
<1>13. rows = Newest(rest, Limit + 1)
  BY DEF DbRows, rest, from
<1> HIDE DEF rows
<1>14. /\ rows \subseteq rest /\ IsFiniteSet(rows) /\ rows \in SUBSET Nat
       /\ \A i \in rows, j \in rest : i <= j => j \in rows
       /\ Cardinality(rows) < Limit + 1 => rows = rest
  <2>1. /\ rows \subseteq rest /\ IsFiniteSet(rows)
        /\ \A i \in rows, j \in rest : i <= j => j \in rows
        /\ Cardinality(rows) < Limit + 1 => rows = rest
    BY <1>0, <1>12, <1>13, NewestFacts
  <2> QED
    BY <1>12, <2>1
<1>15. /\ page \subseteq rows /\ IsFiniteSet(page)
       /\ \A i \in page, j \in rows : i <= j => j \in page
       /\ rows # {} => page # {}
       /\ Cardinality(rows) <= Limit => page = rows
  BY <1>0, <1>14, NewestFacts
<1> HIDE DEF page
<1>16. Cardinality(rows) \in Nat
  BY <1>14, FS_CardinalityType
<1>17. page \subseteq items /\ \A i \in page : cursor # 0 => i < cursor
  BY <1>1, <1>11, <1>12, <1>14, <1>15
<1>18. page # {} => \E m \in page : \A i \in page : m <= i
  BY <1>14, <1>15, HasEnds
<1>19. Cardinality(rows) > Limit => page # {}
  <2>1. rows = {} => Cardinality(rows) = 0
    BY FS_EmptySet
  <2>2. Cardinality(rows) > Limit => rows # {}
    BY <1>0, <2>1
  <2> QED
    BY <1>15, <2>2
<1>20. ASSUME NEW i \in items
       PROVE  \/ i \in page \cup skipped
              \/ cursor # 0 /\ i > cursor
              \/ Cardinality(rows) > Limit /\ \A j \in page : i < j
  <2> SUFFICES ASSUME i \in rest, i \notin page
               PROVE  Cardinality(rows) > Limit /\ \A j \in page : i < j
    BY <1>3, <1>10
  <2>1. Cardinality(rows) > Limit
    BY <1>0, <1>14, <1>15, <1>16
  <2>2. ASSUME NEW j \in page, ~(i < j) PROVE FALSE
    <3>1. j <= i /\ j \in rows
      BY <1>12, <1>14, <1>15, <2>2
    <3>2. i \in rows
      BY <1>14, <3>1
    <3> QED
      BY <1>15, <3>1, <3>2
  <2> QED
    BY <2>1, <2>2
<1> QED
  BY <1>8, <1>9, <1>17, <1>18, <1>19, <1>20 DEF Shows, rows, page

-----------------------------------------------------------------------------
(* Rows are stamped in the order of their insertion, and only once.        *)
Early == {"none", "check", "object", "row"}

Ordered ==
    /\ \A d \in Doc : upload[d].step \in Early => row[d] = NoRow
    /\ \A d \in Rows : row[d].stamp \in 1..Cardinality(Rows)

LEMMA RowsAreFinite == IsFiniteSet(Rows) /\ Cardinality(Rows) \in Nat
<1>1. IsFiniteSet(Doc)
  BY FS_Interval, DocumentAssumption DEF Doc
<1>2. Rows \in SUBSET Doc
  BY DEF Rows
<1> QED
  BY <1>1, <1>2, FS_Subset, FS_CardinalityType

\* What a step may do to the tables that the lists are read from.
Grows ==
    /\ Cardinality(Rows) <= Cardinality(Rows)'
    /\ \A d \in Rows : /\ d \in Rows'
                       /\ row'[d].stamp = row[d].stamp /\ row'[d].org = row[d].org
                       /\ row'[d].status \in {row[d].status, "SENT", "COMPLETED"}
    /\ \A d \in Doc \ Rows : d \in Rows' => row'[d].stamp = Cardinality(Rows) + 1
    /\ \A d \in Doc : events'[d] >= events[d]

\* Only InsertRow writes a row for a document that has none.
LEMMA OthersKeepRows ==
    ASSUME Inv, Ordered, Rows' = Rows,
           \A d \in Doc : upload'[d].step \in Early => upload[d].step \in Early,
           \A d \in Doc : d \in Rows => row'[d].stamp = row[d].stamp,
           \A d \in Doc : d \notin Rows => row'[d] = row[d]
    PROVE  Ordered'
BY DEF Ordered, Rows

LEMMA UnchangedGrows ==
    ASSUME Inv, Ordered, UNCHANGED <<row, events>>,
           \A d \in Doc : upload'[d].step \in Early => upload[d].step \in Early
    PROVE  Ordered' /\ Grows
<1>1. Rows' = Rows /\ Cardinality(Rows)' = Cardinality(Rows) /\ Cardinality(Rows) \in Nat
  BY RowsAreFinite DEF Rows
<1>2. \A d \in Doc : events[d] \in Nat
  BY DEF Inv, TablesTyped
<1> QED
  BY <1>1, <1>2, OthersKeepRows DEF Grows

LEMMA InsertGrows ==
    ASSUME Inv, Ordered, NEW d \in Doc, InsertRow(d)
    PROVE  Ordered' /\ Grows
<1> DEFINE new == NewRow(Cardinality(Rows) + 1, upload[d].org)
<1>0. Cardinality(Rows) \in Nat /\ IsFiniteSet(Rows)
  BY RowsAreFinite
<1>1. upload[d].step = "row" /\ row[d] = NoRow /\ UNCHANGED <<originals, finals, events>>
  BY DEF InsertRow, Statement, Ordered, Early
<1>2. PICK step \in {"event", "no"} : Goto(d, step)
  BY DEF InsertRow, Statement, After
<1>3. /\ upload'[d].step = step
      /\ \A e \in Doc : e # d => upload'[e] = upload[e]
  BY <1>2, Goes DEF Inv, Steps
<1>4. row' = [row EXCEPT ![d] = new] \/ row' = row
  BY DEF InsertRow, Statement
<1>5. \A e \in Doc : events[e] \in Nat
  BY DEF Inv, TablesTyped
<1>6. CASE row' = row
  <2>1. \A e \in Doc : upload'[e].step \in Early => upload[e].step \in Early
    BY <1>3 DEF Early
  <2> QED
    BY <1>1, <1>6, <2>1, UnchangedGrows
<1>7. CASE row' = [row EXCEPT ![d] = new]
  <2>1. new.stamp = Cardinality(Rows) + 1 /\ new # NoRow
    BY DEF NewRow, NoRow
  <2> HIDE DEF new
  <2>2. row'[d] = new /\ \A e \in Doc : e # d => row'[e] = row[e]
    BY <1>7 DEF Inv, TablesTyped
  <2>3. Rows' = Rows \cup {d} /\ d \notin Rows
    BY <1>1, <2>1, <2>2 DEF Rows
  <2>4. Cardinality(Rows') = Cardinality(Rows) + 1
    BY <1>0, <2>3, FS_AddElement
  <2>5. Ordered'
    <3>1. \A e \in Doc : upload'[e].step \in Early => row'[e] = NoRow
      BY <1>2, <1>3, <2>2 DEF Ordered, Early
    <3>2. ASSUME NEW e \in Rows' PROVE row'[e].stamp \in 1..Cardinality(Rows')
      BY <1>0, <2>1, <2>2, <2>3, <2>4 DEF Ordered, Rows
    <3> QED
      BY <3>1, <3>2 DEF Ordered
  <2>6. Grows
    <3>1. \A e \in Rows : e \in Rows' /\ row'[e] = row[e]
      BY <2>2, <2>3 DEF Rows
    <3>2. \A e \in Doc \ Rows : e \in Rows' => row'[e].stamp = Cardinality(Rows) + 1
      BY <2>1, <2>2, <2>3
    <3>3. Cardinality(Rows) <= Cardinality(Rows')
      BY <1>0, <2>4
    <3>4. \A e \in Doc : events'[e] >= events[e]
      BY <1>1, <1>5
    <3> QED
      BY <3>1, <3>2, <3>3, <3>4 DEF Grows
  <2> QED
    BY <2>5, <2>6
<1> QED
  BY <1>4, <1>6, <1>7

LEMMA MovesGrow ==
    ASSUME Inv, Ordered, NEW d \in Doc, Send(d) \/ Complete(d) \/ PutFinal(d) \/ RecordFinal(d)
    PROVE  Ordered' /\ Grows
<1>0. /\ row \in [Doc -> RowRecord] /\ events \in [Doc -> Nat]
      /\ Cardinality(Rows) \in Nat
  BY RowsAreFinite DEF Inv, TablesTyped
<1>1. /\ upload' = upload
      /\ events' = [events EXCEPT ![d] = @ + 1] \/ events' = events
      /\ \/ row' = row
         \/ \E to \in {"SENT", "COMPLETED"} :
               row[d].status # "none" /\ row' = [row EXCEPT ![d].status = to]
         \/ d \in finals /\ row' = [row EXCEPT ![d].final = TRUE]
  BY DEF Send, Complete, Move, PutFinal, RecordFinal
<1>2. /\ \A e \in Doc : events'[e] >= events[e]
      /\ \A e \in Doc : e # d => row'[e] = row[e]
  BY <1>0, <1>1
<1>3. row'[d] = row[d] \/ d \in Rows
  <2>1. row[d].status # "none" => d \in Rows
    BY DEF Rows, NoRow
  <2>2. d \in finals => row[d].status # "none"
    BY DEF Inv, StepsFollow, Present
  <2> QED
    BY <1>1, <2>1, <2>2
<1>4. /\ row'[d].stamp = row[d].stamp /\ row'[d].org = row[d].org
      /\ row'[d].status \in {row[d].status, "SENT", "COMPLETED"}
  BY <1>0, <1>1 DEF RowRecord
<1>5. d \in Rows => d \in Rows'
  <2>1. d \in Rows => row[d].status # "none"
    BY DEF Inv, StepsFollow, Present, Rows
  <2>2. row'[d].status # "none" => d \in Rows'
    BY DEF Rows, NoRow
  <2> QED
    BY <1>4, <2>1, <2>2
<1>6. Rows' = Rows
  BY <1>2, <1>3, <1>5 DEF Rows
<1>7. Ordered'
  BY <1>1, <1>2, <1>3, <1>4, <1>6, OthersKeepRows
<1>8. Grows
  <2>1. Cardinality(Rows)' = Cardinality(Rows)
    BY <1>6
  <2>2. \A e \in Rows : /\ row'[e].stamp = row[e].stamp /\ row'[e].org = row[e].org
                        /\ row'[e].status \in {row[e].status, "SENT", "COMPLETED"}
    BY <1>2, <1>4 DEF Rows
  <2> QED
    BY <1>0, <1>2, <1>6, <2>1, <2>2 DEF Grows
<1> QED
  BY <1>7, <1>8

\* The page and the first two statements of an upload write no row.
LEMMA UploadsGrow ==
    ASSUME Inv, Ordered, NEW d \in Doc,
           \/ CheckUpload(d) \/ PutObject(d) \/ RecordUpload(d)
           \/ Answer(d) \/ AnswerGarbled(d) \/ Disconnect(d)
           \/ \E u \in Uploader, o \in Org, f \in File : Click(u, d, o, f)
    PROVE  Ordered' /\ Grows
<1>0. upload \in [Doc -> UploadRecord] /\ events \in [Doc -> Nat]
  BY DEF Inv, TablesTyped
<1> DEFINE Later == \A e \in Doc : upload'[e].step \in Early => upload[e].step \in Early
<1>1. CASE CheckUpload(d)
  <2>1. PICK step \in {"object", "no"} : Goto(d, step)
    BY <1>1 DEF CheckUpload, After
  <2>2. Later
    BY <1>1, <2>1, Goes DEF Inv, Steps, CheckUpload, Early
  <2> QED
    BY <1>1, <2>2, UnchangedGrows DEF CheckUpload, stored
<1>2. CASE PutObject(d)
  <2>1. PICK step \in {"row", "no"} : Goto(d, step)
    BY <1>2 DEF PutObject, Statement, After
  <2>2. Later
    BY <1>2, <2>1, Goes DEF Inv, Steps, PutObject, Statement, Early
  <2> QED
    BY <1>2, <2>2, UnchangedGrows DEF PutObject, Statement
<1>3. CASE RecordUpload(d)
  <2>1. PICK step \in {"ok", "no"} : Goto(d, step)
    BY <1>3 DEF RecordUpload, Statement, After
  <2>2. Later
    BY <1>3, <2>1, Goes DEF Inv, Steps, RecordUpload, Statement, Early
  <2>3. /\ row' = row /\ \A e \in Doc : events'[e] >= events[e]
    BY <1>0, <1>3 DEF RecordUpload, Statement
  <2>4. Rows' = Rows
    BY <2>3 DEF Rows
  <2>5. Ordered'
    BY <2>2, <2>3, <2>4, OthersKeepRows
  <2>6. Cardinality(Rows) \in Nat
    BY RowsAreFinite
  <2>7. Grows
    BY <2>3, <2>4, <2>6 DEF Grows
  <2> QED
    BY <2>5, <2>7
<1>4. CASE Answer(d) \/ AnswerGarbled(d) \/ Disconnect(d)
  <2>1. /\ UNCHANGED <<row, events>>
        /\ \/ upload' = [upload EXCEPT ![d].heard = FALSE]
           \/ \E step \in {upload[d].step, "dead"} :
                 upload' = [upload EXCEPT ![d].heard = FALSE, ![d].step = step]
    BY <1>4 DEF Answer, AnswerGarbled, Disconnect, stored
  <2>2. ASSUME NEW step, upload' = [upload EXCEPT ![d].heard = FALSE, ![d].step = step],
               step \in {upload[d].step, "dead"}
        PROVE  Later
    BY <1>0, <2>2 DEF UploadRecord, Early
  <2>3. ASSUME upload' = [upload EXCEPT ![d].heard = FALSE] PROVE Later
    BY <1>0, <2>3 DEF UploadRecord
  <2>4. Later
    BY <2>1, <2>2, <2>3
  <2> QED
    BY <2>1, <2>4, UnchangedGrows
<1>5. ASSUME NEW u \in Uploader, NEW o \in Org, NEW f \in File, Click(u, d, o, f)
      PROVE  Ordered' /\ Grows
  <2>1. upload[d].step = "none"
    BY <1>5 DEF Click, NoUpload
  <2>2. Later
    BY <1>0, <1>5, <2>1 DEF Click, Early
  <2> QED
    BY <1>5, <2>2, UnchangedGrows DEF Click, stored
<1> QED
  BY <1>1, <1>2, <1>3, <1>4, <1>5

LEMMA ReadersGrow ==
    ASSUME Inv, Ordered, UNCHANGED <<upload, row, events>>
    PROVE  Ordered' /\ Grows
<1>1. \A d \in Doc : upload'[d].step \in Early => upload[d].step \in Early
  OBVIOUS
<1> QED
  BY <1>1, UnchangedGrows

LEMMA OrderedStep ==
    ASSUME Inv, Ordered, [Next]_vars
    PROVE  Ordered' /\ Grows
<1>1. ASSUME NEW d \in Doc, BeginHistory(d) PROVE Ordered' /\ Grows
  BY <1>1, ReadersGrow DEF BeginHistory, stored
<1>2. CASE FetchPage \/ \E filter \in {"all", "DRAFT"} : BeginList(filter)
  BY <1>2, ReadersGrow DEF FetchPage, BeginList, stored
<1>3. CASE UNCHANGED vars
  BY <1>3, ReadersGrow DEF vars
<1> QED
  BY <1>1, <1>2, <1>3, InsertGrows, MovesGrow, UploadsGrow DEF Next, Serve

-----------------------------------------------------------------------------
(* Walks.  What a walk owes is what was in the list when it began, still   *)
(* is, and has been passed without being shown.                            *)
WalkRecord == [state : {"none", "walking", "done"}, of : Doc \cup {None},
               filter : {"all", "DRAFT"}, cursor : Nat, seen : SUBSET Nat,
               again : BOOLEAN, must : SUBSET Nat, slips : Nat]

Overdue == {i \in (walk.must \cap Items(walk)) \ walk.seen :
               walk.state = "walking" => i >= walk.cursor}

Known ==
    /\ walk.of = None =>
          /\ walk.must \subseteq 1..Cardinality(Rows)
          /\ \A i \in walk.seen : \E d \in Rows : row[d].stamp = i /\ row[d].org = Home
    /\ walk.of # None => walk.must \subseteq 1..events[walk.of]

Onward ==
    /\ walk.cursor = 0 => walk.seen = {} /\ (walk.state = "walking" => walk.must = {})
    /\ walk.cursor # 0 => walk.cursor \in walk.seen /\ \A i \in walk.seen : i >= walk.cursor

Pages ==
    /\ walk \in WalkRecord
    /\ walk.again = FALSE
    /\ Known
    /\ Onward
    /\ IsFiniteSet(walk.must)
    /\ Cardinality(Overdue) <= walk.slips

\* What has left a list does not come back to it, and what is new in it was
\* not asked for.
LEMMA NothingReturns ==
    ASSUME Inv, Inv', Ordered, Pages, Grows, walk' = walk
    PROVE  /\ walk.must \cap Items(walk)' \subseteq Items(walk)
           /\ Known'
<1>a. Cardinality(Rows)' \in Nat
  <2>1. IsFiniteSet(Doc)
    BY FS_Interval, DocumentAssumption DEF Doc
  <2>2. Rows' \in SUBSET Doc
    BY DEF Rows
  <2> QED
    BY <2>1, <2>2, FS_Subset, FS_CardinalityType
<1>0. /\ walk \in WalkRecord /\ Cardinality(Rows) \in Nat /\ Cardinality(Rows)' \in Nat
      /\ Cardinality(Rows) <= Cardinality(Rows)' /\ Home # None
  BY <1>a, RowsAreFinite, DocumentAssumption DEF Pages, Grows
<1>1. CASE walk.of = None
  <2>1. ASSUME NEW i \in walk.must, NEW d \in Doc, InList(d, walk.filter)', row'[d].stamp = i
        PROVE  InList(d, walk.filter) /\ row[d].stamp = i
    <3>1. d \in Rows'
      BY <1>0, <2>1 DEF InList, Readable, Rows, NoRow
    <3>2. i \in 1..Cardinality(Rows)
      BY <1>1, <2>1 DEF Pages, Known
    <3>3. d \in Rows
      BY <1>0, <2>1, <3>1, <3>2 DEF Grows
    <3>4. row'[d].status \in {row[d].status, "SENT", "COMPLETED"} /\ row'[d].org = row[d].org
      BY <3>3 DEF Grows
    <3>5. walk.filter \in {"all", "DRAFT"}
      BY <1>0 DEF WalkRecord
    <3> QED
      BY <2>1, <3>3, <3>4, <3>5 DEF InList, Readable, Grows
  <2>2. walk.must \cap Items(walk)' \subseteq Items(walk)
    BY <1>1, <2>1 DEF Items
  <2>3. walk.must \subseteq 1..Cardinality(Rows)'
    <3>1. walk.must \subseteq 1..Cardinality(Rows)
      BY <1>1 DEF Pages, Known
    <3> QED
      BY <1>0, <3>1
  <2>4. \A i \in walk.seen : \E d \in Rows' : row'[d].stamp = i /\ row'[d].org = Home
    BY <1>1 DEF Pages, Known, Grows
  <2> QED
    BY <1>1, <2>2, <2>3, <2>4 DEF Known
<1>2. CASE walk.of # None
  <2>1. walk.of \in Doc /\ walk.must \subseteq 1..events[walk.of]
    BY <1>0, <1>2 DEF WalkRecord, Pages, Known
  <2>2. walk.must \cap Items(walk)' \subseteq Items(walk)
    BY <1>2, <2>1 DEF Items
  <2>3. /\ events \in [Doc -> Nat] /\ events' \in [Doc -> Nat]
        /\ events'[walk.of] >= events[walk.of]
    BY <2>1 DEF Inv, TablesTyped, Grows
  <2>4. walk.must \subseteq 1..events'[walk.of]
    <3> SUFFICES ASSUME NEW i \in walk.must PROVE i \in 1..events'[walk.of]
      OBVIOUS
    <3>1. i \in 1..events[walk.of]
      BY <2>1
    <3> QED
      BY <2>1, <2>3, <3>1
  <2> QED
    BY <1>2, <2>2, <2>4 DEF Known
<1> QED
  BY <1>1, <1>2

LEMMA OwedIsFinite ==
    ASSUME Pages
    PROVE  IsFiniteSet(Overdue) /\ Cardinality(Overdue) \in Nat
<1>1. Overdue \in SUBSET walk.must /\ IsFiniteSet(walk.must)
  BY DEF Overdue, Pages
<1> QED
  BY <1>1, FS_Subset, FS_CardinalityType

LEMMA PagesStay ==
    ASSUME Inv, Inv', Ordered, Pages, Grows, walk' = walk
    PROVE  Pages'
<1>1. walk.must \cap Items(walk)' \subseteq Items(walk) /\ Known'
  BY NothingReturns
<1>2. Overdue' \in SUBSET Overdue
  BY <1>1 DEF Overdue
<1>3. IsFiniteSet(Overdue) /\ Cardinality(Overdue) \in Nat /\ Cardinality(Overdue) <= walk.slips
  BY OwedIsFinite DEF Pages
<1>4. IsFiniteSet(Overdue') /\ Cardinality(Overdue') <= Cardinality(Overdue)
  BY <1>2, <1>3, FS_Subset
<1>5. Cardinality(Overdue') \in Nat /\ walk.slips \in Nat
  BY <1>4, FS_CardinalityType DEF Pages, WalkRecord
<1>6. Cardinality(Overdue') <= walk'.slips
  BY <1>3, <1>4, <1>5
<1> QED
  BY <1>1, <1>6 DEF Pages, Onward

LEMMA WalksBegin ==
    ASSUME NEW w \in WalkRecord, w.cursor = 0, w.seen = {}, w.must = {}, w.slips = 0,
           w.again = FALSE, walk' = w
    PROVE  Pages'
<1>1. Overdue' = {}
  BY DEF Overdue
<1> QED
  BY <1>1, FS_EmptySet DEF Pages, Known, Onward

LEMMA ListedHasRow ==
    ASSUME NEW d \in Doc, Readable(d)
    PROVE  d \in Rows
<1>1. row[d].org # None
  BY DocumentAssumption DEF Readable
<1>2. NoRow.org = None
  BY DEF NoRow
<1> QED
  BY <1>1, <1>2 DEF Rows

\* Lists hold finitely many numbers, from 1 on.
LEMMA ItemsAreFinite ==
    ASSUME Inv, Ordered, Pages
    PROVE  Items(walk) \in SUBSET (Nat \ {0}) /\ IsFiniteSet(Items(walk))
<1>1. walk \in WalkRecord
  BY DEF Pages
<1>2. CASE walk.of = None
  <2>1. Cardinality(Rows) \in Nat
    BY RowsAreFinite
  <2>2. \A d \in Doc : InList(d, walk.filter) => row[d].stamp \in 1..Cardinality(Rows)
    BY ListedHasRow DEF InList, Ordered
  <2>3. Items(walk) \in SUBSET (1..Cardinality(Rows))
    BY <1>2, <2>2 DEF Items
  <2>4. IsFiniteSet(1..Cardinality(Rows))
    BY <2>1, FS_Interval
  <2>5. 1..Cardinality(Rows) \subseteq Nat \ {0}
    BY <2>1
  <2>6. IsFiniteSet(Items(walk))
    BY <2>3, <2>4, FS_Subset
  <2> QED
    BY <2>3, <2>5, <2>6
<1>3. CASE walk.of # None
  <2>1. events[walk.of] \in Nat
    BY <1>1, <1>3 DEF WalkRecord, Inv, TablesTyped
  <2>2. Items(walk) = 1..events[walk.of]
    BY <1>3 DEF Items
  <2>3. IsFiniteSet(1..events[walk.of]) /\ 1..events[walk.of] \subseteq Nat \ {0}
    <3>1. IsFiniteSet(1..events[walk.of])
      BY <2>1, FS_Interval
    <3> QED
      BY <2>1, <3>1
  <2> QED
    BY <2>2, <2>3
<1> QED
  BY <1>2, <1>3

\* What is on the list belongs to the reader's organization.
LEMMA ItemsAreMine ==
    ASSUME Inv, Pages, walk.of = None
    PROVE  /\ \A i \in Items(walk) : \E d \in Rows : row[d].stamp = i /\ row[d].org = Home
           /\ Ordered => Items(walk) \subseteq 1..Cardinality(Rows)
BY ListedHasRow DEF Items, InList, Readable, Ordered

LEMMA TurnsThePage ==
    ASSUME Inv, Ordered, Pages, FetchPage
    PROVE  Pages'
<1> DEFINE items == Items(walk)
           rows == DbRows(items, walk.cursor)
           page == Newest(rows, Limit)
<1>0. /\ walk \in WalkRecord /\ walk.state = "walking" /\ walk' = Turned(items, rows, page)
      /\ UNCHANGED <<row, events>>
  BY DEF FetchPage, Pages, stored
<1>1. items \in SUBSET (Nat \ {0}) /\ IsFiniteSet(items)
  BY ItemsAreFinite
<1>a. walk.cursor \in Nat
  BY <1>0 DEF WalkRecord
<1>b. \E skipped \in SUBSET items : Shows(items, walk.cursor, rows, page, skipped)
  BY <1>1, <1>a, PageFacts
<1> HIDE DEF items, rows, page
<1>2. PICK skipped \in SUBSET items : Shows(items, walk.cursor, rows, page, skipped)
  BY <1>b
<1> DEFINE low == CHOOSE i \in page : \A j \in page : i <= j
<1>3. /\ walk'.state = (IF Cardinality(rows) > Limit THEN "walking" ELSE "done")
      /\ walk'.cursor = (IF page = {} THEN walk.cursor ELSE low)
      /\ walk'.seen = walk.seen \cup page
      /\ walk'.again = (walk.again \/ page \cap walk.seen # {})
      /\ walk'.must = (IF walk.cursor = 0 THEN items ELSE walk.must)
      /\ walk'.slips = (IF walk.cursor \in items \cup {0} THEN walk.slips ELSE walk.slips + 1)
      /\ walk'.of = walk.of /\ walk'.filter = walk.filter
  BY <1>0 DEF Turned, WalkRecord
<1>4. page # {} => low \in page /\ \A i \in page : low <= i
  BY <1>2 DEF Shows
<1> HIDE DEF low
<1>5. /\ walk.seen \subseteq Nat /\ walk.must \subseteq Nat /\ walk.slips \in Nat
      /\ page \subseteq Nat \ {0} /\ page \subseteq items /\ (page # {} => low \in Nat \ {0})
  BY <1>0, <1>1, <1>2, <1>4 DEF WalkRecord, Shows
<1>6. walk.again = FALSE /\ Known /\ Onward /\ IsFiniteSet(walk.must)
  BY DEF Pages
<1>7. \A i \in page, j \in walk.seen : i < j
  <2> SUFFICES ASSUME NEW i \in page, NEW j \in walk.seen PROVE i < j
    OBVIOUS
  <2>1. walk.cursor # 0 /\ j >= walk.cursor
    BY <1>6 DEF Onward
  <2>2. i < walk.cursor
    BY <1>2, <2>1 DEF Shows
  <2> QED
    BY <1>a, <1>5, <2>1, <2>2
<1>8. walk'.again = FALSE
  <2>1. page \cap walk.seen = {}
    <3> SUFFICES ASSUME NEW i \in page, i \in walk.seen PROVE FALSE
      OBVIOUS
    <3>1. i < i /\ i \in Nat
      BY <1>5, <1>7
    <3> QED
      BY <3>1
  <2> QED
    BY <1>3, <1>6, <2>1
<1>9. walk' \in WalkRecord
  <2> DEFINE st == IF Cardinality(rows) > Limit THEN "walking" ELSE "done"
             cu == IF page = {} THEN walk.cursor ELSE low
             mu == IF walk.cursor = 0 THEN items ELSE walk.must
             sl == IF walk.cursor \in items \cup {0} THEN walk.slips ELSE walk.slips + 1
  <2>1. /\ st \in {"none", "walking", "done"} /\ cu \in Nat /\ mu \in SUBSET Nat /\ sl \in Nat
        /\ walk.seen \cup page \in SUBSET Nat
    <3>1. st \in {"none", "walking", "done"}
      OBVIOUS
    <3>2. cu \in Nat
      BY <1>a, <1>5
    <3>3. mu \in SUBSET Nat
      BY <1>1, <1>5
    <3>4. sl \in Nat
      BY <1>5
    <3>5. walk.seen \cup page \in SUBSET Nat
      BY <1>5
    <3> HIDE DEF st, cu, mu, sl
    <3> QED
      BY <3>1, <3>2, <3>3, <3>4, <3>5
  <2> HIDE DEF st, cu, mu, sl
  <2>2. walk' = [walk EXCEPT !.state = st, !.cursor = cu, !.seen = walk.seen \cup page,
                             !.again = FALSE, !.must = mu, !.slips = sl]
    <3>1. walk' = [walk EXCEPT !.state = walk'.state, !.cursor = walk'.cursor,
                               !.seen = walk'.seen, !.again = walk'.again,
                               !.must = walk'.must, !.slips = walk'.slips]
      BY <1>0 DEF Turned, WalkRecord
    <3> QED
      BY <1>3, <1>8, <3>1 DEF st, cu, mu, sl
  <2> QED
    BY <1>0, <2>1, <2>2 DEF WalkRecord
<1>10. Known'
  <2>1. Cardinality(Rows)' = Cardinality(Rows) /\ Rows' = Rows
    BY <1>0 DEF Rows
  <2>2. CASE walk.of = None
    <3>1. /\ \A i \in items : \E d \in Rows : row[d].stamp = i /\ row[d].org = Home
          /\ items \subseteq 1..Cardinality(Rows)
      BY <2>2, ItemsAreMine DEF items
    <3>2. /\ walk.must \subseteq 1..Cardinality(Rows)
          /\ \A i \in walk.seen : \E d \in Rows : row[d].stamp = i /\ row[d].org = Home
      BY <1>6, <2>2 DEF Known
    <3>3. walk'.must \subseteq 1..Cardinality(Rows)'
      BY <1>3, <2>1, <3>1, <3>2
    <3>4. \A i \in walk'.seen : \E d \in Rows : row[d].stamp = i /\ row[d].org = Home
      BY <1>3, <1>5, <3>1, <3>2
    <3> QED
      BY <1>0, <1>3, <2>1, <2>2, <3>3, <3>4 DEF Known
  <2>3. CASE walk.of # None
    <3>1. items = 1..events[walk.of]
      BY <2>3 DEF items, Items
    <3> QED
      BY <1>0, <1>3, <1>6, <2>3, <3>1 DEF Known
  <2> QED
    BY <2>2, <2>3
<1>11. Onward'
  <2>1. CASE page = {}
    <3>1. walk'.cursor = walk.cursor /\ walk'.seen = walk.seen /\ walk'.state = "done"
      BY <1>2, <1>3, <2>1 DEF Shows
    <3> QED
      BY <1>6, <3>1 DEF Onward
  <2>2. CASE page # {}
    <3>1. walk'.cursor = low /\ low \in page /\ low # 0 /\ walk'.seen = walk.seen \cup page
      BY <1>3, <1>4, <1>5, <2>2
    <3>2. \A i \in walk.seen \cup page : i >= low
      <4>1. \A i \in page : i \in Nat /\ low <= i /\ low \in Nat /\ low \in page
        BY <1>4, <1>5, <2>2
      <4>2. \A i \in walk.seen : i \in Nat /\ low < i
        BY <1>5, <1>7, <3>1
      <4>3. \A i \in page : i >= low
        BY <4>1
      <4>4. low \in Nat
        BY <1>5, <2>2
      <4>5. \A i \in walk.seen : i >= low
        BY <4>2, <4>4
      <4> QED
        BY <4>3, <4>5
    <3> QED
      BY <3>1, <3>2 DEF Onward
  <2> QED
    BY <2>1, <2>2
<1>12. Overdue' = {i \in (walk'.must \cap items) \ walk'.seen :
                     walk'.state = "walking" => i >= walk'.cursor}
  <2>1. Items(walk)' = items
    <3>1. walk'.of = walk.of /\ walk'.filter = walk.filter /\ row' = row /\ events' = events
      BY <1>0, <1>3
    <3> DEFINE listed == {e \in Doc : InList(e, walk.filter)}
    <3>2. listed' = listed
      BY <3>1 DEF InList, Readable
    <3> HIDE DEF listed
    <3>3. {row'[d].stamp : d \in listed'} = {row[d].stamp : d \in listed}
      BY <3>1, <3>2
    <3> QED
      BY <3>1, <3>3 DEF items, Items, listed
  <2> QED
    BY <2>1 DEF Overdue
<1>13. ASSUME NEW i \in Overdue'
       PROVE  i \in Overdue \/ (i \in skipped /\ walk.cursor \notin items \cup {0})
  <2>1. /\ i \in items /\ i \in walk'.must /\ i \notin walk.seen /\ i \notin page
        /\ walk'.state = "walking" => i >= walk'.cursor
    BY <1>3, <1>12
  <2>2. CASE i \in skipped
    <3>1. CASE walk.cursor \in items \cup {0}
      <4>1. i = walk.cursor
        BY <1>2, <2>2, <3>1 DEF Shows
      <4>2. walk.cursor # 0
        BY <1>1, <2>1, <4>1
      <4> QED
        BY <1>6, <2>1, <4>1, <4>2 DEF Onward
    <3> QED
      BY <2>2, <3>1
  <2>3. CASE walk.cursor # 0 /\ i > walk.cursor
    <3>1. i \in walk.must /\ i \in Items(walk)
      BY <1>3, <2>1, <2>3 DEF items
    <3>2. i >= walk.cursor
      BY <1>1, <1>a, <2>1, <2>3
    <3> QED
      BY <2>1, <3>1, <3>2 DEF Overdue
  <2>4. CASE Cardinality(rows) > Limit /\ \A j \in page : i < j
    <3>1. walk'.state = "walking" /\ page # {} /\ walk'.cursor = low /\ low \in page
      BY <1>2, <1>3, <1>4, <2>4 DEF Shows
    <3>2. i >= low /\ i < low /\ i \in Nat /\ low \in Nat
      BY <1>1, <1>5, <2>1, <2>4, <3>1
    <3> QED
      BY <3>2
  <2> QED
    BY <1>2, <2>1, <2>2, <2>3, <2>4 DEF Shows
<1>14. IsFiniteSet(Overdue) /\ Cardinality(Overdue) \in Nat /\ Cardinality(Overdue) <= walk.slips
  BY OwedIsFinite DEF Pages
<1>15. Cardinality(Overdue') <= walk'.slips
  <2>1. CASE walk.cursor \in items \cup {0}
    <3>1. Overdue' \in SUBSET Overdue
      BY <1>13, <2>1
    <3>2. IsFiniteSet(Overdue') /\ Cardinality(Overdue') <= Cardinality(Overdue)
      BY <1>14, <3>1, FS_Subset
    <3>3. Cardinality(Overdue') \in Nat
      BY <3>2, FS_CardinalityType
    <3> QED
      BY <1>3, <1>5, <1>14, <2>1, <3>2, <3>3
  <2>2. CASE walk.cursor \notin items \cup {0}
    <3>1. Overdue' \in SUBSET (Overdue \cup skipped)
      BY <1>13
    <3>2. /\ IsFiniteSet(skipped) /\ Cardinality(skipped) <= 1 /\ Cardinality(skipped) \in Nat
      BY <1>2, FS_CardinalityType DEF Shows
    <3>3. /\ IsFiniteSet(Overdue \cup skipped)
          /\ Cardinality(Overdue \cup skipped) =
                Cardinality(Overdue) + Cardinality(skipped) - Cardinality(Overdue \cap skipped)
      BY <1>14, <3>2, FS_Union
    <3>4. Cardinality(Overdue \cap skipped) \in Nat
      <4>1. Overdue \cap skipped \in SUBSET Overdue
        OBVIOUS
      <4> QED
        BY <1>14, <4>1, FS_Subset, FS_CardinalityType
    <3>5. Cardinality(Overdue \cup skipped) <= Cardinality(Overdue) + 1
      BY <1>14, <3>2, <3>3, <3>4
    <3>6. IsFiniteSet(Overdue') /\ Cardinality(Overdue') <= Cardinality(Overdue \cup skipped)
      BY <3>1, <3>3, FS_Subset
    <3>7. Cardinality(Overdue') \in Nat /\ Cardinality(Overdue \cup skipped) \in Nat
      BY <3>3, <3>6, FS_CardinalityType
    <3>8. walk'.slips = walk.slips + 1
      BY <1>3, <2>2
    <3> QED
      BY <1>5, <1>14, <3>5, <3>6, <3>7, <3>8
  <2> QED
    BY <2>1, <2>2
<1>16. IsFiniteSet(walk'.must)
  BY <1>1, <1>3, <1>6
<1> QED
  BY <1>8, <1>9, <1>10, <1>11, <1>15, <1>16 DEF Pages

LEMMA PagesStep ==
    ASSUME Inv, Inv', Ordered, Pages, [Next]_vars
    PROVE  Pages'
<1>1. ASSUME walk' = walk PROVE Pages'
  BY <1>1, OrderedStep, PagesStay
<1>2. NoWalk \in WalkRecord
  BY DEF NoWalk, WalkRecord
<1>3. ASSUME NEW d \in Doc, BeginHistory(d) PROVE Pages'
  <2> DEFINE w == [NoWalk EXCEPT !.state = "walking", !.of = d]
  <2>1. w \in WalkRecord /\ w.cursor = 0 /\ w.seen = {} /\ w.must = {} /\ w.slips = 0
        /\ w.again = FALSE
    BY <1>2 DEF NoWalk, WalkRecord
  <2>2. walk' = w
    BY <1>3 DEF BeginHistory
  <2> HIDE DEF w
  <2> QED
    BY <2>1, <2>2, WalksBegin
<1>4. ASSUME NEW filter \in {"all", "DRAFT"}, BeginList(filter) PROVE Pages'
  <2> DEFINE w == [NoWalk EXCEPT !.state = "walking", !.filter = filter]
  <2>1. w \in WalkRecord /\ w.cursor = 0 /\ w.seen = {} /\ w.must = {} /\ w.slips = 0
        /\ w.again = FALSE
    BY <1>2 DEF NoWalk, WalkRecord
  <2>2. walk' = w
    BY <1>4 DEF BeginList
  <2> HIDE DEF w
  <2> QED
    BY <2>1, <2>2, WalksBegin
<1>5. ASSUME NEW d \in Doc,
             \/ \E u \in Uploader, o \in Org, f \in File : Click(u, d, o, f)
             \/ Serve(d) \/ Answer(d) \/ AnswerGarbled(d) \/ Disconnect(d)
             \/ Send(d) \/ Complete(d) \/ PutFinal(d) \/ RecordFinal(d)
      PROVE  walk' = walk
  BY <1>5 DEF Click, Serve, CheckUpload, PutObject, InsertRow, RecordUpload, Statement,
     Answer, AnswerGarbled, Disconnect, Send, Complete, Move, PutFinal, RecordFinal
<1>6. CASE UNCHANGED vars
  BY <1>1, <1>6 DEF vars
<1> QED
  BY <1>1, <1>3, <1>4, <1>5, <1>6, TurnsThePage DEF Next

(* A reader of a list is shown nothing twice and nothing of another        *)
(* organization, and at its last page has been shown all that stayed in    *)
(* the list, but for one document for each time that the row of its cursor *)
(* had left the list (a cursor of findMany, and skip: 1).                  *)
THEOREM WalksAreFaithful == Spec => []WalkIsFaithful
<1>1. Init => Ordered
  <2> SUFFICES ASSUME Init PROVE Ordered
    OBVIOUS
  <2>1. Old \in 0..MaxDocs /\ None # Home
    BY DocumentAssumption
  <2>2. \A d \in Doc : NewRow(d, Home) # NoRow
    <3>1. \A d : NewRow(d, Home).org = Home /\ NoRow.org = None
      BY DEF NewRow, NoRow
    <3> QED
      BY <2>1, <3>1
  <2>0. \A d \in Doc : row[d] = IF d <= Old THEN NewRow(d, Home) ELSE NoRow
    BY DEF Init
  <2>3. Rows = 1..Old
    <3>1. \A d \in Doc : d \in Rows <=> d <= Old
      BY <2>0, <2>2 DEF Rows
    <3>2. Rows \subseteq Doc
      BY DEF Rows
    <3>3. \A d : d \in 1..Old <=> d \in Doc /\ d <= Old
      BY <2>1, DocumentAssumption DEF Doc
    <3> QED
      BY <3>1, <3>2, <3>3
  <2>4. Cardinality(Rows) = Old
    BY <2>1, <2>3, FS_Interval
  <2>5. \A d \in Rows : row[d].stamp \in 1..Cardinality(Rows)
    <3> SUFFICES ASSUME NEW d \in 1..Old PROVE row[d].stamp \in 1..Old
      BY <2>3, <2>4
    <3>1. d \in Doc /\ d <= Old
      BY <2>1, DocumentAssumption DEF Doc
    <3>2. row[d] = NewRow(d, Home)
      BY <2>0, <3>1
    <3> QED
      BY <3>2 DEF NewRow
  <2>6. \A d \in Doc : upload[d].step \in Early => row[d] = NoRow
    BY <2>1 DEF Init, OldUpload, NoUpload, Early
  <2> QED
    BY <2>5, <2>6 DEF Ordered
<1>2. Init => Pages
  <2> SUFFICES ASSUME Init PROVE Pages
    OBVIOUS
  <2>1. walk = NoWalk
    BY DEF Init
  <2>2. Overdue = {}
    BY <2>1 DEF Overdue, NoWalk
  <2> QED
    BY <2>1, <2>2, FS_EmptySet DEF Pages, Known, Onward, NoWalk, WalkRecord
<1>3. Inv /\ Inv' /\ Ordered /\ Pages /\ [Next]_vars => Ordered' /\ Pages'
  BY OrderedStep, PagesStep
<1>4. Pages => WalkIsFaithful
  <2> SUFFICES ASSUME Pages PROVE WalkIsFaithful
    OBVIOUS
  <2>1. walk.state = "done" => Overdue = (walk.must \cap Items(walk)) \ walk.seen
    BY DEF Overdue
  <2> QED
    BY <2>1 DEF Pages, Known, WalkIsFaithful
<1> QED
  BY <1>1, <1>2, <1>3, <1>4, InvCorrect, PTL DEF Spec
=============================================================================
