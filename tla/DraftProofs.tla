----------------------------- MODULE DraftProofs -----------------------------
(***************************************************************************)
(* Theorems about the editing of a draft, in the API and in the browser.   *)
(*                                                                         *)
(* DraftEditing, for any number of recipients, fields and concurrent       *)
(* calls: what holds for every interleaving, and that calls which never    *)
(* write over a change that came after their checks leave no field with    *)
(* somebody who does not sign or off its page, send a document complete    *)
(* and leave it as it was sent.                                            *)
(*                                                                         *)
(* EditorView, for any number of fields, mutations and renderings: what    *)
(* gestures, answers, other editors and renderings may do to each other,   *)
(* and that an undisturbed editor sees what is stored.                     *)
(***************************************************************************)
EXTENDS DraftOverlap, EditorView, TLAPS, FiniteSetTheorems

\* The four ways in which a call moves on without writing a table.
LEMMA ReturnKeepsTypes ==
  ASSUME TypeOK, NEW c \in Call, Return(c), TablesOK',
         lost' \subseteq Changes, crashes' \in 0..MaxCrashes
  PROVE  TypeOK'
<1>1. NoArgs \in ArgsRecord
  BY DraftAssumption DEF NoArgs, ArgsRecord, AnyPatch
<1> QED
  BY <1>1 DEF TypeOK, Return, Goto, Steps, InputsFit

LEMMA RejectKeepsTypes ==
  ASSUME TypeOK, NEW c \in Call, Reject(c)
  PROVE  TypeOK'
BY ReturnKeepsTypes DEF TypeOK, TablesOK, tables, Reject

LEMMA GotoKeepsTypes ==
  ASSUME TypeOK, NEW c \in Call, NEW step \in Steps, Goto(c, step), TablesOK',
         NEW a \in ArgsRecord, args' = [args EXCEPT ![c] = a],
         InputsFit(step, a), UNCHANGED <<lost, crashes>>
  PROVE  TypeOK'
BY DEF TypeOK, Goto

LEMMA ProceedKeepsTypes ==
  ASSUME TypeOK, NEW c \in Call, NEW step \in Steps, Proceed(c, step),
         InputsFit(step, args[c])
  PROVE  TypeOK'
<1>1. args[c] \in ArgsRecord /\ args' = [args EXCEPT ![c] = args[c]]
  BY DEF TypeOK, Proceed
<1>2. TablesOK'
  BY DEF TypeOK, TablesOK, tables, Proceed
<1> QED
  BY <1>1, <1>2, GotoKeepsTypes DEF Proceed

LEMMA BeginKeepsTypes ==
  ASSUME TypeOK, NEW c \in Call, NEW step \in Steps, NEW a \in ArgsRecord,
         Begin(c, step, a), InputsFit(step, a)
  PROVE  TypeOK'
<1>1. TablesOK'
  BY DEF TypeOK, TablesOK, tables, Begin
<1> QED
  BY <1>1, GotoKeepsTypes DEF Begin

\* A write of a patch, whole or in part, leaves well-formed fields.
LEMMA PatchedTyped ==
  ASSUME TablesOK, NEW fs \in SUBSET Field, NEW patch \in AnyPatch
  PROVE  Patched(fs, patch) \in [Field -> FieldRecord]
<1>1. patch.owner \in Recipient \cup {Keep, NoRecipient}
      /\ patch.left \in Left \cup {Keep} /\ patch.width \in Width \cup {Keep}
  BY DEF AnyPatch
<1> SUFFICES ASSUME NEW f \in Field PROVE Patched(fs, patch)[f] \in FieldRecord
  BY DEF Patched
<1>2. field[f] \in FieldRecord
  BY DEF TablesOK
<1>3. /\ Given(patch.owner, field[f].owner) \in Recipient \cup {NoRecipient}
      /\ Given(patch.left, field[f].left) \in Left \cup {0}
      /\ Given(patch.width, field[f].width) \in Width \cup {0}
  BY <1>1, <1>2 DEF Given, FieldRecord
<1> QED
  BY <1>2, <1>3 DEF Patched, FieldRecord

LEMMA WriteFieldsKeepsTypes ==
  ASSUME TypeOK, NEW c \in Call, NEW patch \in AnyPatch, WriteFields(c, patch)
  PROVE  TypeOK'
<1>1. args[c] \in ArgsRecord
  BY DEF TypeOK
<1>2. TablesOK'
  BY <1>1, PatchedTyped DEF TypeOK, TablesOK, WriteFields, ArgsRecord
<1> DEFINE a == [args[c] EXCEPT !.who = NoRecipient]
<1>3. a \in ArgsRecord /\ args' = [args EXCEPT ![c] = a]
  BY <1>1 DEF WriteFields, ArgsRecord
<1>4. "audit" \in Steps /\ InputsFit("audit", a)
  BY DEF Steps, InputsFit
<1> QED
  BY <1>2, <1>3, <1>4, GotoKeepsTypes DEF WriteFields

\* The inputs with which the calls begin.
LEMMA BeginCallKeepsTypes ==
  ASSUME TypeOK, NEW c \in Call, BeginCall(c)
  PROVE  TypeOK'
<1>0. NoArgs \in ArgsRecord
  BY DraftAssumption DEF NoArgs, ArgsRecord, AnyPatch
<1>r. \A body \in AnyRole : RoleOf(body) \in {"SIGNER", "CC"}
  BY DEF AnyRole, RoleOf
<1>1. ASSUME NEW q \in AnyRole, BeginCreateRecipient(c, q) PROVE TypeOK'
  BY <1>0, <1>r, <1>1, BeginKeepsTypes
     DEF BeginCreateRecipient, ArgsRecord, Steps, InputsFit
<1>2. ASSUME NEW q \in AnyRole, NEW r \in Recipient, BeginUpdateRecipient(c, r, q)
      PROVE  TypeOK'
  BY <1>0, <1>r, <1>2, BeginKeepsTypes
     DEF BeginUpdateRecipient, ArgsRecord, Steps, InputsFit
<1>3. ASSUME NEW r \in Recipient, BeginRemoveRecipient(c, r) PROVE TypeOK'
  BY <1>0, <1>3, BeginKeepsTypes
     DEF BeginRemoveRecipient, ArgsRecord, Steps, InputsFit
<1>4. ASSUME NEW r \in Recipient, NEW x \in Left, NEW w \in Width,
             BeginCreateField(c, r, x, w)
      PROVE  TypeOK'
  <2> DEFINE a == [NoArgs EXCEPT !.who = r,
                       !.patch = [owner |-> r, left |-> x, width |-> w]]
  <2>1. a.patch = [owner |-> r, left |-> x, width |-> w]
    BY DEF NoArgs
  <2>2. a \in ArgsRecord
    BY <1>0 DEF ArgsRecord, AnyPatch
  <2>3. "checkSigner" \in Steps /\ InputsFit("checkSigner", a)
    BY <2>1 DEF Steps, InputsFit
  <2> QED
    BY <1>4, <2>2, <2>3, BeginKeepsTypes DEF BeginCreateField
<1>5. ASSUME NEW r \in Recipient, NEW fs \in SUBSET Field, BeginBulkAssign(c, fs, r)
      PROVE  TypeOK'
  BY <1>0, <1>5, BeginKeepsTypes
     DEF BeginBulkAssign, ArgsRecord, Steps, InputsFit
<1>6. ASSUME NEW f \in Field, BeginRemoveField(c, f) PROVE TypeOK'
  BY <1>0, <1>6, BeginKeepsTypes
     DEF BeginRemoveField, ArgsRecord, Steps, InputsFit
<1>7. ASSUME NEW f \in Field, NEW patch \in Patch, BeginUpdateField(c, f, patch)
      PROVE  TypeOK'
  <2> DEFINE a == [NoArgs EXCEPT !.what = {f}, !.patch = patch]
  <2>1. a \in ArgsRecord
    BY <1>0, DraftAssumption DEF ArgsRecord
  <2>2. "findField" \in Steps /\ InputsFit("findField", a)
    BY DEF Steps, InputsFit, NoArgs
  <2> QED
    BY <1>7, <2>1, <2>2, BeginKeepsTypes DEF BeginUpdateField
<1>8. ASSUME BeginSend(c) PROVE TypeOK'
  BY <1>0, <1>8, BeginKeepsTypes DEF BeginSend, Steps, InputsFit
<1> QED
  BY <1>1, <1>2, <1>3, <1>4, <1>5, <1>6, <1>7, <1>8 DEF BeginCall

\* Every statement of a call, and its death.
LEMMA ProgressKeepsTypes ==
  ASSUME TypeOK, NEW c \in Call, Progress(c) \/ Crash(c)
  PROVE  TypeOK'
<1>0. args[c] \in ArgsRecord /\ InputsFit(pc[c], args[c]) /\ TablesOK
  BY DEF TypeOK
<1>a. ASSUME Reject(c) PROVE TypeOK'
  BY <1>a, RejectKeepsTypes
<1>b. ASSUME NEW step \in Steps \ {"checkSigner", "insertField", "findField"},
             Proceed(c, step)
      PROVE  TypeOK'
  BY <1>b, ProceedKeepsTypes DEF InputsFit
<1>c. ASSUME Goto(c, "audit"), TablesOK', args' = args, UNCHANGED <<lost, crashes>>
      PROVE  TypeOK'
  BY <1>c, <1>0 DEF TypeOK, Goto, Steps, InputsFit
<1>1. ASSUME InsertRecipient(c) PROVE TypeOK'
  <2>1. ASSUME NEW r \in Recipient, role' = [role EXCEPT ![r] = args[c].role],
               args' = [args EXCEPT ![c].who = r], Goto(c, "audit"),
               UNCHANGED <<document, field, requests, lost, crashes>>
        PROVE  TypeOK'
    <3> DEFINE a == [args[c] EXCEPT !.who = r]
    <3>1. TablesOK'
      BY <1>0, <2>1 DEF TablesOK, ArgsRecord
    <3>2. a \in ArgsRecord /\ args' = [args EXCEPT ![c] = a]
      BY <1>0, <2>1 DEF ArgsRecord
    <3>3. "audit" \in Steps /\ InputsFit("audit", a)
      BY DEF Steps, InputsFit
    <3> QED
      BY <2>1, <3>1, <3>2, <3>3, GotoKeepsTypes
  <2> QED
    BY <1>1, <1>a, <2>1 DEF InsertRecipient
<1>2. ASSUME FindRecipient(c) PROVE TypeOK'
  BY <1>2, <1>a, <1>b DEF FindRecipient, Steps
<1>3. ASSUME CountFields(c) PROVE TypeOK'
  BY <1>3, <1>a, <1>b DEF CountFields, Steps
<1>4. ASSUME UpdateRecipient(c) PROVE TypeOK'
  <2>1. CASE ~Reject(c)
    <3>1. TablesOK'
      BY <1>0, <1>4, <2>1 DEF UpdateRecipient, TablesOK, ArgsRecord
    <3> QED
      BY <1>4, <1>c, <2>1, <3>1 DEF UpdateRecipient
  <2> QED
    BY <1>a, <2>1
<1>5. ASSUME FindRemoved(c) PROVE TypeOK'
  BY <1>5, <1>a, <1>b DEF FindRemoved, Steps
<1>6. ASSUME DeleteRecipient(c) PROVE TypeOK'
  <2>1. CASE ~Reject(c)
    <3>1. Orphaned(args[c].who) \in [Field -> FieldRecord]
      BY <1>0 DEF Orphaned, TablesOK, FieldRecord
    <3>2. TablesOK'
      BY <1>0, <1>6, <2>1, <3>1 DEF DeleteRecipient, TablesOK
    <3> QED
      BY <1>6, <1>c, <2>1, <3>2 DEF DeleteRecipient
  <2> QED
    BY <1>a, <2>1
<1>7. ASSUME CheckSigner(c) PROVE TypeOK'
  <2>1. CASE Proceed(c, "insertField") /\ args[c].what = {}
    <3>1. InputsFit("insertField", args[c])
      BY <1>0, <1>7, <2>1 DEF InputsFit, CheckSigner
    <3> QED
      BY <2>1, <3>1, ProceedKeepsTypes DEF Steps
  <2> QED
    BY <1>7, <1>a, <1>b, <2>1 DEF CheckSigner, Steps
<1>8. ASSUME InsertField(c) PROVE TypeOK'
  <2>1. ASSUME NEW f \in Field,
               field' = [field EXCEPT ![f] =
                  [state |-> "PLACED", owner |-> args[c].patch.owner,
                   left |-> args[c].patch.left, width |-> args[c].patch.width]],
               args' = [args EXCEPT ![c].what = {f}, ![c].who = NoRecipient],
               Goto(c, "audit"),
               UNCHANGED <<document, role, requests, lost, crashes>>
        PROVE  TypeOK'
    <3> DEFINE a == [args[c] EXCEPT !.what = {f}, !.who = NoRecipient]
    <3>1. args[c].patch \in [owner : Recipient, left : Left, width : Width]
      BY <1>0, <1>8 DEF InputsFit, InsertField
    <3>2. TablesOK'
      BY <1>0, <2>1, <3>1 DEF TablesOK, FieldRecord
    <3>3. a \in ArgsRecord /\ args' = [args EXCEPT ![c] = a]
      BY <1>0, <2>1 DEF ArgsRecord, TypeOK
    <3>4. "audit" \in Steps /\ InputsFit("audit", a)
      BY DEF Steps, InputsFit
    <3> QED
      BY <2>1, <3>2, <3>3, <3>4, GotoKeepsTypes
  <2> QED
    BY <1>8, <1>a, <2>1 DEF InsertField
<1>9. ASSUME FindField(c) PROVE TypeOK'
  <2> DEFINE f == CHOOSE g \in args[c].what : TRUE
             r == MergedOwner(args[c].patch, field[f])
             a == [args[c] EXCEPT !.who = r]
  <2>1. args[c].what # {} /\ f \in Field
    BY <1>0, <1>9 DEF InputsFit, FindField, ArgsRecord
  <2>2. r \in Recipient \cup {NoRecipient}
    BY <1>0, <2>1 DEF MergedOwner, TablesOK, FieldRecord
  <2>3. CASE Goto(c, "checkSigner") /\ args' = [args EXCEPT ![c].who = r]
             /\ UNCHANGED <<tables, lost, crashes>>
    <3>1. a \in ArgsRecord /\ args' = [args EXCEPT ![c] = a]
      BY <1>0, <2>2, <2>3 DEF ArgsRecord, TypeOK
    <3>2. "checkSigner" \in Steps /\ InputsFit("checkSigner", a)
      BY <2>1 DEF Steps, InputsFit
    <3>3. TablesOK'
      BY <1>0, <2>3 DEF TablesOK, tables
    <3> QED
      BY <2>3, <3>1, <3>2, <3>3, GotoKeepsTypes
  <2> QED
    BY <1>9, <1>a, <2>3 DEF FindField
<1>10. ASSUME UpdateField(c) PROVE TypeOK'
  BY <1>0, <1>10, <1>a, WriteFieldsKeepsTypes DEF UpdateField, ArgsRecord
<1>11. ASSUME CheckBulk(c) PROVE TypeOK'
  BY <1>11, <1>a, <1>b DEF CheckBulk, Steps
<1>12. ASSUME ListFields(c) PROVE TypeOK'
  BY <1>12, <1>a, <1>b DEF ListFields, Steps
<1>13. ASSUME AssignFields(c) PROVE TypeOK'
  <2>1. [owner |-> args[c].who, left |-> Keep, width |-> Keep] \in AnyPatch
    BY <1>0 DEF ArgsRecord, AnyPatch
  <2> QED
    BY <1>13, <1>a, <2>1, WriteFieldsKeepsTypes DEF AssignFields
<1>14. ASSUME FindRemovedField(c) PROVE TypeOK'
  BY <1>14, <1>a, <1>b DEF FindRemovedField, Steps
<1>15. ASSUME DeleteField(c) PROVE TypeOK'
  <2>1. CASE ~Reject(c)
    <3>0. [NoField EXCEPT !.state = "DELETED"] \in FieldRecord
      BY DEF NoField, FieldRecord
    <3>1. TablesOK'
      BY <1>0, <1>15, <2>1, <3>0 DEF DeleteField, TablesOK
    <3> QED
      BY <1>15, <1>c, <2>1, <3>1 DEF DeleteField
  <2> QED
    BY <1>a, <2>1
<1>16. ASSUME ReadRecipients(c) PROVE TypeOK'
  <2> DEFINE a == [args[c] EXCEPT !.signers = {r \in Recipient : IsSigner(r)}]
  <2>1. a \in ArgsRecord /\ args' = [args EXCEPT ![c] = a]
    BY <1>0, <1>16 DEF ReadRecipients, ArgsRecord, TypeOK
  <2>2. "readFields" \in Steps /\ InputsFit("readFields", a)
    BY DEF Steps, InputsFit
  <2>3. TablesOK'
    BY <1>0, <1>16 DEF ReadRecipients, TablesOK, tables
  <2> QED
    BY <1>16, <2>1, <2>2, <2>3, GotoKeepsTypes DEF ReadRecipients
<1>17. ASSUME ReadFields(c) PROVE TypeOK'
  BY <1>17, <1>a, <1>b DEF ReadFields, Steps
<1>18. ASSUME Send(c) PROVE TypeOK'
  <2>1. CASE ~Reject(c)
    <3>1. TablesOK'
      BY <1>0, <1>18, <2>1 DEF Send, TablesOK, ArgsRecord
    <3> QED
      BY <1>18, <2>1, <3>1, ReturnKeepsTypes DEF Send, TypeOK
  <2> QED
    BY <1>a, <2>1
<1>d. Change(c) \in Changes
  BY <1>0 DEF Change, Changes, ArgsRecord
<1>19. ASSUME Audit(c) PROVE TypeOK'
  BY <1>0, <1>19, <1>d, ReturnKeepsTypes DEF Audit, TypeOK, TablesOK, tables
<1>20. ASSUME Crash(c) PROVE TypeOK'
  <2>1. crashes' \in 0..MaxCrashes
    BY <1>20, DraftAssumption DEF Crash, TypeOK
  <2> QED
    BY <1>0, <1>20, <1>d, <2>1, ReturnKeepsTypes DEF Crash, TypeOK, TablesOK, tables
<1> QED
  BY <1>1, <1>2, <1>3, <1>4, <1>5, <1>6, <1>7, <1>8, <1>9, <1>10, <1>11, <1>12,
     <1>13, <1>14, <1>15, <1>16, <1>17, <1>18, <1>19, <1>20 DEF Progress

(* Every variable keeps its type, and a call that inserts a field has all  *)
(* of it: the body of a creation is complete where an update may be        *)
(* partial.                                                                *)
THEOREM TypeCorrect == Spec => []TypeOK
<1>1. Init => TypeOK
  BY DraftAssumption DEF Init, TypeOK, TablesOK, NoField, FieldRecord, NoArgs,
     ArgsRecord, AnyPatch, Steps, InputsFit
<1>2. TypeOK /\ [Next]_vars => TypeOK'
  <2>1. ASSUME TypeOK, UNCHANGED vars PROVE TypeOK'
    BY <2>1 DEF vars, tables, TypeOK, TablesOK
  <2> QED
    BY <2>1, BeginCallKeepsTypes, ProgressKeepsTypes DEF Next, CallStep
<1> QED
  BY <1>1, <1>2, PTL DEF Spec

-----------------------------------------------------------------------------
\* What a patch leaves a field with: the owner it had, none, or the patch's.
LEMMA PatchedOwner ==
  ASSUME TypeOK, NEW fs \in SUBSET Field, NEW patch \in AnyPatch, NEW f \in Field
  PROVE  LET g == Patched(fs, patch)[f] IN
         /\ g.state = field[f].state
         /\ \/ g.owner = field[f].owner
            \/ Placed(f) /\ f \in fs /\ g.owner = patch.owner
               /\ patch.owner \in Recipient \cup {NoRecipient}
<1>1. field[f] \in FieldRecord /\ patch.owner \in Recipient \cup {Keep, NoRecipient}
  BY DEF TypeOK, TablesOK, AnyPatch
<1> QED
  BY <1>1 DEF Patched, Given, FieldRecord

LEMMA ReferencesStep == TypeOK /\ ReferencesIntact /\ [Next]_vars => ReferencesIntact'
<1> SUFFICES ASSUME TypeOK, ReferencesIntact, [Next]_vars PROVE ReferencesIntact'
  OBVIOUS
<1>0. ASSUME UNCHANGED tables PROVE ReferencesIntact'
  BY <1>0 DEF tables, ReferencesIntact, Exists
<1>1. ASSUME NEW c \in Call, InsertRecipient(c) PROVE ReferencesIntact'
  <2>1. CASE Reject(c)
    BY <2>1, <1>0 DEF Reject
  <2>2. CASE ~Reject(c)
    <3>1. args[c].role \in {"SIGNER", "CC"}
      BY DEF TypeOK, ArgsRecord
    <3>2. \A r \in Recipient : Exists(r) => Exists(r)'
      BY <1>1, <2>2, <3>1 DEF InsertRecipient, Exists, TypeOK, TablesOK
    <3> QED
      BY <1>1, <2>2, <3>2 DEF InsertRecipient, ReferencesIntact, Exists
  <2> QED
    BY <2>1, <2>2
<1>2. ASSUME NEW c \in Call, UpdateRecipient(c) PROVE ReferencesIntact'
  <2>1. CASE Reject(c)
    BY <2>1, <1>0 DEF Reject
  <2>2. CASE ~Reject(c)
    <3>1. args[c].role \in {"SIGNER", "CC"}
      BY DEF TypeOK, ArgsRecord
    <3>2. \A r \in Recipient : Exists(r) => Exists(r)'
      BY <1>2, <2>2, <3>1 DEF UpdateRecipient, Exists, TypeOK, TablesOK
    <3> QED
      BY <1>2, <2>2, <3>2 DEF UpdateRecipient, ReferencesIntact, Exists
  <2> QED
    BY <2>1, <2>2
<1>3. ASSUME NEW c \in Call, DeleteRecipient(c) PROVE ReferencesIntact'
  <2>1. CASE Reject(c)
    BY <2>1, <1>0 DEF Reject
  <2>2. CASE ~Reject(c)
    <3>1. field' = Orphaned(args[c].who) /\ requests' = requests \ {args[c].who}
          /\ document' = document
      BY <1>3, <2>2 DEF DeleteRecipient
    <3>2. \A r \in Recipient : Exists(r) /\ r # args[c].who => Exists(r)'
      BY <1>3, <2>2 DEF DeleteRecipient, Exists, TypeOK, TablesOK
    <3>3. \A f \in Field : \/ field'[f].owner = NoRecipient
                           \/ /\ field'[f].owner = field[f].owner
                              /\ field[f].owner # args[c].who
      BY <3>1 DEF Orphaned, TypeOK, TablesOK, FieldRecord
    <3> QED
      BY <3>1, <3>2, <3>3 DEF ReferencesIntact, Exists
  <2> QED
    BY <2>1, <2>2
<1>4. ASSUME NEW c \in Call, InsertField(c) PROVE ReferencesIntact'
  <2>1. CASE Reject(c)
    BY <2>1, <1>0 DEF Reject
  <2>2. CASE ~Reject(c)
    <3>1. \A f \in Field : \/ field'[f].owner = field[f].owner
                           \/ /\ field'[f].owner = args[c].patch.owner
                              /\ Exists(args[c].patch.owner)
      <4>1. Exists(args[c].patch.owner)
        BY <1>4, <2>2 DEF InsertField
      <4>2. PICK g \in Field : field' = [field EXCEPT ![g] =
               [state |-> "PLACED", owner |-> args[c].patch.owner,
                left |-> args[c].patch.left, width |-> args[c].patch.width]]
        BY <1>4, <2>2 DEF InsertField
      <4>3. \A f \in Field : f # g => field'[f] = field[f]
        BY <4>2 DEF TypeOK, TablesOK
      <4>4. field'[g].owner = args[c].patch.owner
        BY <4>2 DEF TypeOK, TablesOK
      <4> QED
        BY <4>1, <4>3, <4>4
    <3> QED
      BY <1>4, <2>2, <3>1 DEF InsertField, ReferencesIntact, Exists
  <2> QED
    BY <2>1, <2>2
<1>5. ASSUME NEW c \in Call, NEW patch \in AnyPatch, WriteFields(c, patch),
             \/ patch.owner \in Recipient => Exists(patch.owner)
             \/ \A f \in args[c].what : ~Placed(f)
      PROVE  ReferencesIntact'
  <2>1. args[c].what \in SUBSET Field
    BY DEF TypeOK, ArgsRecord
  <2>2. \A f \in Field : \/ field'[f].owner \in {field[f].owner, NoRecipient}
                         \/ Exists(field'[f].owner)
    BY <1>5, <2>1, PatchedOwner DEF WriteFields
  <2> QED
    BY <1>5, <2>2 DEF WriteFields, ReferencesIntact, Exists
<1>6. ASSUME NEW c \in Call, UpdateField(c) PROVE ReferencesIntact'
  <2>1. args[c].patch \in AnyPatch
    BY DEF TypeOK, ArgsRecord
  <2> QED
    BY <1>6, <2>1, <1>0, <1>5 DEF UpdateField, Reject
<1>7. ASSUME NEW c \in Call, AssignFields(c) PROVE ReferencesIntact'
  <2>1. [owner |-> args[c].who, left |-> Keep, width |-> Keep] \in AnyPatch
    BY DEF TypeOK, ArgsRecord, AnyPatch
  <2> QED
    BY <1>7, <2>1, <1>0, <1>5 DEF AssignFields, Reject
<1>8. ASSUME NEW c \in Call, DeleteField(c) PROVE ReferencesIntact'
  <2>1. CASE Reject(c)
    BY <2>1, <1>0 DEF Reject
  <2>2. CASE ~Reject(c)
    <3>1. \A f \in Field : field'[f].owner \in {field[f].owner, NoRecipient}
      BY <1>8, <2>2 DEF DeleteField, NoField
    <3> QED
      BY <1>8, <2>2, <3>1 DEF DeleteField, ReferencesIntact, Exists
  <2> QED
    BY <2>1, <2>2
<1>9. ASSUME NEW c \in Call, Send(c) PROVE ReferencesIntact'
  <2>1. CASE Reject(c)
    BY <2>1, <1>0 DEF Reject
  <2>2. CASE ~Reject(c)
    BY <1>9, <2>2 DEF Send, ReferencesIntact, Exists
  <2> QED
    BY <2>1, <2>2
<1>10. ASSUME NEW c \in Call, BeginCall(c) PROVE UNCHANGED tables
  BY <1>10 DEF BeginCall, BeginCreateRecipient, BeginUpdateRecipient,
     BeginRemoveRecipient, BeginCreateField, BeginUpdateField, BeginBulkAssign,
     BeginRemoveField, BeginSend, Begin
<1>11. ASSUME NEW c \in Call,
              \/ FindRecipient(c) \/ CountFields(c) \/ FindRemoved(c)
              \/ CheckSigner(c) \/ FindField(c) \/ CheckBulk(c)
              \/ ListFields(c) \/ FindRemovedField(c) \/ ReadRecipients(c)
              \/ ReadFields(c) \/ Audit(c) \/ Crash(c)
       PROVE  UNCHANGED tables
  BY <1>11 DEF FindRecipient, CountFields, FindRemoved, CheckSigner, FindField,
     CheckBulk, ListFields, FindRemovedField, ReadRecipients, ReadFields, Audit,
     Crash, Reject, Proceed
<1> QED
  BY <1>0, <1>1, <1>2, <1>3, <1>4, <1>6, <1>7, <1>8, <1>9, <1>10, <1>11
     DEF Next, CallStep, Progress, vars

(* Whatever was checked while a recipient still existed, no field and no   *)
(* request ever refers to one that does not exist any more.                *)
THEOREM NothingDangles == Spec => []ReferencesIntact
<1>1. Init => ReferencesIntact
  BY DEF Init, ReferencesIntact, NoField
<1> QED
  BY <1>1, ReferencesStep, TypeCorrect, PTL DEF Spec

(* Once the document is sent and the calls let in before have returned,    *)
(* the document, its recipients, fields and requests never change again.   *)
THEOREM SettledStays == Spec => SettledIsFrozen
<1>1. [Next]_vars => [Settled => Settled' /\ UNCHANGED tables]_vars
  <2> SUFFICES ASSUME [Next]_vars, Settled, ~UNCHANGED vars PROVE FALSE
    OBVIOUS
  <2>1. ASSUME NEW c \in Call, BeginCall(c) PROVE FALSE
    BY <2>1 DEF BeginCall, BeginCreateRecipient, BeginUpdateRecipient,
       BeginRemoveRecipient, BeginCreateField, BeginUpdateField,
       BeginBulkAssign, BeginRemoveField, BeginSend, Begin, Editable, Settled
  <2>2. ASSUME NEW c \in Call, Progress(c) \/ Crash(c) PROVE FALSE
    BY <2>2 DEF Settled, Crash, Progress, InsertRecipient, FindRecipient,
       CountFields, UpdateRecipient, FindRemoved, DeleteRecipient, CheckSigner,
       InsertField, FindField, UpdateField, CheckBulk, ListFields,
       AssignFields, FindRemovedField, DeleteField, ReadRecipients, ReadFields,
       Send, Audit
  <2> QED
    BY <2>1, <2>2 DEF Next, CallStep
<1> QED
  BY <1>1, PTL DEF Spec, SettledIsFrozen

-----------------------------------------------------------------------------
(* As long as no stale call writes (DraftOverlap).  What a call that is    *)
(* not stale has found out about a signer is still so when it writes.  (A  *)
(* field that is gone has no owner, so counting the others is enough.)     *)
StillTrue(step, a) ==
    /\ step = "checkSigner" /\ a.patch.owner \in Recipient => a.who = a.patch.owner
    /\ step \in {"insertField", "updateField"} /\ a.patch.owner \in Recipient =>
          IsSigner(a.patch.owner)
    /\ step \in {"listFields", "assignFields"} => IsSigner(a.who)
    /\ step \in {"countFields", "updateRecipient"} => a.who \in Recipient
    /\ step = "updateRecipient" /\ a.role = "CC" =>
          \A f \in Field : field[f].owner # a.who

FreshInv ==
    /\ FieldsOwnedBySigners
    /\ \A f \in Field : ~Placed(f) => field[f].owner = NoRecipient
    /\ \A c \in Call \ stale : StillTrue(pc[c], args[c])

\* While c acts, the others stand still, and those that are not stale
\* afterwards are idle or see tables that have not changed.
OthersRest(c) ==
    \A d \in Call \ stale' : d # c =>
        \/ pc'[d] = "idle"
        \/ tables' = tables /\ pc'[d] = pc[d] /\ args'[d] = args[d] /\ d \notin stale

LEMMA OneActs ==
  ASSUME TypeOK, NEW c \in Call, CallStep(c),
         stale' = UnderWay' \cap (IF Writes THEN stale \cup (Call \ {c}) ELSE stale)
  PROVE  /\ OthersRest(c)
         /\ c \in stale /\ c \notin stale' => pc'[c] = "idle"
<1>1. \A d \in Call : d # c => pc'[d] = pc[d] /\ args'[d] = args[d]
  <2>1. pc \in [Call -> Steps] /\ args \in [Call -> ArgsRecord]
    BY DEF TypeOK
  <2>2. ASSUME NEW d \in Call, d # c PROVE pc'[d] = pc[d]
    <3>1. \E step : Goto(c, step)
      BY DEF CallStep, BeginCall, BeginCreateRecipient, BeginUpdateRecipient,
         BeginRemoveRecipient, BeginCreateField, BeginUpdateField, BeginBulkAssign,
         BeginRemoveField, BeginSend, Begin, Progress, Crash, InsertRecipient,
         FindRecipient, CountFields, UpdateRecipient, FindRemoved, DeleteRecipient,
         CheckSigner, InsertField, FindField, UpdateField, CheckBulk, ListFields,
         AssignFields, FindRemovedField, DeleteField, ReadRecipients, ReadFields, Send,
         Audit, WriteFields, Reject, Return, Proceed
    <3> QED
      BY <2>1, <2>2, <3>1 DEF Goto
  <2>3. ASSUME NEW d \in Call, d # c PROVE args'[d] = args[d]
    BY <2>1, <2>3 DEF CallStep, BeginCall, BeginCreateRecipient, BeginUpdateRecipient,
         BeginRemoveRecipient, BeginCreateField, BeginUpdateField, BeginBulkAssign,
         BeginRemoveField, BeginSend, Begin, Progress, Crash, InsertRecipient,
         FindRecipient, CountFields, UpdateRecipient, FindRemoved, DeleteRecipient,
         CheckSigner, InsertField, FindField, UpdateField, CheckBulk, ListFields,
         AssignFields, FindRemovedField, DeleteField, ReadRecipients, ReadFields, Send,
         Audit, WriteFields, Reject, Return, Proceed
  <2> QED
    BY <2>2, <2>3
<1>2. \A d \in Call : d \notin UnderWay' <=> pc'[d] = "idle"
  BY DEF UnderWay
<1> QED
  BY <1>1, <1>2 DEF OthersRest, Writes

\* A step that writes neither recipients nor fields ...
LEMMA FreshReads ==
  ASSUME FreshInv, NEW c \in Call, OthersRest(c), UNCHANGED <<role, field>>,
         StillTrue(pc'[c], args'[c])
  PROVE  FreshInv'
<1>1. ASSUME NEW d \in Call, d \notin stale' PROVE StillTrue(pc[d], args[d])'
  <2>1. CASE d = c
    BY <2>1 DEF StillTrue, IsSigner
  <2>2. CASE pc'[d] = "idle"
    BY <2>2 DEF StillTrue
  <2>3. CASE tables' = tables /\ pc'[d] = pc[d] /\ args'[d] = args[d] /\ d \notin stale
    <3>1. StillTrue(pc[d], args[d])
      BY <2>3 DEF FreshInv
    <3> QED
      BY <2>3, <3>1 DEF StillTrue, IsSigner
  <2> QED
    BY <1>1, <2>1, <2>2, <2>3 DEF OthersRest
<1>2. FieldsOwnedBySigners' /\ \A f \in Field : Placed(f)' <=> Placed(f)
  BY DEF FreshInv, FieldsOwnedBySigners, IsSigner, Placed
<1> QED
  BY <1>1, <1>2 DEF FreshInv

\* ... and one after which the call has nothing left to write.
LEMMA FreshWrites ==
  ASSUME FreshInv, NEW c \in Call, OthersRest(c), pc'[c] \in {"idle", "audit"},
         FieldsOwnedBySigners',
         \A f \in Field : ~Placed(f)' => field'[f].owner = NoRecipient
  PROVE  FreshInv'
<1>1. ASSUME NEW d \in Call, d \notin stale' PROVE StillTrue(pc[d], args[d])'
  <2>1. CASE d = c \/ pc'[d] = "idle"
    BY <2>1 DEF StillTrue
  <2>2. CASE tables' = tables /\ pc'[d] = pc[d] /\ args'[d] = args[d] /\ d \notin stale
    <3>1. StillTrue(pc[d], args[d]) /\ role' = role /\ field' = field
      BY <2>2 DEF FreshInv, tables
    <3> QED
      BY <2>2, <3>1 DEF StillTrue, IsSigner
  <2> QED
    BY <1>1, <2>1, <2>2 DEF OthersRest
<1> QED
  BY <1>1 DEF FreshInv

LEMMA FreshBegins ==
  ASSUME TypeOK, FreshInv, NEW c \in Call, OthersRest(c), BeginCall(c)
  PROVE  FreshInv'
<1>1. ASSUME NEW step \in Steps, NEW a, Begin(c, step, a), StillTrue(step, a)
      PROVE  FreshInv'
  <2>1. pc'[c] = step /\ args'[c] = a /\ UNCHANGED <<role, field>>
    BY <1>1 DEF Begin, Goto, TypeOK, tables
  <2> QED
    BY <1>1, <2>1, FreshReads
<1>2. ASSUME NEW r \in Recipient, NEW x \in Left, NEW w \in Width,
             BeginCreateField(c, r, x, w)
      PROVE  FreshInv'
  <2> DEFINE a == [NoArgs EXCEPT !.who = r,
                       !.patch = [owner |-> r, left |-> x, width |-> w]]
  <2>1. a.who = r /\ a.patch.owner = r
    BY DEF NoArgs
  <2>2. StillTrue("checkSigner", a) /\ "checkSigner" \in Steps
    BY <2>1 DEF StillTrue, Steps
  <2> QED
    BY <1>1, <1>2, <2>2 DEF BeginCreateField
<1>3. ASSUME NEW step \in Steps \ {"checkSigner", "insertField", "updateField",
                                   "listFields", "assignFields", "countFields",
                                   "updateRecipient"},
             NEW a, Begin(c, step, a)
      PROVE  FreshInv'
  BY <1>1, <1>3 DEF StillTrue
<1> QED
  BY <1>2, <1>3 DEF BeginCall, BeginCreateRecipient, BeginUpdateRecipient,
     BeginRemoveRecipient, BeginUpdateField, BeginBulkAssign, BeginRemoveField,
     BeginSend, Steps

LEMMA FreshProceeds ==
  ASSUME TypeOK, FreshInv, NEW c \in Call, c \notin stale, OthersRest(c),
         Progress(c) \/ Crash(c)
  PROVE  FreshInv'
<1>0. /\ StillTrue(pc[c], args[c]) /\ InputsFit(pc[c], args[c])
      /\ args[c] \in ArgsRecord /\ pc \in [Call -> Steps]
      /\ args \in [Call -> ArgsRecord] /\ field \in [Field -> FieldRecord]
      /\ role \in [Recipient -> {"ABSENT", "SIGNER", "CC", "DELETED"}]
  BY DEF FreshInv, TypeOK, TablesOK
<1>a. ASSUME NEW step \in {"idle", "audit"}, Goto(c, step), UNCHANGED <<role, field>>
      PROVE  FreshInv'
  <2>1. StillTrue(pc'[c], args'[c])
    BY <1>0, <1>a DEF Goto, StillTrue
  <2> QED
    BY <1>a, <2>1, FreshReads
<1>b. ASSUME Reject(c) PROVE FreshInv'
  BY <1>a, <1>b DEF Reject, Return, tables
<1>c. ASSUME NEW step, Proceed(c, step), StillTrue(step, args[c]) PROVE FreshInv'
  BY <1>0, <1>c, FreshReads DEF Proceed, Goto, tables
<1>d. ASSUME NEW step \in {"deleteRecipient", "deleteField", "send"},
             Proceed(c, step)
      PROVE  FreshInv'
  BY <1>c, <1>d DEF StillTrue
<1>1. ASSUME InsertRecipient(c) PROVE FreshInv'
  <2>1. CASE Reject(c)
    BY <1>b, <2>1
  <2>2. CASE ~Reject(c)
    <3>1. PICK r \in Recipient : role[r] = "ABSENT" /\ role' = [role EXCEPT ![r] = args[c].role]
      BY <1>1, <2>2 DEF InsertRecipient
    <3>2. \A q \in Recipient : IsSigner(q) => IsSigner(q)'
      BY <1>0, <3>1 DEF IsSigner
    <3>3. pc'[c] = "audit" /\ field' = field
      BY <1>0, <1>1, <2>2 DEF InsertRecipient, Goto
    <3> QED
      BY <3>2, <3>3, FreshWrites DEF FreshInv, FieldsOwnedBySigners, IsSigner, Placed
  <2> QED
    BY <2>1, <2>2
<1>2. ASSUME FindRecipient(c) PROVE FreshInv'
  <2>1. CASE Proceed(c, "updateRecipient") /\ Exists(args[c].who)
             /\ ~NeedsNoFields(role[args[c].who], args[c].role)
    <3>1. args[c].role = "CC" => ~IsSigner(args[c].who)
      BY <2>1 DEF NeedsNoFields, IsSigner
    <3>2. StillTrue("updateRecipient", args[c])
      BY <2>1, <3>1, DraftAssumption
         DEF StillTrue, FreshInv, FieldsOwnedBySigners, Exists
    <3> QED
      BY <1>c, <2>1, <3>2
  <2> QED
    <3>1. Exists(args[c].who) => StillTrue("countFields", args[c])
      BY DEF StillTrue, Exists
    <3> QED
      BY <1>2, <1>b, <1>c, <2>1, <3>1 DEF FindRecipient
<1>3. ASSUME CountFields(c) PROVE FreshInv'
  <2>1. CASE Proceed(c, "updateRecipient")
             /\ ~ \E f \in Field : Placed(f) /\ field[f].owner = args[c].who
    <3>1. args[c].who \in Recipient
      BY <1>0, <1>3 DEF CountFields, StillTrue
    <3>2. \A f \in Field : field[f].owner # args[c].who
      BY <2>1, <3>1, DraftAssumption DEF FreshInv
    <3>3. StillTrue("updateRecipient", args[c])
      BY <3>1, <3>2 DEF StillTrue
    <3> QED
      BY <1>c, <2>1, <3>3
  <2> QED
    BY <1>3, <1>b, <2>1 DEF CountFields
<1>4. ASSUME UpdateRecipient(c) PROVE FreshInv'
  <2>1. CASE Reject(c)
    BY <1>b, <2>1
  <2>2. CASE ~Reject(c)
    <3>1. /\ role' = [role EXCEPT ![args[c].who] = args[c].role]
          /\ pc'[c] = "audit" /\ field' = field
      BY <1>0, <1>4, <2>2 DEF UpdateRecipient, Goto
    <3>2. \A f \in Field : field[f].owner = args[c].who /\ field[f].owner # NoRecipient
                             => args[c].role = "SIGNER"
      BY <1>0, <1>4 DEF StillTrue, UpdateRecipient, ArgsRecord
    <3>3. FieldsOwnedBySigners'
      BY <1>0, <3>1, <3>2 DEF FreshInv, FieldsOwnedBySigners, IsSigner
    <3> QED
      BY <3>1, <3>3, FreshWrites DEF FreshInv, Placed
  <2> QED
    BY <2>1, <2>2
<1>5. ASSUME FindRemoved(c) PROVE FreshInv'
  BY <1>5, <1>b, <1>d DEF FindRemoved
<1>6. ASSUME DeleteRecipient(c) PROVE FreshInv'
  <2>1. CASE Reject(c)
    BY <1>b, <2>1
  <2>2. CASE ~Reject(c)
    <3>1. /\ role' = [role EXCEPT ![args[c].who] = "DELETED"]
          /\ pc'[c] = "audit" /\ field' = Orphaned(args[c].who)
      BY <1>0, <1>6, <2>2 DEF DeleteRecipient, Goto
    <3>2. \A f \in Field : /\ field'[f].state = field[f].state
                           /\ \/ field'[f].owner = NoRecipient
                              \/ /\ field'[f].owner = field[f].owner
                                 /\ field[f].owner # args[c].who
      BY <1>0, <3>1 DEF Orphaned, FieldRecord
    <3>3. FieldsOwnedBySigners'
      BY <1>0, <3>1, <3>2 DEF FreshInv, FieldsOwnedBySigners, IsSigner
    <3> QED
      BY <3>1, <3>2, <3>3, FreshWrites DEF FreshInv, Placed
  <2> QED
    BY <2>1, <2>2
<1>7. ASSUME CheckSigner(c) PROVE FreshInv'
  <2>1. ASSUME NEW step \in {"insertField", "updateField"}, Proceed(c, step),
               IsSigner(args[c].who)
        PROVE  FreshInv'
    <3>1. StillTrue(step, args[c])
      BY <1>0, <1>7, <2>1 DEF StillTrue, CheckSigner
    <3> QED
      BY <1>c, <2>1, <3>1
  <2> QED
    BY <1>7, <1>b, <2>1 DEF CheckSigner
<1>8. ASSUME InsertField(c) PROVE FreshInv'
  <2>1. CASE Reject(c)
    BY <1>b, <2>1
  <2>2. CASE ~Reject(c)
    <3>1. PICK g \in Field : field' = [field EXCEPT ![g] =
             [state |-> "PLACED", owner |-> args[c].patch.owner,
              left |-> args[c].patch.left, width |-> args[c].patch.width]]
      BY <1>8, <2>2 DEF InsertField
    <3>2. args[c].patch.owner \in Recipient
      BY <1>0, <1>8 DEF InsertField, InputsFit
    <3>3. IsSigner(args[c].patch.owner)
      BY <1>0, <1>8, <3>2 DEF InsertField, StillTrue
    <3>4. \A f \in Field : f # g => field'[f] = field[f]
      BY <1>0, <3>1
    <3>5. field'[g].owner = args[c].patch.owner /\ field'[g].state = "PLACED"
      BY <1>0, <3>1
    <3>6. pc'[c] = "audit" /\ role' = role
      BY <1>0, <1>8, <2>2 DEF InsertField, Goto
    <3>7. FieldsOwnedBySigners'
      BY <3>3, <3>4, <3>5, <3>6 DEF FreshInv, FieldsOwnedBySigners, IsSigner
    <3> QED
      BY <3>4, <3>5, <3>6, <3>7, FreshWrites DEF FreshInv, Placed
  <2> QED
    BY <2>1, <2>2
<1>9. ASSUME FindField(c) PROVE FreshInv'
  <2> DEFINE f == CHOOSE g \in args[c].what : TRUE
             r == MergedOwner(args[c].patch, field[f])
  <2>1. CASE Goto(c, "checkSigner") /\ args' = [args EXCEPT ![c].who = r]
             /\ UNCHANGED <<tables, lost, crashes>>
    <3>1. args'[c].who = r /\ args'[c].patch = args[c].patch
      BY <1>0, <2>1 DEF ArgsRecord
    <3>2. args[c].patch.owner \in Recipient => r = args[c].patch.owner
      BY DEF MergedOwner
    <3>3. StillTrue("checkSigner", args'[c])
      BY <3>1, <3>2 DEF StillTrue
    <3>4. pc'[c] = "checkSigner" /\ UNCHANGED <<role, field>>
      BY <1>0, <2>1 DEF Goto, tables
    <3> QED
      BY <3>3, <3>4, FreshReads
  <2> QED
    BY <1>9, <1>b, <2>1 DEF FindField
<1>e. ASSUME NEW patch \in AnyPatch, WriteFields(c, patch),
             patch.owner \in Recipient => IsSigner(patch.owner)
      PROVE  FreshInv'
  <2>1. field' = Patched(args[c].what, patch) /\ pc'[c] = "audit" /\ role' = role
    BY <1>0, <1>e DEF WriteFields, Goto
  <2>2. args[c].what \in SUBSET Field
    BY <1>0 DEF ArgsRecord
  <2>3. \A f \in Field :
           /\ field'[f].state = field[f].state
           /\ \/ field'[f].owner = field[f].owner
              \/ Placed(f) /\ (field'[f].owner # NoRecipient => IsSigner(field'[f].owner))
    BY <1>e, <2>1, <2>2, PatchedOwner
  <2>4. FieldsOwnedBySigners'
    BY <2>1, <2>3 DEF FreshInv, FieldsOwnedBySigners, IsSigner
  <2> QED
    BY <2>1, <2>3, <2>4, FreshWrites DEF FreshInv, Placed
<1>10. ASSUME UpdateField(c) PROVE FreshInv'
  <2>1. args[c].patch \in AnyPatch
    BY <1>0 DEF ArgsRecord
  <2>2. args[c].patch.owner \in Recipient => IsSigner(args[c].patch.owner)
    BY <1>0, <1>10 DEF UpdateField, StillTrue
  <2> QED
    BY <1>10, <1>b, <1>e, <2>1, <2>2 DEF UpdateField
<1>11. ASSUME CheckBulk(c) PROVE FreshInv'
  <2>1. IsSigner(args[c].who) => StillTrue("listFields", args[c])
    BY DEF StillTrue
  <2> QED
    BY <1>11, <1>b, <1>c, <2>1 DEF CheckBulk
<1>12. ASSUME ListFields(c) PROVE FreshInv'
  <2>1. StillTrue("assignFields", args[c])
    BY <1>0, <1>12 DEF ListFields, StillTrue
  <2> QED
    BY <1>12, <1>b, <1>c, <2>1 DEF ListFields
<1>13. ASSUME AssignFields(c) PROVE FreshInv'
  <2> DEFINE patch == [owner |-> args[c].who, left |-> Keep, width |-> Keep]
  <2>1. patch \in AnyPatch
    BY <1>0 DEF ArgsRecord, AnyPatch
  <2>2. IsSigner(patch.owner)
    BY <1>0, <1>13 DEF AssignFields, StillTrue
  <2> QED
    BY <1>13, <1>b, <1>e, <2>1, <2>2 DEF AssignFields
<1>14. ASSUME FindRemovedField(c) PROVE FreshInv'
  BY <1>14, <1>b, <1>d DEF FindRemovedField
<1>15. ASSUME DeleteField(c) PROVE FreshInv'
  <2>1. CASE Reject(c)
    BY <1>b, <2>1
  <2>2. CASE ~Reject(c)
    <3>1. \A f \in Field : \/ field'[f].owner = NoRecipient
                           \/ field'[f] = field[f]
      BY <1>15, <2>2 DEF DeleteField, NoField
    <3>2. pc'[c] = "audit" /\ role' = role
      BY <1>0, <1>15, <2>2 DEF DeleteField, Goto
    <3>3. FieldsOwnedBySigners'
      BY <3>1, <3>2 DEF FreshInv, FieldsOwnedBySigners, IsSigner
    <3>4. \A f \in Field : ~Placed(f)' => field'[f].owner = NoRecipient
      BY <3>1 DEF FreshInv, Placed
    <3> QED
      BY <3>2, <3>3, <3>4, FreshWrites
  <2> QED
    BY <2>1, <2>2
<1>16. ASSUME ReadRecipients(c) PROVE FreshInv'
  <2>1. pc'[c] = "readFields" /\ UNCHANGED <<role, field>>
    BY <1>0, <1>16 DEF ReadRecipients, Goto, tables
  <2>2. StillTrue("readFields", args'[c])
    BY DEF StillTrue
  <2> QED
    BY <2>1, <2>2, FreshReads
<1>17. ASSUME ReadFields(c) PROVE FreshInv'
  BY <1>17, <1>b, <1>d DEF ReadFields
<1>18. ASSUME Send(c) PROVE FreshInv'
  BY <1>18, <1>a, <1>b DEF Send, Return
<1>19. ASSUME Audit(c) PROVE FreshInv'
  BY <1>19, <1>a DEF Audit, Return, tables
<1>20. ASSUME Crash(c) PROVE FreshInv'
  BY <1>20, <1>a DEF Crash, Return, tables
<1> QED
  BY <1>1, <1>2, <1>3, <1>4, <1>5, <1>6, <1>7, <1>8, <1>9, <1>10, <1>11, <1>12,
     <1>13, <1>14, <1>15, <1>16, <1>17, <1>18, <1>19, <1>20 DEF Progress

-----------------------------------------------------------------------------
(* What is sent.  A call that sends and is not stale knows who signs and   *)
(* who owns fields.                                                        *)
SendInv ==
    /\ document = "SENT" => \A c \in Call \ stale : pc[c] = "idle"
    /\ \A c \in Call \ stale :
          /\ pc[c] \in {"readFields", "send"} =>
                args[c].signers = {r \in Recipient : IsSigner(r)}
          /\ pc[c] = "send" => Sendable(args[c].signers)

SentInv == SendInv /\ SentIsWellFormed

\* Nobody is let in once the document is sent.
LEMMA NobodyIsLetIn ==
  ASSUME NEW c \in Call, CallStep(c), document = "SENT"
  PROVE  pc[c] # "idle"
BY DEF CallStep, BeginCall, BeginCreateRecipient, BeginUpdateRecipient,
   BeginRemoveRecipient, BeginCreateField, BeginUpdateField, BeginBulkAssign,
   BeginRemoveField, BeginSend, Begin, Editable, Crash, Progress, InsertRecipient,
   FindRecipient, CountFields, UpdateRecipient, FindRemoved, DeleteRecipient,
   CheckSigner, InsertField, FindField, UpdateField, CheckBulk, ListFields,
   AssignFields, FindRemovedField, DeleteField, ReadRecipients, ReadFields,
   Send, Audit

\* What the others know about signers and fields, they still know.
LEMMA OthersKnow ==
  ASSUME TypeOK, SendInv, NEW c \in Call, OthersRest(c), NEW d \in Call \ stale', d # c
  PROVE  /\ pc'[d] \in {"readFields", "send"} =>
               args'[d].signers = {r \in Recipient : IsSigner(r)'}
         /\ pc'[d] = "send" => Sendable(args[d].signers)'
         /\ document' = "SENT" => pc'[d] = "idle"
<1>1. CASE pc'[d] = "idle"
  BY <1>1
<1>2. CASE tables' = tables /\ pc'[d] = pc[d] /\ args'[d] = args[d] /\ d \notin stale
  <2>1. (\A r : IsSigner(r)' <=> IsSigner(r)) /\ Owners' = Owners /\ document' = document
    BY <1>2 DEF tables, IsSigner, Owners, Placed
  <2> QED
    BY <1>2, <2>1 DEF SendInv, Sendable
<1> QED
  BY <1>1, <1>2 DEF OthersRest

\* Any step of a call that does not begin to send or go on with it.
LEMMA NotSending ==
  ASSUME TypeOK, SentInv, document # "SENT", document' = document,
         NEW c \in Call, OthersRest(c),
         pc'[c] \notin {"readFields", "send"}
  PROVE  SentInv'
<1>1. SendInv'
  BY OthersKnow DEF SentInv, SendInv
<1> QED
  BY <1>1 DEF SentInv, SentIsWellFormed

LEMMA SentStep ==
  ASSUME TypeOK, SentInv, NEW c \in Call, c \notin stale, CallStep(c), OthersRest(c)
  PROVE  SentInv'
<1>0. /\ pc \in [Call -> Steps] /\ args \in [Call -> ArgsRecord]
      /\ document # "SENT"
  BY NobodyIsLetIn DEF TypeOK, SentInv, SendInv
<1>1. ASSUME BeginCall(c) PROVE SentInv'
  <2>1. document' = document /\ pc'[c] \notin {"readFields", "send"}
    BY <1>0, <1>1 DEF BeginCall, BeginCreateRecipient, BeginUpdateRecipient,
       BeginRemoveRecipient, BeginCreateField, BeginUpdateField,
       BeginBulkAssign, BeginRemoveField, BeginSend, Begin, Goto, tables
  <2> QED
    BY <1>0, <2>1, NotSending
<1>a. ASSUME Reject(c) PROVE SentInv'
  BY <1>0, <1>a, NotSending DEF Reject, Return, Goto, tables
<1>2. ASSUME ReadRecipients(c) PROVE SentInv'
  <2>1. /\ pc'[c] = "readFields" /\ UNCHANGED tables
        /\ args'[c].signers = {r \in Recipient : IsSigner(r)}
    BY <1>0, <1>2 DEF ReadRecipients, Goto, ArgsRecord
  <2>2. \A r : IsSigner(r)' <=> IsSigner(r)
    BY <2>1 DEF tables, IsSigner
  <2>3. SendInv'
    BY <1>0, <2>1, <2>2, OthersKnow DEF SentInv, SendInv, tables
  <2> QED
    BY <1>0, <2>1, <2>3 DEF SentInv, SentIsWellFormed, tables
<1>3. ASSUME ReadFields(c) PROVE SentInv'
  <2>1. CASE Sendable(args[c].signers) /\ Proceed(c, "send")
    <3>1. /\ pc'[c] = "send" /\ UNCHANGED tables /\ args' = args
          /\ args[c].signers = {r \in Recipient : IsSigner(r)}
      BY <1>0, <1>3, <2>1 DEF ReadFields, Proceed, Goto, SentInv, SendInv
    <3>2. (\A r : IsSigner(r)' <=> IsSigner(r)) /\ Owners' = Owners
      BY <3>1 DEF tables, IsSigner, Owners, Placed
    <3>3. Sendable(args[c].signers)'
      BY <2>1, <3>1, <3>2 DEF Sendable
    <3>4. SendInv'
      BY <1>0, <3>1, <3>2, <3>3, OthersKnow DEF SentInv, SendInv, tables
    <3> QED
      BY <1>0, <3>1, <3>4 DEF SentInv, SentIsWellFormed, tables
  <2> QED
    BY <1>3, <1>a, <2>1 DEF ReadFields
<1>4. ASSUME Send(c) PROVE SentInv'
  <2>1. CASE ~Reject(c)
    <3>1. /\ pc'[c] = "idle" /\ UNCHANGED <<role, field>>
          /\ document' = "SENT" /\ requests' = args[c].signers
      BY <1>0, <1>4, <2>1 DEF Send, Return, Goto
    <3>2. /\ args[c].signers = {r \in Recipient : IsSigner(r)}
          /\ args[c].signers # {} /\ Owners = args[c].signers
      BY <1>4 DEF Send, SentInv, SendInv, Sendable
    <3>3. (\A r : IsSigner(r)' <=> IsSigner(r)) /\ Owners' = Owners
      BY <3>1 DEF IsSigner, Owners, Placed
    <3>4. SendInv'
      BY <3>1, OthersKnow DEF SentInv, SendInv
    <3> QED
      BY <3>1, <3>2, <3>3, <3>4 DEF SentInv, SentIsWellFormed
  <2> QED
    BY <1>a, <2>1
<1>5. ASSUME Crash(c) PROVE SentInv'
  BY <1>0, <1>5, NotSending DEF Crash, Return, Goto, tables
<1>6. ASSUME Progress(c), ~ReadRecipients(c), ~ReadFields(c), ~Send(c)
      PROVE  SentInv'
  <2>1. \/ Reject(c)
        \/ document' = document /\ \E step \in Steps \ {"readFields", "send"} : Goto(c, step)
    BY <1>6 DEF Progress, InsertRecipient, FindRecipient, CountFields, UpdateRecipient,
       FindRemoved, DeleteRecipient, CheckSigner, InsertField, FindField, UpdateField,
       CheckBulk, ListFields, AssignFields, FindRemovedField, DeleteField, Audit,
       WriteFields, Return, Proceed, tables, Steps
  <2>2. ASSUME document' = document,
               NEW step \in Steps \ {"readFields", "send"}, Goto(c, step)
        PROVE  SentInv'
    BY <1>0, <2>2, NotSending DEF Goto
  <2> QED
    BY <1>a, <2>1, <2>2
<1> QED
  BY <1>1, <1>2, <1>3, <1>4, <1>5, <1>6 DEF CallStep

-----------------------------------------------------------------------------
(* Where fields are.  An update that is not stale still finds the row that *)
(* it was merged with when it was validated.                               *)
Merges(step, a) ==
    /\ step = "findField" => \E f \in Field : a.what = {f}
    /\ step \in {"checkSigner", "updateField"} =>
          \A f \in a.what : Fits(a.patch, field[f])
    /\ step = "insertField" => Fits(a.patch, NoField)

PageInv == FieldsInsidePage /\ \A c \in Call \ stale : Merges(pc[c], args[c])

LEMMA PatchedShape ==
  ASSUME TypeOK, NEW fs \in SUBSET Field, NEW patch \in AnyPatch, NEW f \in Field
  PROVE  LET g == Patched(fs, patch)[f] IN
         \/ g.left = field[f].left /\ g.width = field[f].width
         \/ /\ f \in fs /\ g.left = Given(patch.left, field[f].left)
            /\ g.width = Given(patch.width, field[f].width)
<1>1. field[f] \in FieldRecord
  BY DEF TypeOK, TablesOK
<1>2. CASE f \in fs /\ Placed(f)
  <2> DEFINE a == [field[f] EXCEPT !.owner = Given(patch.owner, @)]
             b == [a EXCEPT !.left = Given(patch.left, @)]
             e == [b EXCEPT !.width = Given(patch.width, @)]
  <2>1. a.left = field[f].left /\ a.width = field[f].width
    BY <1>1 DEF FieldRecord
  <2>2. b.left = Given(patch.left, field[f].left) /\ b.width = field[f].width
    BY <1>1, <2>1 DEF FieldRecord
  <2>3. e.left = Given(patch.left, field[f].left) /\ e.width = Given(patch.width, field[f].width)
    BY <1>1, <2>2 DEF FieldRecord
  <2>4. Patched(fs, patch)[f] = e
    BY <1>2 DEF Patched
  <2> HIDE DEF e
  <2> QED
    BY <1>2, <2>3, <2>4
<1>3. CASE ~(f \in fs /\ Placed(f))
  <2>1. Patched(fs, patch)[f] = field[f]
    BY <1>3 DEF Patched
  <2> QED
    BY <2>1
<1> QED
  BY <1>2, <1>3

\* A step that moves no field ...
LEMMA PageReads ==
  ASSUME PageInv, NEW c \in Call, OthersRest(c), UNCHANGED field,
         Merges(pc'[c], args'[c])
  PROVE  PageInv'
<1>1. ASSUME NEW d \in Call, d \notin stale' PROVE Merges(pc[d], args[d])'
  <2>1. CASE d = c
    BY <2>1 DEF Merges, Fits
  <2>2. CASE pc'[d] = "idle"
    BY <2>2 DEF Merges
  <2>3. CASE pc'[d] = pc[d] /\ args'[d] = args[d] /\ d \notin stale
    <3>1. Merges(pc[d], args[d])
      BY <2>3 DEF PageInv
    <3> QED
      BY <2>3, <3>1 DEF Merges, Fits
  <2> QED
    BY <1>1, <2>1, <2>2, <2>3 DEF OthersRest
<1> QED
  BY <1>1 DEF PageInv, FieldsInsidePage

\* ... and one after which the call has nothing left to write.
LEMMA PageWrites ==
  ASSUME PageInv, NEW c \in Call, OthersRest(c), pc'[c] \in {"idle", "audit"},
         FieldsInsidePage'
  PROVE  PageInv'
<1>1. ASSUME NEW d \in Call, d \notin stale' PROVE Merges(pc[d], args[d])'
  <2>1. CASE d = c \/ pc'[d] = "idle"
    BY <2>1 DEF Merges
  <2>2. CASE tables' = tables /\ pc'[d] = pc[d] /\ args'[d] = args[d] /\ d \notin stale
    <3>1. Merges(pc[d], args[d]) /\ field' = field
      BY <2>2 DEF PageInv, tables
    <3> QED
      BY <2>2, <3>1 DEF Merges, Fits
  <2> QED
    BY <1>1, <2>1, <2>2 DEF OthersRest
<1> QED
  BY <1>1 DEF PageInv

LEMMA PageBegins ==
  ASSUME TypeOK, PageInv, NEW c \in Call, OthersRest(c), BeginCall(c)
  PROVE  PageInv'
<1>1. ASSUME NEW step \in Steps, NEW a, Begin(c, step, a), Merges(step, a)
      PROVE  PageInv'
  <2>1. pc'[c] = step /\ args'[c] = a /\ field' = field
    BY <1>1 DEF Begin, Goto, TypeOK, tables
  <2> QED
    BY <1>1, <2>1, PageReads
<1>2. ASSUME NEW r \in Recipient, NEW x \in Left, NEW w \in Width,
             BeginCreateField(c, r, x, w)
      PROVE  PageInv'
  <2> DEFINE a == [NoArgs EXCEPT !.who = r,
                       !.patch = [owner |-> r, left |-> x, width |-> w]]
  <2>1. a.what = {}
    BY DEF NoArgs
  <2>2. Merges("checkSigner", a) /\ "checkSigner" \in Steps
    BY <2>1 DEF Merges, Steps
  <2> QED
    BY <1>1, <1>2, <2>2 DEF BeginCreateField
<1>3. ASSUME NEW f \in Field, NEW patch \in Patch, BeginUpdateField(c, f, patch)
      PROVE  PageInv'
  <2> DEFINE a == [NoArgs EXCEPT !.what = {f}, !.patch = patch]
  <2>1. a.what = {f}
    BY DEF NoArgs
  <2>2. Merges("findField", a) /\ "findField" \in Steps
    BY <2>1 DEF Merges, Steps
  <2> QED
    BY <1>1, <1>3, <2>2 DEF BeginUpdateField
<1>4. ASSUME NEW step \in Steps \ {"findField", "checkSigner", "insertField", "updateField"},
             NEW a, Begin(c, step, a)
      PROVE  PageInv'
  BY <1>1, <1>4 DEF Merges
<1> QED
  BY <1>2, <1>3, <1>4 DEF BeginCall, BeginCreateRecipient, BeginUpdateRecipient,
     BeginRemoveRecipient, BeginBulkAssign, BeginRemoveField, BeginSend, Steps

LEMMA PageProceeds ==
  ASSUME TypeOK, PageInv, NEW c \in Call, c \notin stale, OthersRest(c),
         Progress(c) \/ Crash(c)
  PROVE  PageInv'
<1>0. /\ Merges(pc[c], args[c]) /\ InputsFit(pc[c], args[c])
      /\ args[c] \in ArgsRecord /\ pc \in [Call -> Steps]
      /\ args \in [Call -> ArgsRecord] /\ field \in [Field -> FieldRecord]
  BY DEF PageInv, TypeOK, TablesOK
<1>a. ASSUME NEW step \in {"idle", "audit"}, Goto(c, step), UNCHANGED field
      PROVE  PageInv'
  <2>1. pc'[c] \in {"idle", "audit"}
    BY <1>0, <1>a DEF Goto
  <2>2. FieldsInsidePage'
    BY <1>a DEF PageInv, FieldsInsidePage
  <2> QED
    BY <2>1, <2>2, PageWrites
<1>b. ASSUME Reject(c) PROVE PageInv'
  BY <1>a, <1>b DEF Reject, Return, tables
<1>c. ASSUME NEW step, Proceed(c, step), Merges(step, args[c]) PROVE PageInv'
  BY <1>0, <1>c, PageReads DEF Proceed, Goto, tables
<1>d. ASSUME NEW step \in Steps \ {"findField", "checkSigner", "insertField", "updateField"},
             Proceed(c, step)
      PROVE  PageInv'
  BY <1>c, <1>d DEF Merges
<1>e. ASSUME NEW patch \in AnyPatch, WriteFields(c, patch),
             \A f \in args[c].what : Fits(patch, field[f])
      PROVE  PageInv'
  <2>1. field' = Patched(args[c].what, patch) /\ pc'[c] = "audit"
    BY <1>0, <1>e DEF WriteFields, Goto
  <2>2. args[c].what \in SUBSET Field
    BY <1>0 DEF ArgsRecord
  <2>3. ASSUME NEW f \in Field PROVE field'[f].left + field'[f].width <= PageWidth
    BY <1>e, <2>1, <2>2, PatchedShape DEF Fits, PageInv, FieldsInsidePage
  <2> QED
    BY <2>1, <2>3, PageWrites DEF FieldsInsidePage
<1>1. ASSUME CheckSigner(c) PROVE PageInv'
  <2>1. CASE args[c].what = {} /\ Fits(args[c].patch, NoField) /\ Proceed(c, "insertField")
    BY <1>c, <2>1 DEF Merges
  <2>2. CASE Proceed(c, "updateField")
    <3>1. Merges("updateField", args[c])
      BY <1>0, <1>1 DEF CheckSigner, Merges
    <3> QED
      BY <1>c, <2>2, <3>1
  <2> QED
    BY <1>1, <1>b, <2>1, <2>2 DEF CheckSigner
<1>2. ASSUME InsertField(c) PROVE PageInv'
  <2>1. CASE ~Reject(c)
    <3>1. PICK g \in Field : field' = [field EXCEPT ![g] =
             [state |-> "PLACED", owner |-> args[c].patch.owner,
              left |-> args[c].patch.left, width |-> args[c].patch.width]]
      BY <1>2, <2>1 DEF InsertField
    <3>2. /\ args[c].patch.left \in Left /\ args[c].patch.width \in Width
          /\ Fits(args[c].patch, NoField)
      BY <1>0, <1>2 DEF InsertField, InputsFit, Merges
    <3>3. args[c].patch.left + args[c].patch.width <= PageWidth
      BY <3>2, DraftAssumption DEF Fits, Given
    <3>4. /\ \A f \in Field : f # g => field'[f] = field[f]
          /\ field'[g].left = args[c].patch.left /\ field'[g].width = args[c].patch.width
      BY <1>0, <3>1
    <3>5. FieldsInsidePage'
      BY <3>3, <3>4 DEF PageInv, FieldsInsidePage
    <3>6. pc'[c] = "audit"
      BY <1>0, <1>2, <2>1 DEF InsertField, Goto
    <3> QED
      BY <3>5, <3>6, PageWrites
  <2> QED
    BY <1>b, <2>1
<1>3. ASSUME FindField(c) PROVE PageInv'
  <2> DEFINE g == CHOOSE h \in args[c].what : TRUE
             r == MergedOwner(args[c].patch, field[g])
  <2>1. CASE /\ Fits(args[c].patch, field[g])
             /\ args' = [args EXCEPT ![c].who = r] /\ Goto(c, "checkSigner")
             /\ UNCHANGED <<tables, lost, crashes>>
    <3>1. args'[c].patch = args[c].patch /\ args'[c].what = args[c].what
      BY <1>0, <2>1 DEF ArgsRecord
    <3>2. args[c].what = {g}
      BY <1>0, <1>3 DEF FindField, Merges
    <3>3. pc'[c] = "checkSigner" /\ field' = field
      BY <1>0, <2>1 DEF Goto, tables
    <3> HIDE DEF g
    <3>4. Merges("checkSigner", args'[c])
      BY <2>1, <3>1, <3>2 DEF Merges
    <3> QED
      BY <3>3, <3>4, PageReads
  <2> QED
    BY <1>3, <1>b, <2>1 DEF FindField
<1>4. ASSUME UpdateField(c) PROVE PageInv'
  <2>1. args[c].patch \in AnyPatch
    BY <1>0 DEF ArgsRecord
  <2>2. \A f \in args[c].what : Fits(args[c].patch, field[f])
    BY <1>0, <1>4 DEF UpdateField, Merges
  <2> QED
    BY <1>4, <1>b, <1>e, <2>1, <2>2 DEF UpdateField
<1>5. ASSUME AssignFields(c) PROVE PageInv'
  <2> DEFINE patch == [owner |-> args[c].who, left |-> Keep, width |-> Keep]
  <2>1. patch \in AnyPatch
    BY <1>0 DEF ArgsRecord, AnyPatch
  <2>2. \A f \in Field : Fits(patch, field[f])
    BY DEF Fits, Given, PageInv, FieldsInsidePage
  <2>3. args[c].what \in SUBSET Field
    BY <1>0 DEF ArgsRecord
  <2> HIDE DEF patch
  <2>4. CASE WriteFields(c, patch)
    BY <1>e, <2>1, <2>2, <2>3, <2>4
  <2> QED
    BY <1>5, <1>b, <2>4 DEF AssignFields, patch
<1>6. ASSUME DeleteRecipient(c) PROVE PageInv'
  <2>1. CASE ~Reject(c)
    <3>1. field' = Orphaned(args[c].who) /\ pc'[c] = "audit"
      BY <1>0, <1>6, <2>1 DEF DeleteRecipient, Goto
    <3>2. \A f \in Field : field'[f].left = field[f].left /\ field'[f].width = field[f].width
      BY <1>0, <3>1 DEF Orphaned, FieldRecord
    <3> QED
      BY <3>1, <3>2, PageWrites DEF PageInv, FieldsInsidePage
  <2> QED
    BY <1>b, <2>1
<1>7. ASSUME DeleteField(c) PROVE PageInv'
  <2>1. CASE ~Reject(c)
    <3>1. /\ pc'[c] = "audit"
          /\ \A f \in Field : \/ field'[f] = field[f]
                              \/ field'[f].left = 0 /\ field'[f].width = 0
      BY <1>0, <1>7, <2>1 DEF DeleteField, Goto, NoField
    <3>2. FieldsInsidePage'
      BY <3>1, DraftAssumption DEF PageInv, FieldsInsidePage
    <3> QED
      BY <3>1, <3>2, PageWrites
  <2> QED
    BY <1>b, <2>1
<1>8. ASSUME \/ FindRecipient(c) \/ CountFields(c) \/ FindRemoved(c) \/ CheckBulk(c)
             \/ ListFields(c) \/ FindRemovedField(c) \/ ReadFields(c)
      PROVE  PageInv'
  BY <1>8, <1>b, <1>d DEF FindRecipient, CountFields, FindRemoved, CheckBulk, ListFields,
     FindRemovedField, ReadFields, Steps
<1>9. ASSUME InsertRecipient(c) \/ UpdateRecipient(c) \/ Send(c) \/ Audit(c) \/ Crash(c)
      PROVE  PageInv'
  BY <1>9, <1>a, <1>b DEF InsertRecipient, UpdateRecipient, Send, Audit, Crash, Return, tables
<1>10. ASSUME ReadRecipients(c) PROVE PageInv'
  <2>1. pc'[c] = "readFields" /\ UNCHANGED field
    BY <1>0, <1>10 DEF ReadRecipients, Goto, tables
  <2>2. Merges("readFields", args'[c])
    BY DEF Merges
  <2> QED
    BY <2>1, <2>2, PageReads
<1> QED
  BY <1>1, <1>2, <1>3, <1>4, <1>5, <1>6, <1>7, <1>8, <1>9, <1>10 DEF Progress

-----------------------------------------------------------------------------
\* Nothing is promised once a stale call has written.
HistoryInv == ~raced => FreshInv /\ SentInv /\ PageInv

LEMMA HistoryBegins == HistoryInit => HistoryInv
<1> SUFFICES ASSUME Init PROVE FreshInv /\ SentInv /\ PageInv
  BY DEF HistoryInit, HistoryInv
<1>1. FreshInv
  BY DEF Init, FreshInv, FieldsOwnedBySigners, NoField, StillTrue
<1>2. SentInv
  BY DEF Init, SentInv, SendInv, SentIsWellFormed
<1>3. PageInv
  BY DraftAssumption DEF Init, PageInv, FieldsInsidePage, Merges, NoField
<1> QED
  BY <1>1, <1>2, <1>3

\* A stale call that does not write leaves everything as it was.
LEMMA StaleStep ==
  ASSUME TypeOK, FreshInv, SentInv, PageInv, NEW c \in Call, OthersRest(c),
         tables' = tables, c \in stale' \/ pc'[c] = "idle"
  PROVE  FreshInv' /\ SentInv' /\ PageInv'
<1>1. UNCHANGED <<document, role, field, requests>>
  BY DEF tables
<1>2. \A d \in Call \ stale' : \/ pc'[d] = "idle"
                               \/ pc'[d] = pc[d] /\ args'[d] = args[d] /\ d \notin stale
  BY DEF OthersRest
<1>3. (\A r : IsSigner(r)' <=> IsSigner(r)) /\ Owners' = Owners
  BY <1>1 DEF IsSigner, Owners, Placed
<1>4. FreshInv'
  <2>1. ASSUME NEW d \in Call \ stale' PROVE StillTrue(pc[d], args[d])'
    <3>1. CASE pc'[d] = "idle"
      BY <3>1 DEF StillTrue
    <3>2. CASE pc'[d] = pc[d] /\ args'[d] = args[d] /\ d \notin stale
      <4>1. StillTrue(pc[d], args[d])
        BY <3>2 DEF FreshInv
      <4> QED
        BY <1>1, <3>2, <4>1 DEF StillTrue, IsSigner
    <3> QED
      BY <1>2, <3>1, <3>2
  <2> QED
    BY <1>1, <2>1 DEF FreshInv, FieldsOwnedBySigners, IsSigner, Placed
<1>5. PageInv'
  <2>1. ASSUME NEW d \in Call \ stale' PROVE Merges(pc[d], args[d])'
    <3>1. CASE pc'[d] = "idle"
      BY <3>1 DEF Merges
    <3>2. CASE pc'[d] = pc[d] /\ args'[d] = args[d] /\ d \notin stale
      <4>1. Merges(pc[d], args[d])
        BY <3>2 DEF PageInv
      <4> QED
        BY <1>1, <3>2, <4>1 DEF Merges, Fits
    <3> QED
      BY <1>2, <3>1, <3>2
  <2> QED
    BY <1>1, <2>1 DEF PageInv, FieldsInsidePage
<1>6. SentInv'
  <2>1. SendInv'
    BY <1>1, <1>2, <1>3 DEF SentInv, SendInv, Sendable
  <2> QED
    BY <1>1, <1>3, <2>1 DEF SentInv, SentIsWellFormed
<1> QED
  BY <1>4, <1>5, <1>6

LEMMA HistoryStep ==
  ASSUME TypeOK, HistoryInv, [HistoryNext]_history
  PROVE  HistoryInv'
<1> SUFFICES ASSUME ~raced' PROVE (FreshInv /\ SentInv /\ PageInv)'
  BY DEF HistoryInv
<1>1. CASE UNCHANGED history
  <2>1. /\ UNCHANGED <<document, role, field, requests, pc, args, stale>>
        /\ FreshInv /\ SentInv /\ PageInv
    BY <1>1 DEF history, vars, tables, HistoryInv
  <2>2. (\A r : IsSigner(r)' <=> IsSigner(r)) /\ Owners' = Owners
    BY <2>1 DEF IsSigner, Owners, Placed
  <2>3. FreshInv'
    BY <2>1 DEF FreshInv, FieldsOwnedBySigners, IsSigner, Placed, StillTrue
  <2>4. PageInv'
    BY <2>1 DEF PageInv, FieldsInsidePage, Merges, Fits
  <2>5. SentInv'
    BY <2>1, <2>2 DEF SentInv, SendInv, SentIsWellFormed, Sendable
  <2> QED
    BY <2>3, <2>4, <2>5
<1>2. CASE HistoryNext
  <2>1. PICK c \in Call :
           /\ CallStep(c)
           /\ stale' = UnderWay' \cap (IF Writes THEN stale \cup (Call \ {c}) ELSE stale)
           /\ raced' = (raced \/ (Writes /\ c \in stale))
    BY <1>2 DEF HistoryNext
  <2>2. FreshInv /\ SentInv /\ PageInv /\ (c \in stale => tables' = tables)
    BY <2>1 DEF HistoryInv, Writes
  <2>3. /\ OthersRest(c)
        /\ c \in stale /\ c \notin stale' => pc'[c] = "idle"
    BY <2>1, OneActs
  <2>4. CASE c \in stale
    BY <2>2, <2>3, <2>4, StaleStep
  <2>5. CASE c \notin stale
    <3>1. SentInv'
      BY <2>1, <2>2, <2>3, <2>5, SentStep
    <3>2. FreshInv'
      BY <2>1, <2>2, <2>3, <2>5, FreshBegins, FreshProceeds DEF CallStep
    <3>3. PageInv'
      BY <2>1, <2>2, <2>3, <2>5, PageBegins, PageProceeds DEF CallStep
    <3> QED
      BY <3>1, <3>2, <3>3
  <2> QED
    BY <2>4, <2>5
<1> QED
  BY <1>1, <1>2

LEMMA HistoryInvCorrect == HistorySpec => [](TypeOK /\ HistoryInv)
<1>1. HistorySpec => Spec
  <2>1. HistoryInit => Init
    BY DEF HistoryInit
  <2>2. [HistoryNext]_history => [Next]_vars
    BY DEF HistoryNext, Next, history
  <2> QED
    BY <2>1, <2>2, PTL DEF HistorySpec, Spec
<1>2. TypeOK /\ HistoryInv /\ [HistoryNext]_history => HistoryInv'
  BY HistoryStep
<1> QED
  BY <1>1, <1>2, HistoryBegins, TypeCorrect, PTL DEF HistorySpec

(* However calls overlap, as long as none writes over what another has     *)
(* changed since it began, no field is left with somebody who does not     *)
(* sign and none extends beyond its page.                                  *)
THEOREM FieldsStaySound == HistorySpec => []FieldsAreSound
<1>1. HistoryInv => FieldsAreSound
  BY DEF HistoryInv, FreshInv, PageInv, FieldsAreSound
<1> QED
  BY <1>1, HistoryInvCorrect, PTL

(* As long as no call writes over what another has changed since it began, *)
(* a document that is sent has links for exactly its signers, who own all  *)
(* its fields and at least one each.                                       *)
THEOREM SendingIsComplete == HistorySpec => []SentIsComplete
<1>1. HistoryInv => SentIsComplete
  BY DEF HistoryInv, SentInv, SentIsComplete
<1> QED
  BY <1>1, HistoryInvCorrect, PTL

(* As long as no call writes over what another has changed since it began, *)
(* nothing of a sent document changes: every call that was let in before   *)
(* the send is stale by it.                                                *)
THEOREM SentStays == HistorySpec => SentIsFrozen
<1>1. TypeOK /\ HistoryInv /\ [HistoryNext]_history =>
         [~raced' => (document = "SENT" => UNCHANGED tables)]_history
  <2> SUFFICES ASSUME HistoryInv, HistoryNext, ~raced', document = "SENT"
               PROVE  UNCHANGED tables
    OBVIOUS
  <2>1. PICK c \in Call : CallStep(c) /\ raced' = (raced \/ (Writes /\ c \in stale))
    BY DEF HistoryNext
  <2>2. SendInv /\ (c \in stale => tables' = tables)
    BY <2>1 DEF HistoryInv, SentInv, Writes
  <2>3. c \in stale
    BY <2>1, <2>2, NobodyIsLetIn DEF SendInv
  <2> QED
    BY <2>2, <2>3
<1> QED
  BY <1>1, HistoryInvCorrect, PTL DEF SentIsFrozen, HistorySpec

-----------------------------------------------------------------------------
(* Changes without an audit event.  The recipient that a call is about to  *)
(* record has had a row, and a row that is gone never comes back.          *)
Recorded(step, a) ==
    /\ step = "audit" /\ a.who \in Recipient => role[a.who] # "ABSENT"
    /\ step \in {"findRemovedField", "deleteField"} => a.who = NoRecipient

\* Changes of something that is still there, and of fields.
Unexplained == {e \in lost : e.who # NoRecipient => Exists(e.who)}

LostInv ==
    /\ \A c \in Call : Recorded(pc[c], args[c])
    /\ \A e \in lost : e.who \in Recipient => role[e.who] # "ABSENT"
    /\ IsFiniteSet(Unexplained)
    /\ Cardinality(Unexplained) <= crashes

\* A row is inserted once, changed while it exists, and deleted for good.
LEMMA RowsStayUsed ==
  ASSUME TypeOK, NEW c \in Call, BeginCall(c) \/ Progress(c) \/ Crash(c)
  PROVE  \A r \in Recipient : role[r] # "ABSENT" =>
            role'[r] # "ABSENT" /\ (Exists(r)' => Exists(r))
<1>0. args[c] \in ArgsRecord /\ role \in [Recipient -> {"ABSENT", "SIGNER", "CC", "DELETED"}]
  BY DEF TypeOK, TablesOK
<1> DEFINE Kept == \A r \in Recipient : role[r] # "ABSENT" =>
                      role'[r] # "ABSENT" /\ (Exists(r)' => Exists(r))
<1>a. ASSUME role' = role PROVE Kept
  BY <1>a DEF Exists
<1>1. CASE BeginCall(c)
  BY <1>1, <1>a DEF BeginCall, Begin, tables, BeginCreateRecipient, BeginUpdateRecipient,
     BeginRemoveRecipient, BeginCreateField, BeginBulkAssign, BeginRemoveField,
     BeginUpdateField, BeginSend
<1>2. CASE InsertRecipient(c)
  BY <1>0, <1>2, <1>a DEF InsertRecipient, Reject, tables, Exists, ArgsRecord
<1>3. CASE UpdateRecipient(c)
  BY <1>0, <1>3, <1>a DEF UpdateRecipient, Reject, tables, Exists, ArgsRecord
<1>4. CASE DeleteRecipient(c)
  BY <1>0, <1>4, <1>a DEF DeleteRecipient, Reject, tables, Exists, ArgsRecord
<1>5. CASE Progress(c) /\ ~InsertRecipient(c) /\ ~UpdateRecipient(c) /\ ~DeleteRecipient(c)
  <2>1. role' = role
    BY <1>5 DEF Progress, FindRecipient, CountFields, FindRemoved, CheckSigner, InsertField,
       FindField, UpdateField, CheckBulk, ListFields, AssignFields, FindRemovedField,
       DeleteField, ReadRecipients, ReadFields, Send, Audit, WriteFields, Reject, Proceed,
       tables
  <2> QED
    BY <2>1, <1>a
<1>6. CASE Crash(c)
  BY <1>6, <1>a DEF Crash, tables
<1> QED
  BY <1>1, <1>2, <1>3, <1>4, <1>5, <1>6

\* What the acting call knows after its step.
LEMMA RecordedStep ==
  ASSUME TypeOK, NEW c \in Call, Recorded(pc[c], args[c]),
         BeginCall(c) \/ Progress(c) \/ Crash(c)
  PROVE  /\ Recorded(pc[c], args[c])'
         /\ \A d \in Call \ {c} : pc'[d] = pc[d] /\ args'[d] = args[d]
<1>0. /\ args[c] \in ArgsRecord /\ role \in [Recipient -> {"ABSENT", "SIGNER", "CC", "DELETED"}]
      /\ NoRecipient \notin Recipient
  BY DraftAssumption DEF TypeOK, TablesOK
<1> DEFINE Others == \A d \in Call \ {c} : pc'[d] = pc[d] /\ args'[d] = args[d]
           Mine == Recorded(pc[c], args[c])'
<1>a. ASSUME Return(c) PROVE Mine /\ Others
  BY <1>a DEF Return, Goto, TypeOK, Recorded
<1>b. ASSUME Reject(c) PROVE Mine /\ Others
  BY <1>a, <1>b DEF Reject
<1>c. ASSUME NEW step \in Steps \ {"audit", "deleteField", "findRemovedField"},
             Proceed(c, step)
      PROVE  Mine /\ Others
  BY <1>c DEF Proceed, Goto, TypeOK, Recorded
<1>d. ASSUME Goto(c, "audit"), args' = args, role'[args[c].who] # "ABSENT" \/ args[c].who \notin Recipient
      PROVE  Mine /\ Others
  BY <1>d DEF Goto, TypeOK, Recorded
<1>e. ASSUME Goto(c, "audit"), args'[c].who = NoRecipient,
             \A d \in Call \ {c} : args'[d] = args[d]
      PROVE  Mine /\ Others
  BY <1>0, <1>e DEF Goto, TypeOK, Recorded
<1>f. ASSUME NEW patch, WriteFields(c, patch) PROVE Mine /\ Others
  <2>1. args'[c].who = NoRecipient /\ \A d \in Call \ {c} : args'[d] = args[d]
    BY <1>0, <1>f DEF WriteFields, TypeOK, ArgsRecord
  <2> QED
    BY <1>e, <1>f, <2>1 DEF WriteFields
<1>1. CASE BeginCall(c)
  <2>1. ASSUME NEW step, NEW a, Begin(c, step, a), step # "audit",
               step \in {"findRemovedField", "deleteField"} => a.who = NoRecipient
        PROVE  Mine /\ Others
    BY <2>1 DEF Begin, Goto, TypeOK, Recorded
  <2>2. ASSUME NEW f \in Field, BeginRemoveField(c, f) PROVE Mine /\ Others
    <3>1. [NoArgs EXCEPT !.what = {f}].who = NoRecipient
      BY DEF NoArgs
    <3> QED
      BY <2>1, <2>2, <3>1 DEF BeginRemoveField
  <2> QED
    BY <1>1, <2>1, <2>2 DEF BeginCall, BeginCreateRecipient, BeginUpdateRecipient,
       BeginRemoveRecipient, BeginCreateField, BeginBulkAssign, BeginUpdateField, BeginSend
<1>2. CASE InsertRecipient(c)
  <2>1. ASSUME NEW r \in Recipient, role' = [role EXCEPT ![r] = args[c].role],
               args' = [args EXCEPT ![c].who = r], Goto(c, "audit")
        PROVE  Mine /\ Others
    <3>1. args'[c].who = r /\ role'[r] # "ABSENT"
      BY <1>0, <2>1 DEF TypeOK, ArgsRecord
    <3> QED
      BY <2>1, <3>1 DEF Goto, TypeOK, Recorded
  <2> QED
    BY <1>2, <1>b, <2>1 DEF InsertRecipient
<1>3. CASE FindRecipient(c) \/ CountFields(c) \/ FindRemoved(c) \/ CheckSigner(c)
           \/ CheckBulk(c) \/ ListFields(c) \/ ReadFields(c)
  BY <1>3, <1>b, <1>c DEF FindRecipient, CountFields, FindRemoved, CheckSigner, CheckBulk,
     ListFields, ReadFields, Steps
<1>4. CASE UpdateRecipient(c) \/ DeleteRecipient(c)
  BY <1>0, <1>4, <1>b, <1>d DEF UpdateRecipient, DeleteRecipient, Exists, ArgsRecord
<1>5. CASE InsertField(c)
  <2>1. ASSUME NEW f, args' = [args EXCEPT ![c].what = {f}, ![c].who = NoRecipient]
        PROVE  args'[c].who = NoRecipient /\ \A d \in Call \ {c} : args'[d] = args[d]
    BY <1>0, <2>1 DEF TypeOK, ArgsRecord
  <2> QED
    BY <1>5, <1>b, <1>e, <2>1 DEF InsertField
<1>6. CASE FindField(c)
  BY <1>6, <1>b DEF FindField, Goto, TypeOK, Recorded
<1>7. CASE UpdateField(c) \/ AssignFields(c)
  BY <1>7, <1>b, <1>f DEF UpdateField, AssignFields
<1>8. CASE FindRemovedField(c)
  BY <1>8, <1>b DEF FindRemovedField, Proceed, Goto, TypeOK, Recorded
<1>9. CASE DeleteField(c)
  BY <1>0, <1>9, <1>b, <1>d DEF DeleteField, Recorded
<1>10. CASE ReadRecipients(c)
  BY <1>10 DEF ReadRecipients, Goto, TypeOK, Recorded
<1>11. CASE Send(c) \/ Audit(c) \/ Crash(c)
  BY <1>11, <1>a, <1>b DEF Send, Audit, Crash
<1> QED
  BY <1>1, <1>2, <1>3, <1>4, <1>5, <1>6, <1>7, <1>8, <1>9, <1>10, <1>11 DEF Progress

\* A change is left without its event when its recipient is gone or when the
\* process dies.
LEMMA LostGrows ==
  ASSUME TypeOK, NEW c \in Call, BeginCall(c) \/ Progress(c) \/ Crash(c)
  PROVE  \/ UNCHANGED <<lost, crashes>>
         \/ /\ pc[c] = "audit" /\ lost' = lost \cup {Change(c)}
            /\ \/ ~Auditable(c) /\ crashes' = crashes /\ role' = role
               \/ crashes' = crashes + 1
         \/ lost' = lost /\ crashes' = crashes + 1
<1>1. CASE BeginCall(c)
  BY <1>1 DEF BeginCall, Begin, BeginCreateRecipient, BeginUpdateRecipient,
     BeginRemoveRecipient, BeginCreateField, BeginBulkAssign, BeginRemoveField,
     BeginUpdateField, BeginSend
<1>2. CASE Audit(c) \/ Crash(c)
  BY <1>2 DEF Audit, Crash, tables
<1>3. CASE Progress(c) /\ ~Audit(c)
  BY <1>3 DEF Progress, InsertRecipient, UpdateRecipient, DeleteRecipient, FindRecipient,
     CountFields, FindRemoved, CheckSigner, InsertField, FindField, UpdateField, CheckBulk,
     ListFields, AssignFields, FindRemovedField, DeleteField, ReadRecipients, ReadFields,
     Send, WriteFields, Reject, Proceed
<1> QED
  BY <1>1, <1>2, <1>3

LEMMA LostStep == TypeOK /\ LostInv /\ [Next]_vars => LostInv'
<1> SUFFICES ASSUME TypeOK, LostInv, [Next]_vars PROVE LostInv'
  OBVIOUS
<1>1. CASE UNCHANGED vars
  <2>1. Unexplained' = Unexplained
    BY <1>1 DEF vars, tables, Unexplained, Exists
  <2> QED
    BY <1>1, <2>1 DEF vars, tables, LostInv, Recorded
<1>2. ASSUME NEW c \in Call, BeginCall(c) \/ Progress(c) \/ Crash(c) PROVE LostInv'
  <2>0. /\ args[c] \in ArgsRecord /\ crashes \in Nat /\ lost \subseteq Changes
        /\ IsFiniteSet(Unexplained) /\ Cardinality(Unexplained) <= crashes
        /\ NoRecipient \notin Recipient
    BY DraftAssumption DEF TypeOK, LostInv
  <2>1. /\ \A r \in Recipient : role[r] # "ABSENT" =>
              role'[r] # "ABSENT" /\ (Exists(r)' => Exists(r))
        /\ \A e \in lost : e.who \in Recipient => role[e.who] # "ABSENT"
    BY <1>2, RowsStayUsed DEF LostInv
  <2>2. /\ Recorded(pc[c], args[c])'
        /\ \A d \in Call \ {c} : pc'[d] = pc[d] /\ args'[d] = args[d]
    <3>1. Recorded(pc[c], args[c])
      BY DEF LostInv
    <3> QED
      BY <1>2, <3>1, RecordedStep
  <2>3. \A d \in Call : Recorded(pc[d], args[d])'
    BY <2>1, <2>2 DEF LostInv, Recorded
  <2> DEFINE e == Change(c)
  <2>e. e \in Changes /\ e.who = args[c].who
    BY <2>0 DEF Change, Changes, ArgsRecord
  <2>4. CASE lost' = lost /\ crashes' \in {crashes, crashes + 1}
    <3>1. Unexplained' \subseteq Unexplained
      BY <2>0, <2>1, <2>4 DEF Unexplained, Exists
    <3>2. IsFiniteSet(Unexplained') /\ Cardinality(Unexplained') <= Cardinality(Unexplained)
      BY <2>0, <3>1, FS_Subset
    <3>3. Cardinality(Unexplained) \in Nat /\ Cardinality(Unexplained') \in Nat
      BY <2>0, <3>2, FS_CardinalityType
    <3>4. IsFiniteSet(Unexplained)' /\ Cardinality(Unexplained)' <= crashes'
      BY <2>0, <2>4, <3>2, <3>3
    <3> QED
      BY <2>1, <2>3, <2>4, <3>4 DEF LostInv
  <2>5. CASE /\ pc[c] = "audit" /\ lost' = lost \cup {e}
             /\ \/ ~Auditable(c) /\ crashes' = crashes /\ role' = role
                \/ crashes' = crashes + 1
    <3>0. e.who \in Recipient => role'[e.who] # "ABSENT"
      BY <1>2, <2>1, <2>5, <2>e DEF LostInv, Recorded
    <3>1. \A g \in lost' : g.who \in Recipient => role'[g.who] # "ABSENT"
      BY <2>1, <2>5, <3>0
    <3>2. Unexplained' \subseteq Unexplained \cup {e}
      BY <2>0, <2>1, <2>5 DEF Unexplained, Exists
    <3>3. CASE ~Auditable(c) /\ crashes' = crashes /\ role' = role
      <4>1. e \notin Unexplained'
        BY <2>e, <3>3 DEF Unexplained, Auditable, Exists
      <4>2. IsFiniteSet(Unexplained') /\ Cardinality(Unexplained') <= Cardinality(Unexplained)
        BY <2>0, <3>2, <4>1, FS_Subset
      <4>3. Cardinality(Unexplained) \in Nat /\ Cardinality(Unexplained') \in Nat
        BY <2>0, <4>2, FS_CardinalityType
      <4>4. IsFiniteSet(Unexplained)' /\ Cardinality(Unexplained)' <= crashes'
        BY <2>0, <3>3, <4>2, <4>3
      <4> QED
        BY <2>3, <3>1, <4>4 DEF LostInv
    <3>4. CASE crashes' = crashes + 1
      <4>0. /\ IsFiniteSet(Unexplained \cup {e})
            /\ Cardinality(Unexplained \cup {e}) <= Cardinality(Unexplained) + 1
            /\ Cardinality(Unexplained) \in Nat /\ Cardinality(Unexplained \cup {e}) \in Nat
        <5>1. /\ IsFiniteSet(Unexplained \cup {e})
              /\ Cardinality(Unexplained \cup {e}) = IF e \in Unexplained
                    THEN Cardinality(Unexplained) ELSE Cardinality(Unexplained) + 1
          BY <2>0, FS_AddElement
        <5> QED
          BY <2>0, <5>1, FS_CardinalityType
      <4>1. IsFiniteSet(Unexplained') /\ Cardinality(Unexplained') <= Cardinality(Unexplained \cup {e})
        BY <3>2, <4>0, FS_Subset
      <4>2. Cardinality(Unexplained') \in Nat
        BY <4>1, FS_CardinalityType
      <4>3. IsFiniteSet(Unexplained)' /\ Cardinality(Unexplained)' <= crashes'
        BY <2>0, <3>4, <4>0, <4>1, <4>2
      <4> QED
        BY <2>3, <3>1, <4>3 DEF LostInv
    <3> QED
      BY <2>5, <3>3, <3>4
  <2>6. \/ UNCHANGED <<lost, crashes>>
        \/ /\ pc[c] = "audit" /\ lost' = lost \cup {e}
           /\ \/ ~Auditable(c) /\ crashes' = crashes /\ role' = role
              \/ crashes' = crashes + 1
        \/ lost' = lost /\ crashes' = crashes + 1
    BY <1>2, LostGrows
  <2> HIDE DEF e
  <2> QED
    BY <2>4, <2>5, <2>6
<1> QED
  BY <1>1, <1>2 DEF Next, CallStep

(* A change without an audit event is one of a recipient that was removed  *)
(* before its event could refer to it, or a process died between the       *)
(* change and its event (AuditService.record outside of the change's       *)
(* statement).                                                             *)
THEOREM LostChangesAreExplained == Spec => []LostIsExplained
<1>1. Init => LostInv
  <2> SUFFICES ASSUME Init PROVE LostInv
    OBVIOUS
  <2>1. Unexplained = {}
    BY DEF Init, Unexplained
  <2>2. IsFiniteSet(Unexplained) /\ Cardinality(Unexplained) = 0
    BY <2>1, FS_EmptySet
  <2> QED
    BY <2>2 DEF Init, LostInv, Recorded
<1>2. LostInv => LostIsExplained
  BY DEF LostInv, LostIsExplained, Unexplained
<1> QED
  BY <1>1, <1>2, LostStep, TypeCorrect, PTL DEF Spec

-----------------------------------------------------------------------------
(***************************************************************************)
(* The editor of the web application (EditorView).                         *)
(*                                                                         *)
(* While nothing disturbs the editor there is one thing at a time, Care: a *)
(* gesture, or a mutation that waits for its answer, or a fetch.  What the *)
(* gesture aims at, and then what the mutation asks for, fits the page and *)
(* is what the overlay shows; once it is written the overlay agrees with   *)
(* the row.  That leaves a placement at the edge to be refused, and        *)
(* anything once the document was sent.  The bounds need no care: what     *)
(* passed the check still fits at the write, unless a write came between   *)
(* (Written).                                                              *)
(***************************************************************************)
(* The editor: what its variables are.                                     *)
OverlayRecord == [x : 0..Grid \cup {None}, w : 0..Grid \cup {None}]
GestureRecord == [field : FieldId \cup {None}, prop : Row, now : 0..Grid,
                  moved : BOOLEAN, held : BOOLEAN]
MutationRecord == [kind : {"none", "move", "resize", "place", "remove"},
                   field : FieldId \cup {None}, value : 0..Grid, page : 0..2,
                   step : {"none", "check", "write", "ok", "no"},
                   still : BOOLEAN, heard : BOOLEAN]
LoadRecord == [page : 0..2, step : {"none", "document", "canvas", "drawn"}, cancelled : BOOLEAN]

\* A mutation that is on its way has a kind, and one of a field.
RowsTyped == /\ row \in Rows /\ view \in Rows
             /\ fetch \in [step : {"none", "sent", "read"}, read : Rows]
DraftTyped == owner \in [FieldId -> Role] /\ sent \in BOOLEAN
HandsTyped == overlay \in [FieldId -> OverlayRecord] /\ gesture \in [Kind -> GestureRecord]
CallsTyped == /\ call \in [Mutation -> MutationRecord]
              /\ \A c \in Mutation : call[c] # NoCall => call[c].kind # "none" /\ call[c].field \in FieldId
GesturesFit == \A kind \in Kind : gesture[kind] # NoGesture => gesture[kind].field \in FieldId
FlagsTyped == /\ placing \in BOOLEAN /\ acts \in 0..MaxActs
              /\ others \in BOOLEAN /\ faulty \in BOOLEAN /\ hasty \in BOOLEAN
              /\ crossed \in BOOLEAN /\ refused \in BOOLEAN /\ edge \in BOOLEAN

ViewerTyped == /\ page \in Page /\ image \in 0..2 /\ loading \in BOOLEAN /\ error \in BOOLEAN
               /\ load \in [Load -> LoadRecord]

Typed == /\ RowsTyped /\ HandsTyped /\ CallsTyped /\ GesturesFit /\ FlagsTyped /\ ViewerTyped
         /\ DraftTyped

LEMMA GridFacts ==
    /\ Grid \in Nat /\ Grid >= 1 /\ 0 \in 0..Grid /\ 1 \in 0..Grid
    /\ PlacedWidth \in 0..Grid /\ PlacedWidth >= 1 /\ MaxActs \in Nat
    /\ None \notin FieldId /\ None \notin 0..Grid /\ Old \subseteq FieldId
<1>1. /\ Grid \in Nat \ {0} /\ PlacedWidth \in 1..Grid /\ MaxActs \in Nat
      /\ None \notin FieldId /\ None \notin Nat /\ Old \subseteq FieldId
  BY EditorAssumption
<1>2. \A i \in 0..Grid : i \in Nat
  BY <1>1
<1> QED
  BY <1>1, <1>2

LEMMA Blank ==
    /\ NoRow \in Row /\ NoRow.x = 0 /\ NoRow.w = 0 /\ NoRow.page = 0
    /\ NoOverlay \in OverlayRecord /\ NoOverlay.x = None /\ NoOverlay.w = None
    /\ NoGesture \in GestureRecord /\ NoGesture.held = FALSE /\ NoGesture.field = None
    /\ NoCall \in MutationRecord /\ NoCall.kind = "none" /\ NoCall.step = "none"
    /\ NoCall.field = None /\ NoCall.still = FALSE
    /\ NoLoad \in LoadRecord /\ NoLoad.step = "none" /\ NoLoad.cancelled = FALSE
    /\ NoFetch \in [step : {"none", "sent", "read"}, read : Rows] /\ NoFetch.step = "none"
<1> USE GridFacts
<1>1. NoRow \in Row /\ NoRow.x = 0 /\ NoRow.w = 0 /\ NoRow.page = 0
  BY DEF NoRow, Row
<1>2. NoOverlay \in OverlayRecord /\ NoOverlay.x = None /\ NoOverlay.w = None
  BY DEF NoOverlay, OverlayRecord
<1>3. NoGesture \in GestureRecord /\ NoGesture.held = FALSE /\ NoGesture.field = None
  BY <1>1 DEF NoGesture, GestureRecord
<1>4. /\ NoCall \in MutationRecord /\ NoCall.kind = "none" /\ NoCall.step = "none"
      /\ NoCall.field = None /\ NoCall.still = FALSE
  BY DEF NoCall, MutationRecord
<1>5. NoLoad \in LoadRecord /\ NoLoad.step = "none" /\ NoLoad.cancelled = FALSE
  BY DEF NoLoad, LoadRecord
<1>6. NoFetch \in [step : {"none", "sent", "read"}, read : Rows] /\ NoFetch.step = "none"
  BY <1>1 DEF NoFetch, Rows
<1> QED
  BY <1>1, <1>2, <1>3, <1>4, <1>5, <1>6

LEMMA InitTyped == EditorInit => Typed
<1> SUFFICES ASSUME EditorInit PROVE Typed
  OBVIOUS
<1> USE GridFacts
<1>1. row \in Rows
  <2>1. [x |-> 0, w |-> 1, page |-> 1] \in Row
    BY DEF Row
  <2> QED
    BY <2>1, Blank DEF EditorInit, Rows
<1>2. RowsTyped
  BY <1>1, Blank DEF EditorInit, RowsTyped
<1>3. HandsTyped
  BY Blank DEF EditorInit, HandsTyped
<1>4. CallsTyped /\ GesturesFit
  BY Blank DEF EditorInit, CallsTyped, GesturesFit
<1>5. FlagsTyped
  <2>1. acts = 0 /\ placing = FALSE
    BY DEF EditorInit
  <2>2. /\ others = FALSE /\ faulty = FALSE /\ hasty = FALSE
        /\ crossed = FALSE /\ refused = FALSE /\ edge = FALSE
    BY DEF EditorInit
  <2>3. acts \in 0..MaxActs
    BY <2>1
  <2> QED
    BY <2>1, <2>2, <2>3 DEF FlagsTyped
<1>6. ViewerTyped
  <2>1. page = 1 /\ image = 1 /\ loading = FALSE /\ error = FALSE /\ load = [l \in Load |-> NoLoad]
    BY DEF EditorInit
  <2>2. load \in [Load -> LoadRecord]
    BY <2>1, Blank
  <2>3. page \in Page /\ image \in 0..2
    BY <2>1 DEF Page
  <2> QED
    BY <2>1, <2>2, <2>3 DEF ViewerTyped
<1>7. DraftTyped
  BY DEF EditorInit, DraftTyped, Role
<1> QED
  BY <1>2, <1>3, <1>4, <1>5, <1>6, <1>7 DEF Typed

(* Rows that are moved, resized, placed or removed are rows.               *)
LEMMA RowWith ==
    ASSUME NEW r \in Row, NEW n \in 0..Grid
    PROVE  /\ [r EXCEPT !.x = n] \in Row /\ [r EXCEPT !.w = n] \in Row
           /\ [r EXCEPT !.x = n].x = n /\ [r EXCEPT !.x = n].w = r.w /\ [r EXCEPT !.x = n].page = r.page
           /\ [r EXCEPT !.w = n].w = n /\ [r EXCEPT !.w = n].x = r.x /\ [r EXCEPT !.w = n].page = r.page
           /\ r.x = n => [r EXCEPT !.x = n] = r
           /\ r.w = n => [r EXCEPT !.w = n] = r
           /\ r.x \in 0..Grid /\ r.w \in 0..Grid
  BY DEF Row

LEMMA MergedRow ==
    ASSUME RowsTyped, NEW q \in MutationRecord, q.kind # "none", q.field \in FieldId
    PROVE  /\ Merged(q) \in Row
           /\ q.kind = "move" => Merged(q) = [row[q.field] EXCEPT !.x = q.value]
           /\ q.kind = "resize" => Merged(q) = [row[q.field] EXCEPT !.w = q.value]
           /\ q.kind = "remove" => Merged(q) = NoRow
           /\ q.kind = "place" => Merged(q).x = q.value /\ Merged(q).w = PlacedWidth
<1>1. row[q.field] \in Row /\ q.value \in 0..Grid /\ q.page \in 0..2
      /\ q.kind \in {"move", "resize", "place", "remove"}
  BY DEF RowsTyped, Rows, MutationRecord
<1>2. [x |-> q.value, w |-> PlacedWidth, page |-> q.page] \in Row
  BY <1>1, GridFacts DEF Row
<1>3. /\ [row[q.field] EXCEPT !.x = q.value] \in Row
      /\ [row[q.field] EXCEPT !.w = q.value] \in Row
  BY <1>1, RowWith
<1> QED
  BY <1>1, <1>2, <1>3, Blank DEF Merged

LEMMA ShownTyped ==
    ASSUME RowsTyped, HandsTyped, NEW f \in FieldId
    PROVE  ShownX(f) \in 0..Grid /\ ShownW(f) \in 0..Grid
<1>1. view[f].x \in 0..Grid /\ view[f].w \in 0..Grid
  BY DEF RowsTyped, Rows, Row
<1>2. overlay[f].x \in 0..Grid \cup {None} /\ overlay[f].w \in 0..Grid \cup {None}
  BY DEF HandsTyped, OverlayRecord
<1> QED
  BY <1>1, <1>2 DEF ShownX, ShownW

(* What a gesture makes of a field stays within the page it was taken      *)
(* from.                                                                   *)
LEMMA ClampedTyped ==
    ASSUME NEW g \in GestureRecord, NEW v \in 0..Grid
    PROVE  /\ MovedTo(g, v) \in 0..Grid /\ ResizedTo(g, v) \in 0..Grid
           /\ MovedTo(g, v) + g.prop.w <= Grid
           /\ g.prop.x + 1 <= Grid => ResizedTo(g, v) >= 1 /\ g.prop.x + ResizedTo(g, v) <= Grid
<1>1. g.prop.x \in 0..Grid /\ g.prop.w \in 0..Grid
  BY DEF GestureRecord, Row
<1> QED
  BY <1>1, GridFacts DEF MovedTo, ResizedTo, Clamp

(* Which steps write what.                                                 *)
Mutates == \E c \in Mutation :
    \/ \E kind \in Kind : Release(c, kind)
    \/ \E f \in FieldId : Remove(c, f) \/ \E x \in 0..Grid : PlaceField(c, f, x)
Handles == \E kind \in Kind :
    \/ Cancel(kind) \/ \E f \in FieldId : Press(f, kind)
    \/ \E c \in Mutation : Release(c, kind)
Drags == \E v \in 0..Grid : MoveField(v) \/ ResizeField(v)
Reruns == \E l \in Load : Renew(l) \/ \E p \in Page : TurnPage(l, p)
Renders == \E l \in Load : Render(l) \/ Fail(l)
Settles == \E c \in Mutation : Answer(c) \/ Lose(c) \/ Forget(c)
Edits == \E f \in FieldId : OtherEdits(f)
Drafts == SendDocument \/ \E F \in SUBSET FieldId, fate \in Role : OtherAssigns(F, fate)

LEMMA EditorCases ==
    ASSUME [EditorNext]_editorVars
    PROVE  \/ UNCHANGED editorVars \/ TogglePlacing
           \/ Mutates \/ Handles \/ Drags \/ Edits \/ Drafts \/ Reruns \/ Renders \/ Settles
           \/ (\E c \in Mutation : Check(c) \/ Write(c))
           \/ Refocus \/ Read \/ Fetched
  BY DEF EditorNext, Gesture, Serve, Arrive, Mutates, Handles, Drags, Reruns, Renders, Settles,
         Edits, Drafts

LEMMA RowFrame ==
    ASSUME [EditorNext]_editorVars
    PROVE  row' = row \/ Edits \/ \E c \in Mutation : Write(c)
<1>1. ASSUME Mutates PROVE row' = row
  BY <1>1 DEF Mutates, Release, Remove, PlaceField
<1>2. ASSUME Handles PROVE row' = row
  BY <1>2 DEF Handles, Cancel, Press, Release
<1>3. ASSUME Drags PROVE row' = row
  BY <1>3 DEF Drags, MoveField, ResizeField
<1>4. ASSUME Reruns PROVE row' = row
  BY <1>4 DEF Reruns, Renew, TurnPage, Rerun
<1>5. ASSUME Renders PROVE row' = row
  BY <1>5 DEF Renders, Render, Document, Draw, Finish, Fail, fields
<1>6. ASSUME Settles PROVE row' = row
  BY <1>6 DEF Settles, Answer, Lose, Forget
<1>7. ASSUME UNCHANGED editorVars \/ TogglePlacing \/ Refocus \/ Read \/ Fetched
             \/ \E c \in Mutation : Check(c)
      PROVE  row' = row
  BY <1>7 DEF editorVars, fields, TogglePlacing, Refocus, Read, Fetched, Check
<1>8. ASSUME Drafts PROVE row' = row
  BY <1>8 DEF Drafts, OtherAssigns, SendDocument
<1> QED
  BY EditorCases, <1>1, <1>2, <1>3, <1>4, <1>5, <1>6, <1>7, <1>8

LEMMA DraftFrame ==
    ASSUME [EditorNext]_editorVars
    PROVE  UNCHANGED draft \/ Drafts
<1>1. ASSUME Mutates PROVE UNCHANGED draft
  BY <1>1 DEF Mutates, Release, Remove, PlaceField, draft
<1>2. ASSUME Handles PROVE UNCHANGED draft
  BY <1>2 DEF Handles, Cancel, Press, Release, draft
<1>3. ASSUME Drags PROVE UNCHANGED draft
  BY <1>3 DEF Drags, MoveField, ResizeField, draft
<1>4. ASSUME Reruns PROVE UNCHANGED draft
  BY <1>4 DEF Reruns, Renew, TurnPage, Rerun, draft
<1>5. ASSUME Renders PROVE UNCHANGED draft
  BY <1>5 DEF Renders, Render, Document, Draw, Finish, Fail, fields, draft
<1>6. ASSUME Settles PROVE UNCHANGED draft
  BY <1>6 DEF Settles, Answer, Lose, Forget, draft
<1>7. ASSUME UNCHANGED editorVars \/ TogglePlacing \/ Edits \/ Refocus \/ Read \/ Fetched
             \/ \E c \in Mutation : Check(c) \/ Write(c)
      PROVE  UNCHANGED draft
  BY <1>7 DEF editorVars, fields, draft, TogglePlacing, Edits, OtherEdits, Check, Write,
              Refocus, Read, Fetched
<1> QED
  BY EditorCases, <1>1, <1>2, <1>3, <1>4, <1>5, <1>6, <1>7

LEMMA ViewFrame ==
    ASSUME [EditorNext]_editorVars
    PROVE  /\ view' = view \/ Fetched
           /\ fetch' = fetch \/ Refocus \/ Read \/ Fetched \/ \E c \in Mutation : Answer(c)
<1> DEFINE Same == view' = view /\ fetch' = fetch
<1>1. ASSUME Mutates PROVE Same
  BY <1>1 DEF Mutates, Release, Remove, PlaceField
<1>2. ASSUME Handles PROVE Same
  BY <1>2 DEF Handles, Cancel, Press, Release
<1>3. ASSUME Drags PROVE Same
  BY <1>3 DEF Drags, MoveField, ResizeField
<1>4. ASSUME Reruns PROVE Same
  BY <1>4 DEF Reruns, Renew, TurnPage, Rerun
<1>5. ASSUME Renders PROVE Same
  BY <1>5 DEF Renders, Render, Document, Draw, Finish, Fail, fields
<1>6. ASSUME Settles PROVE view' = view /\ (fetch' = fetch \/ \E c \in Mutation : Answer(c))
  BY <1>6 DEF Settles, Answer, Lose, Forget
<1>7. ASSUME UNCHANGED editorVars \/ TogglePlacing \/ Edits
             \/ \E c \in Mutation : Check(c) \/ Write(c)
      PROVE  Same
  BY <1>7 DEF editorVars, fields, TogglePlacing, Edits, OtherEdits, Check, Write
<1>8. ASSUME Refocus \/ Read PROVE view' = view
  BY <1>8 DEF Refocus, Read
<1>9. ASSUME Drafts PROVE Same
  BY <1>9 DEF Drafts, OtherAssigns, SendDocument
<1> QED
  BY EditorCases, <1>1, <1>2, <1>3, <1>4, <1>5, <1>6, <1>7, <1>8, <1>9

LEMMA HandsFrame ==
    ASSUME [EditorNext]_editorVars
    PROVE  /\ overlay' = overlay \/ Drags
           /\ gesture' = gesture \/ Drags \/ Handles \/ Reruns
<1> DEFINE Same == overlay' = overlay /\ gesture' = gesture
<1>1. ASSUME Mutates PROVE overlay' = overlay /\ (gesture' = gesture \/ Handles)
  BY <1>1 DEF Mutates, Handles, Release, Remove, PlaceField
<1>2. ASSUME Handles PROVE overlay' = overlay
  BY <1>2 DEF Handles, Cancel, Press, Release
<1>3. ASSUME Settles PROVE Same
  BY <1>3 DEF Settles, Answer, Lose, Forget
<1>4. ASSUME Reruns PROVE overlay' = overlay
  BY <1>4 DEF Reruns, Renew, TurnPage, Rerun
<1>5. ASSUME Renders PROVE Same
  BY <1>5 DEF Renders, Render, Document, Draw, Finish, Fail, fields
<1>6. ASSUME UNCHANGED editorVars \/ TogglePlacing \/ Edits \/ Refocus \/ Read \/ Fetched
             \/ \E c \in Mutation : Check(c) \/ Write(c)
      PROVE  Same
  BY <1>6 DEF editorVars, fields, TogglePlacing, Edits, OtherEdits, Check, Write,
              Refocus, Read, Fetched
<1>7. ASSUME Drafts PROVE Same
  BY <1>7 DEF Drafts, OtherAssigns, SendDocument
<1> QED
  BY EditorCases, <1>1, <1>2, <1>3, <1>4, <1>5, <1>6, <1>7

LEMMA CallFrame ==
    ASSUME [EditorNext]_editorVars
    PROVE  call' = call \/ Mutates \/ Settles \/ \E c \in Mutation : Check(c) \/ Write(c)
<1>1. ASSUME Handles PROVE call' = call \/ Mutates
  BY <1>1 DEF Mutates, Handles, Release, Cancel, Press
<1>2. ASSUME Drags PROVE call' = call
  BY <1>2 DEF Drags, MoveField, ResizeField
<1>3. ASSUME Reruns PROVE call' = call
  BY <1>3 DEF Reruns, Renew, TurnPage, Rerun
<1>4. ASSUME Renders PROVE call' = call
  BY <1>4 DEF Renders, Render, Document, Draw, Finish, Fail, fields
<1>5. ASSUME UNCHANGED editorVars \/ TogglePlacing \/ Edits \/ Refocus \/ Read \/ Fetched
      PROVE  call' = call
  BY <1>5 DEF editorVars, fields, TogglePlacing, Edits, OtherEdits, Refocus, Read, Fetched
<1>6. ASSUME Drafts PROVE call' = call
  BY <1>6 DEF Drafts, OtherAssigns, SendDocument
<1> QED
  BY EditorCases, <1>1, <1>2, <1>3, <1>4, <1>5, <1>6

LEMMA ViewerFrame ==
    ASSUME [EditorNext]_editorVars
    PROVE  UNCHANGED viewer \/ Reruns \/ Renders
<1>1. ASSUME Mutates PROVE UNCHANGED viewer
  BY <1>1 DEF Mutates, Release, Remove, PlaceField, viewer
<1>2. ASSUME Handles PROVE UNCHANGED viewer
  BY <1>2 DEF Handles, Cancel, Press, Release, viewer
<1>3. ASSUME Drags PROVE UNCHANGED viewer
  BY <1>3 DEF Drags, MoveField, ResizeField, viewer
<1>4. ASSUME Settles PROVE UNCHANGED viewer
  BY <1>4 DEF Settles, Answer, Lose, Forget, viewer
<1>5. ASSUME UNCHANGED editorVars \/ TogglePlacing \/ Edits \/ Refocus \/ Read \/ Fetched
             \/ \E c \in Mutation : Check(c) \/ Write(c)
      PROVE  UNCHANGED viewer
  BY <1>5 DEF editorVars, viewer, TogglePlacing, Edits, OtherEdits, Check, Write,
              Refocus, Read, Fetched
<1>6. ASSUME Drafts PROVE UNCHANGED viewer
  BY <1>6 DEF Drafts, OtherAssigns, SendDocument, viewer
<1> QED
  BY EditorCases, <1>1, <1>2, <1>3, <1>4, <1>5, <1>6

(* The document stays sent, and recipients change by the hands of others.  *)
Assigned == \A f \in FieldId : owner[f] = "signer"

LEMMA DraftStep ==
    ASSUME Typed, [EditorNext]_editorVars
    PROVE  /\ DraftTyped' /\ (sent = TRUE => sent' = TRUE)
           /\ owner' = owner \/ others' = TRUE
<1>0. owner \in [FieldId -> Role] /\ sent \in BOOLEAN
  BY DEF Typed, DraftTyped
<1>1. CASE UNCHANGED draft
  BY <1>0, <1>1 DEF draft, DraftTyped
<1>2. CASE SendDocument
  BY <1>0, <1>2 DEF SendDocument, DraftTyped
<1>3. ASSUME NEW F \in SUBSET FieldId, NEW fate \in Role, OtherAssigns(F, fate)
      PROVE  DraftTyped' /\ sent' = sent /\ others' = TRUE
  <2>1. /\ owner' = [f \in FieldId |-> IF f \in F THEN fate ELSE owner[f]]
        /\ sent' = sent /\ others' = TRUE
    BY <1>3 DEF OtherAssigns
  <2>2. owner' \in [FieldId -> Role]
    BY <1>0, <2>1
  <2> QED
    BY <1>0, <2>1, <2>2 DEF DraftTyped
<1> QED
  BY <1>1, <1>2, <1>3, DraftFrame DEF Drafts

LEMMA RowsStep ==
    ASSUME Typed, [EditorNext]_editorVars
    PROVE  RowsTyped'
<1> USE DEF Typed, RowsTyped
<1>1. row' \in Rows
  <2>1. ASSUME NEW c \in Mutation, Write(c) PROVE row' \in Rows
    <3>1. call[c] \in MutationRecord
      BY DEF CallsTyped
    <3>2. call[c] # NoCall
      BY <2>1, Blank DEF Write
    <3>3. call[c].kind # "none" /\ call[c].field \in FieldId
      BY <3>2 DEF CallsTyped
    <3>4. Merged(call[c]) \in Row
      BY <3>1, <3>3, MergedRow
    <3> QED
      BY <2>1, <3>3, <3>4 DEF Write, Rows, To
  <2>2. ASSUME NEW f \in FieldId, OtherEdits(f) PROVE row' \in Rows
    <3>1. PICK x \in 0..Grid, w \in 1..Grid : row' = [row EXCEPT ![f].x = x, ![f].w = w]
      BY <2>2 DEF OtherEdits
    <3>2. row[f] \in Row /\ w \in 0..Grid
      BY GridFacts DEF Rows
    <3>3. [[row[f] EXCEPT !.x = x] EXCEPT !.w = w] \in Row
      BY <3>2 DEF Row
    <3> QED
      BY <3>1, <3>2, <3>3 DEF Rows
  <2> QED
    BY <2>1, <2>2, RowFrame DEF Edits
<1>2. view' \in Rows
  BY ViewFrame DEF Fetched
<1>3. fetch' \in [step : {"none", "sent", "read"}, read : Rows]
  <2>1. [NoFetch EXCEPT !.step = "sent"] \in [step : {"none", "sent", "read"}, read : Rows]
    BY Blank
  <2>2. ASSUME NEW c \in Mutation, Answer(c)
        PROVE  fetch' \in [step : {"none", "sent", "read"}, read : Rows]
    BY <2>1, <2>2 DEF Answer, Invalidated
  <2>3. ASSUME Refocus \/ Read \/ Fetched
        PROVE  fetch' \in [step : {"none", "sent", "read"}, read : Rows]
    BY <2>1, <2>3, Blank DEF Refocus, Read, Fetched
  <2> QED
    BY <2>2, <2>3, ViewFrame
<1> QED
  BY <1>1, <1>2, <1>3

LEMMA NotHeldIsFree == [NoGesture EXCEPT !.held = FALSE] = NoGesture
<1>1. ASSUME NEW g \in GestureRecord, g.held = FALSE PROVE [g EXCEPT !.held = FALSE] = g
  BY <1>1 DEF GestureRecord
<1> QED
  BY <1>1, Blank

LEMMA HandsStep ==
    ASSUME Typed, [EditorNext]_editorVars
    PROVE  HandsTyped' /\ GesturesFit'
<1>0. /\ overlay \in [FieldId -> OverlayRecord] /\ gesture \in [Kind -> GestureRecord]
      /\ \A kind \in Kind : gesture[kind] # NoGesture => gesture[kind].field \in FieldId
      /\ row \in Rows /\ view \in Rows
  BY DEF Typed, HandsTyped, GesturesFit, RowsTyped
<1>k. "move" \in Kind /\ "resize" \in Kind
  BY DEF Kind
<1>1. ASSUME NEW v \in 0..Grid, MoveField(v) PROVE HandsTyped' /\ GesturesFit'
  <2> DEFINE g == gesture["move"]
             n == MovedTo(g, v)
  <2>1. g \in GestureRecord /\ g # NoGesture /\ g.field \in FieldId
    BY <1>0, <1>1, <1>k DEF MoveField, Moving
  <2>2. n \in 0..Grid
    BY <2>1, ClampedTyped
  <2>3. /\ gesture' = [gesture EXCEPT !["move"].now = n, !["move"].moved = TRUE]
        /\ overlay' = [overlay EXCEPT ![g.field].x = n]
    BY <1>1 DEF MoveField
  <2> HIDE DEF n
  <2>4. gesture'["move"] = [[g EXCEPT !.now = n] EXCEPT !.moved = TRUE]
    BY <1>0, <1>k, <2>3
  <2>5. gesture'["move"] \in GestureRecord /\ gesture'["move"].field = g.field
    BY <2>1, <2>2, <2>4 DEF GestureRecord
  <2>6. gesture' \in [Kind -> GestureRecord] /\ gesture'["resize"] = gesture["resize"]
    BY <1>0, <1>k, <2>3, <2>5
  <2>7. [overlay[g.field] EXCEPT !.x = n] \in OverlayRecord
    BY <1>0, <2>1, <2>2 DEF OverlayRecord
  <2>8. overlay' \in [FieldId -> OverlayRecord]
    BY <1>0, <2>1, <2>3, <2>7
  <2> QED
    BY <1>0, <2>1, <2>5, <2>6, <2>8 DEF HandsTyped, GesturesFit, Kind
<1>2. ASSUME NEW v \in 0..Grid, ResizeField(v) PROVE HandsTyped' /\ GesturesFit'
  <2> DEFINE g == gesture["resize"]
             n == ResizedTo(g, v)
  <2>1. g \in GestureRecord /\ g # NoGesture /\ g.field \in FieldId
    BY <1>0, <1>2, <1>k DEF ResizeField, Moving
  <2>2. n \in 0..Grid
    BY <2>1, ClampedTyped
  <2>3. /\ gesture' = [gesture EXCEPT !["resize"].now = n, !["resize"].moved = TRUE]
        /\ overlay' = [overlay EXCEPT ![g.field] = [x |-> g.prop.x, w |-> n]]
    BY <1>2 DEF ResizeField
  <2> HIDE DEF n
  <2>4. gesture'["resize"] = [[g EXCEPT !.now = n] EXCEPT !.moved = TRUE]
    BY <1>0, <1>k, <2>3
  <2>5. gesture'["resize"] \in GestureRecord /\ gesture'["resize"].field = g.field
    BY <2>1, <2>2, <2>4 DEF GestureRecord
  <2>6. gesture' \in [Kind -> GestureRecord] /\ gesture'["move"] = gesture["move"]
    BY <1>0, <1>k, <2>3, <2>5
  <2>7. [x |-> g.prop.x, w |-> n] \in OverlayRecord
    BY <2>1, <2>2 DEF OverlayRecord, GestureRecord, Row
  <2>8. overlay' \in [FieldId -> OverlayRecord]
    BY <1>0, <2>1, <2>3, <2>7
  <2> QED
    BY <1>0, <2>1, <2>5, <2>6, <2>8 DEF HandsTyped, GesturesFit, Kind
<1>3. ASSUME NEW kind \in Kind, NEW f \in FieldId, Press(f, kind) PROVE HandsTyped' /\ GesturesFit'
  <2> DEFINE g == [field |-> f, prop |-> view[f], moved |-> FALSE, held |-> TRUE,
                   now |-> IF kind = "move" THEN ShownX(f) ELSE ShownW(f)]
  <2>1. ShownX(f) \in 0..Grid /\ ShownW(f) \in 0..Grid
    BY ShownTyped DEF Typed
  <2>2. g \in GestureRecord /\ g.field = f
    BY <1>0, <2>1 DEF GestureRecord, Rows
  <2>3. gesture' = [gesture EXCEPT ![kind] = g] /\ overlay' = overlay
    BY <1>3 DEF Press
  <2> HIDE DEF g
  <2> QED
    BY <1>0, <2>2, <2>3 DEF HandsTyped, GesturesFit
<1>4. ASSUME NEW kind \in Kind, gesture' = [gesture EXCEPT ![kind] = NoGesture], overlay' = overlay
      PROVE  HandsTyped' /\ GesturesFit'
  BY <1>0, <1>4, Blank DEF HandsTyped, GesturesFit
<1>5. ASSUME Handles PROVE HandsTyped' /\ GesturesFit'
  BY <1>3, <1>4, <1>5 DEF Handles, Cancel, Release
<1>6. ASSUME Reruns PROVE HandsTyped' /\ GesturesFit'
  <2>1. /\ gesture' = [kind \in Kind |-> [gesture[kind] EXCEPT !.held = FALSE]]
        /\ overlay' = overlay
    BY <1>6 DEF Reruns, Renew, TurnPage, Rerun
  <2>2. ASSUME NEW kind \in Kind
        PROVE  /\ gesture'[kind] \in GestureRecord
               /\ gesture'[kind] # NoGesture => gesture'[kind].field \in FieldId
    <3>1. gesture'[kind] = [gesture[kind] EXCEPT !.held = FALSE]
      BY <2>1
    <3>2. gesture'[kind] \in GestureRecord /\ gesture'[kind].field = gesture[kind].field
      BY <1>0, <3>1 DEF GestureRecord
    <3> QED
      BY <1>0, <3>1, <3>2, NotHeldIsFree
  <2>3. gesture' \in [Kind -> GestureRecord]
    BY <2>1, <2>2
  <2> QED
    BY <1>0, <2>1, <2>2, <2>3 DEF HandsTyped, GesturesFit
<1>7. ASSUME overlay' = overlay, gesture' = gesture PROVE HandsTyped' /\ GesturesFit'
  BY <1>0, <1>7 DEF HandsTyped, GesturesFit
<1> QED
  BY <1>1, <1>2, <1>5, <1>6, <1>7, HandsFrame DEF Drags

LEMMA CallsStep ==
    ASSUME Typed, [EditorNext]_editorVars
    PROVE  CallsTyped'
<1>0. /\ call \in [Mutation -> MutationRecord]
      /\ \A c \in Mutation : call[c] # NoCall => call[c].kind # "none" /\ call[c].field \in FieldId
      /\ gesture \in [Kind -> GestureRecord]
      /\ \A kind \in Kind : gesture[kind] # NoGesture => gesture[kind].field \in FieldId
      /\ page \in Page
  BY DEF Typed, CallsTyped, HandsTyped, GesturesFit, ViewerTyped
<1>1. ASSUME NEW c \in Mutation, NEW kind \in {"move", "resize", "place", "remove"},
             NEW f \in FieldId, NEW n \in 0..Grid, NEW p \in 0..2, NEW b \in BOOLEAN,
             Mutate(c, kind, f, n, p, b)
      PROVE  CallsTyped'
  <2> DEFINE q == [kind |-> kind, field |-> f, value |-> n, page |-> p, step |-> "check",
                   still |-> b, heard |-> TRUE]
  <2>1. q \in MutationRecord /\ q.kind # "none" /\ q.field = f
    BY DEF MutationRecord
  <2>2. call' = [call EXCEPT ![c] = q]
    BY <1>1 DEF Mutate
  <2> HIDE DEF q
  <2> QED
    BY <1>0, <2>1, <2>2 DEF CallsTyped
<1>2. ASSUME Mutates PROVE CallsTyped'
  <2>1. PICK c \in Mutation : \/ \E kind \in Kind : Release(c, kind)
                              \/ \E f \in FieldId : Remove(c, f) \/ \E x \in 0..Grid : PlaceField(c, f, x)
    BY <1>2 DEF Mutates
  <2>2. ASSUME NEW kind \in Kind, Release(c, kind) PROVE CallsTyped'
    <3>1. /\ gesture[kind] \in GestureRecord /\ gesture[kind].field \in FieldId
          /\ Mutate(c, kind, gesture[kind].field, gesture[kind].now, 0, (~gesture[kind].moved))
      BY <1>0, <2>2 DEF Release, Released
    <3>2. gesture[kind].now \in 0..Grid /\ (~gesture[kind].moved) \in BOOLEAN
      BY <3>1 DEF GestureRecord
    <3>3. kind \in {"move", "resize", "place", "remove"} /\ 0 \in 0..2
      BY DEF Kind
    <3> QED
      BY <1>1, <3>1, <3>2, <3>3
  <2>3. ASSUME NEW f \in FieldId, Remove(c, f) PROVE CallsTyped'
    <3>1. Mutate(c, "remove", f, 0, 0, FALSE)
      BY <2>3 DEF Remove
    <3>2. 0 \in 0..Grid /\ 0 \in 0..2
      BY GridFacts
    <3> QED
      BY <1>1, <3>1, <3>2
  <2>4. ASSUME NEW f \in FieldId, NEW x \in 0..Grid, PlaceField(c, f, x) PROVE CallsTyped'
    <3>1. Mutate(c, "place", f, x, page, FALSE)
      BY <2>4 DEF PlaceField
    <3>2. page \in 0..2
      BY <1>0 DEF Page
    <3> QED
      BY <1>1, <3>1, <3>2
  <2> QED
    BY <2>1, <2>2, <2>3, <2>4
<1>3. ASSUME NEW c \in Mutation, call[c] # NoCall, NEW step \in {"check", "write", "ok", "no"}, To(c, step)
      PROVE  CallsTyped'
  <2>1. call[c] \in MutationRecord
    BY <1>0
  <2>2. [call[c] EXCEPT !.step = step] \in MutationRecord
        /\ [call[c] EXCEPT !.step = step].kind = call[c].kind
        /\ [call[c] EXCEPT !.step = step].field = call[c].field
    BY <2>1 DEF MutationRecord
  <2> QED
    BY <1>0, <1>3, <2>2 DEF CallsTyped, To
<1>4. ASSUME NEW c \in Mutation, Check(c) \/ Write(c) PROVE CallsTyped'
  <2>1. call[c] # NoCall
    BY <1>4, Blank DEF Check, Write
  <2> QED
    BY <1>3, <1>4, <2>1 DEF Check, Write
<1>5. ASSUME NEW c \in Mutation, call' = [call EXCEPT ![c] = NoCall] PROVE CallsTyped'
  BY <1>0, <1>5, Blank DEF CallsTyped
<1>6. ASSUME NEW c \in Mutation, call[c].step \in {"check", "write"},
             call' = [call EXCEPT ![c].heard = FALSE]
      PROVE  CallsTyped'
  <2>1. call[c] \in MutationRecord /\ call[c] # NoCall
    BY <1>0, <1>6, Blank
  <2>2. [call[c] EXCEPT !.heard = FALSE] \in MutationRecord
        /\ [call[c] EXCEPT !.heard = FALSE].kind = call[c].kind
        /\ [call[c] EXCEPT !.heard = FALSE].field = call[c].field
    BY <2>1 DEF MutationRecord
  <2> QED
    BY <1>0, <1>6, <2>1, <2>2 DEF CallsTyped
<1>7. ASSUME Settles PROVE CallsTyped'
  BY <1>5, <1>6, <1>7 DEF Settles, Answer, Lose, Forget
<1>8. ASSUME call' = call PROVE CallsTyped'
  BY <1>0, <1>8 DEF CallsTyped
<1> QED
  BY <1>2, <1>4, <1>7, <1>8, CallFrame

(* The counter of acts, and the flags, which are never taken back.         *)
LEMMA FlagsStep ==
    ASSUME Typed, [EditorNext]_editorVars
    PROVE  /\ FlagsTyped'
           /\ (others = TRUE => others' = TRUE) /\ (faulty = TRUE => faulty' = TRUE)
           /\ (hasty = TRUE => hasty' = TRUE)
           /\ (crossed = TRUE => crossed' = TRUE) /\ (refused = TRUE => refused' = TRUE)
           /\ (edge = TRUE => edge' = TRUE)
<1>0. /\ acts \in 0..MaxActs /\ placing \in BOOLEAN
      /\ others \in BOOLEAN /\ faulty \in BOOLEAN /\ hasty \in BOOLEAN
      /\ crossed \in BOOLEAN /\ refused \in BOOLEAN /\ edge \in BOOLEAN
  BY DEF Typed, FlagsTyped
<1>1. ASSUME Act PROVE acts' \in 0..MaxActs
  BY <1>0, <1>1, GridFacts DEF Act
<1>2. acts' \in 0..MaxActs /\ placing' \in BOOLEAN
  <2>1. ASSUME Mutates PROVE acts' \in 0..MaxActs /\ placing' \in BOOLEAN
    BY <1>0, <1>1, <2>1 DEF Mutates, Release, Remove, PlaceField, BeginGesture
  <2>2. ASSUME Handles PROVE acts' \in 0..MaxActs /\ placing' \in BOOLEAN
    BY <1>0, <1>1, <2>2 DEF Handles, Cancel, Press, Release, BeginGesture, Fault
  <2>3. ASSUME Drags PROVE acts' \in 0..MaxActs /\ placing' \in BOOLEAN
    BY <1>0, <2>3 DEF Drags, MoveField, ResizeField
  <2>4. ASSUME Reruns PROVE acts' \in 0..MaxActs /\ placing' \in BOOLEAN
    BY <1>0, <1>1, <2>4 DEF Reruns, Renew, TurnPage, Rerun
  <2>5. ASSUME Renders PROVE acts' \in 0..MaxActs /\ placing' \in BOOLEAN
    BY <1>0, <1>1, <2>5 DEF Renders, Render, Document, Draw, Finish, Fail, Fault, fields
  <2>6. ASSUME Settles PROVE acts' \in 0..MaxActs /\ placing' \in BOOLEAN
    BY <1>0, <1>1, <2>6 DEF Settles, Answer, Lose, Forget, Fault
  <2>7. ASSUME \/ UNCHANGED editorVars \/ TogglePlacing \/ Edits \/ Refocus \/ Read \/ Fetched
               \/ \E c \in Mutation : Check(c) \/ Write(c)
        PROVE  acts' \in 0..MaxActs /\ placing' \in BOOLEAN
    BY <1>0, <1>1, <2>7 DEF editorVars, fields, TogglePlacing, Edits, OtherEdits, Refocus, Read, Fetched,
                      Check, Write
  <2>8. ASSUME Drafts PROVE acts' \in 0..MaxActs /\ placing' \in BOOLEAN
    BY <1>0, <1>1, <2>8 DEF Drafts, OtherAssigns, SendDocument
  <2> QED
    BY EditorCases, <2>1, <2>2, <2>3, <2>4, <2>5, <2>6, <2>7, <2>8
<1>b. /\ hasty \in BOOLEAN /\ crossed \in BOOLEAN /\ faulty \in BOOLEAN /\ edge \in BOOLEAN
  BY <1>0
<1> DEFINE Grow ==
      /\ others' \in {others, TRUE} /\ faulty' \in {faulty, TRUE} /\ hasty' \in {hasty, TRUE}
      /\ crossed' \in {crossed, TRUE} /\ refused' \in {refused, TRUE} /\ edge' \in {edge, TRUE}
<1>3. Grow
  <2>1. ASSUME Mutates PROVE Grow
    BY <1>b, <2>1 DEF Mutates, Release, Remove, PlaceField, BeginGesture, ghosts
  <2>2. ASSUME Handles PROVE Grow
    BY <1>b, <2>2 DEF Handles, Cancel, Press, Release, BeginGesture, Fault, ghosts
  <2>3. ASSUME Drags PROVE Grow
    BY <1>b, <2>3 DEF Drags, MoveField, ResizeField, ghosts
  <2>4. ASSUME Reruns PROVE Grow
    BY <1>b, <2>4 DEF Reruns, Renew, TurnPage, Rerun
  <2>5. ASSUME Renders PROVE Grow
    BY <1>b, <2>5 DEF Renders, Render, Document, Draw, Finish, Fail, Fault, ghosts
  <2>6. ASSUME Settles PROVE Grow
    BY <1>b, <2>6 DEF Settles, Answer, Lose, Forget, Fault, ghosts
  <2>7. ASSUME \/ UNCHANGED editorVars \/ TogglePlacing \/ Edits \/ Refocus \/ Read \/ Fetched
               \/ \E c \in Mutation : Check(c) \/ Write(c)
        PROVE  Grow
    BY <1>b, <2>7 DEF editorVars, ghosts, TogglePlacing, Edits, OtherEdits, Refocus, Read, Fetched,
                Check, Write
  <2>8. ASSUME Drafts PROVE Grow
    BY <1>b, <2>8 DEF Drafts, OtherAssigns, SendDocument, ghosts
  <2> QED
    BY EditorCases, <2>1, <2>2, <2>3, <2>4, <2>5, <2>6, <2>7, <2>8
<1>4. FlagsTyped'
  BY <1>0, <1>2, <1>3 DEF FlagsTyped
<1>5. /\ (others = TRUE => others' = TRUE) /\ (faulty = TRUE => faulty' = TRUE)
      /\ (hasty = TRUE => hasty' = TRUE)
      /\ (crossed = TRUE => crossed' = TRUE) /\ (refused = TRUE => refused' = TRUE)
      /\ (edge = TRUE => edge' = TRUE)
  BY <1>3
<1> QED
  BY <1>4, <1>5

(* Renderings.                                                             *)
Active(l) == load[l] # NoLoad /\ load[l].cancelled = FALSE
Rendering ==
    /\ \A l, k \in Load : Active(l) /\ Active(k) => l = k
    /\ \A l \in Load : Active(l) => /\ loading = TRUE /\ load[l].page = page
                                    /\ load[l].step = "drawn" => image = page
    /\ loading = TRUE => \E l \in Load : Active(l)
    /\ loading = FALSE /\ error = FALSE => image = page

LEMMA RerunStep ==
    ASSUME ViewerTyped, Rendering, NEW l \in Load, NEW p \in Page, Rerun(l, p), page' = p
    PROVE  ViewerTyped' /\ Rendering'
<1>0. load \in [Load -> LoadRecord]
  BY DEF ViewerTyped
<1> DEFINE new == [page |-> p, step |-> "document", cancelled |-> FALSE]
<1>1. new \in LoadRecord /\ new # NoLoad /\ new.page = p /\ new.step = "document" /\ new.cancelled = FALSE
  BY DEF LoadRecord, NoLoad, Page
<1>2. /\ load' = [k \in Load |->
                    IF k = l THEN new
                    ELSE IF load[k] = NoLoad THEN NoLoad ELSE [load[k] EXCEPT !.cancelled = TRUE]]
      /\ loading' = TRUE /\ error' = FALSE /\ image' = image
  BY DEF Rerun
<1> HIDE DEF new
<1>3. ASSUME NEW k \in Load
      PROVE  [load[k] EXCEPT !.cancelled = TRUE] \in LoadRecord
             /\ [load[k] EXCEPT !.cancelled = TRUE].cancelled = TRUE
  BY <1>0 DEF LoadRecord
<1>4. load' \in [Load -> LoadRecord]
  BY <1>1, <1>2, <1>3, Blank
<1>5. load'[l] = new
  BY <1>2
<1>6. ASSUME NEW k \in Load, k # l PROVE load'[k] = NoLoad \/ load'[k].cancelled = TRUE
  BY <1>2, <1>3, <1>6
<1>7. \A k \in Load : Active(k)' <=> k = l
  BY <1>1, <1>5, <1>6 DEF Active
<1>8. ViewerTyped'
  BY <1>2, <1>4 DEF ViewerTyped
<1> QED
  BY <1>1, <1>2, <1>5, <1>7, <1>8 DEF Rendering

LEMMA RenderStep ==
    ASSUME ViewerTyped, Rendering, NEW l \in Load, Render(l) \/ Fail(l)
    PROVE  ViewerTyped' /\ Rendering'
<1>0. /\ load \in [Load -> LoadRecord] /\ load[l] \in LoadRecord /\ page \in Page /\ image \in 0..2
      /\ loading \in BOOLEAN /\ error \in BOOLEAN
  BY DEF ViewerTyped
<1>1. ASSUME NEW step \in {"canvas", "drawn"}, Active(l), load' = [load EXCEPT ![l].step = step]
      PROVE  /\ load' \in [Load -> LoadRecord]
             /\ \A k \in Load : Active(k)' <=> Active(k)
             /\ \A k \in Load : load'[k].page = load[k].page
             /\ load'[l].step = step
             /\ \A k \in Load : k # l => load'[k] = load[k]
  <2> DEFINE new == [load[l] EXCEPT !.step = step]
  <2>1. new \in LoadRecord /\ new.step = step /\ new.page = load[l].page
        /\ new.cancelled = load[l].cancelled
    BY <1>0 DEF LoadRecord
  <2>2. new # NoLoad
    BY <2>1, Blank
  <2>3. load' = [load EXCEPT ![l] = new]
    BY <1>1
  <2> HIDE DEF new
  <2>4. load'[l] = new /\ \A k \in Load : k # l => load'[k] = load[k]
    BY <1>0, <2>3
  <2>5. load' \in [Load -> LoadRecord]
    BY <1>0, <2>1, <2>3
  <2>6. \A k \in Load : Active(k)' <=> Active(k)
    BY <1>1, <2>1, <2>2, <2>4 DEF Active
  <2> QED
    BY <2>1, <2>4, <2>5, <2>6
<1>2. CASE Document(l)
  <2>1. Active(l) /\ load' = [load EXCEPT ![l].step = "canvas"]
    BY <1>0, <1>2, Blank DEF Document, Active, LoadRecord
  <2>2. page' = page /\ image' = image /\ loading' = loading /\ error' = error
    BY <1>2 DEF Document
  <2>3. ViewerTyped'
    BY <1>0, <1>1, <2>1, <2>2 DEF ViewerTyped
  <2> QED
    BY <1>1, <2>1, <2>2, <2>3 DEF Rendering
<1>3. CASE Draw(l)
  <2>1. Active(l) /\ load' = [load EXCEPT ![l].step = "drawn"]
    BY <1>0, <1>3, Blank DEF Draw, Active, LoadRecord
  <2>2. page' = page /\ image' = page /\ loading' = loading /\ error' = error /\ loading = TRUE
    BY <1>3, <2>1 DEF Draw, Rendering
  <2>3. image' \in 0..2
    BY <1>0, <2>2 DEF Page
  <2>4. ViewerTyped'
    BY <1>0, <1>1, <2>1, <2>2, <2>3 DEF ViewerTyped
  <2> QED
    BY <1>1, <2>1, <2>2, <2>4 DEF Rendering
<1>4. CASE Finish(l)
  <2>1. /\ load' = [load EXCEPT ![l] = NoLoad] /\ loading' = (loading /\ load[l].cancelled)
        /\ page' = page /\ image' = image /\ error' = error
        /\ load[l].step = "drawn" \/ load[l].cancelled
    BY <1>4 DEF Finish, Ended
  <2>2. load' \in [Load -> LoadRecord] /\ load'[l] = NoLoad /\ \A k \in Load : k # l => load'[k] = load[k]
    BY <1>0, <2>1, Blank
  <2>3. load[l].cancelled \in BOOLEAN
    BY <1>0 DEF LoadRecord
  <2>4. ViewerTyped'
    BY <1>0, <2>1, <2>2, <2>3 DEF ViewerTyped
  <2>5. \A k \in Load : Active(k)' <=> k # l /\ Active(k)
    BY <2>2 DEF Active
  <2>6. CASE load[l].cancelled = TRUE
    BY <1>0, <2>1, <2>2, <2>4, <2>5, <2>6 DEF Rendering, Active
  <2>7. CASE load[l].cancelled = FALSE
    <3>1. Active(l) /\ loading' = FALSE /\ image = page
      BY <2>1, <2>7, Blank DEF Active, Rendering
    <3>2. \A k \in Load : ~Active(k)'
      BY <2>5, <3>1 DEF Rendering
    <3> QED
      BY <2>1, <2>4, <3>1, <3>2 DEF Rendering
  <2> QED
    BY <2>3, <2>6, <2>7
<1>5. CASE Fail(l)
  <2>1. /\ load' = [load EXCEPT ![l] = NoLoad] /\ loading' = FALSE /\ error' = TRUE
        /\ page' = page /\ image' = image /\ load[l] # NoLoad /\ ~load[l].cancelled
    BY <1>5 DEF Fail
  <2>2. load' \in [Load -> LoadRecord] /\ load'[l] = NoLoad /\ \A k \in Load : k # l => load'[k] = load[k]
    BY <1>0, <2>1, Blank
  <2>3. Active(l)
    BY <1>0, <2>1 DEF Active, LoadRecord
  <2>4. \A k \in Load : ~Active(k)'
    BY <2>2, <2>3 DEF Active, Rendering
  <2>5. ViewerTyped'
    BY <1>0, <2>1, <2>2 DEF ViewerTyped
  <2> QED
    BY <2>1, <2>4, <2>5 DEF Rendering
<1> QED
  BY <1>2, <1>3, <1>4, <1>5 DEF Render

LEMMA ViewerStep ==
    ASSUME ViewerTyped, Rendering, [EditorNext]_editorVars
    PROVE  ViewerTyped' /\ Rendering'
<1>1. ASSUME Reruns PROVE ViewerTyped' /\ Rendering'
  <2>1. page \in Page
    BY DEF ViewerTyped
  <2>2. PICK l \in Load : Renew(l) \/ \E p \in Page : TurnPage(l, p)
    BY <1>1 DEF Reruns
  <2> QED
    BY <2>1, <2>2, RerunStep DEF Renew, TurnPage
<1>2. ASSUME UNCHANGED viewer PROVE ViewerTyped' /\ Rendering'
  BY <1>2 DEF viewer, ViewerTyped, Rendering, Active
<1> QED
  BY <1>1, <1>2, RenderStep, ViewerFrame DEF Renders

LEMMA TypedStep ==
    ASSUME Typed, Rendering, [EditorNext]_editorVars
    PROVE  Typed' /\ Rendering'
  BY RowsStep, HandsStep, CallsStep, FlagsStep, ViewerStep, DraftStep DEF Typed

(* An editor who takes care.                                               *)
Pending(c) == call[c].step \in {"check", "write"}
Busy(c) == call[c] # NoCall
Present(f) == row[f] # NoRow
OnPage(r) == r.x + r.w <= Grid /\ r.w >= 1
Agrees(o, r) == /\ o.x # None => o.x = r.x
                /\ o.w # None => o.w = r.w

\* The field as a gesture leaves it.
Aim(kind) == IF kind = "move" THEN [row[gesture[kind].field] EXCEPT !.x = gesture[kind].now]
                              ELSE [row[gesture[kind].field] EXCEPT !.w = gesture[kind].now]
Follows(kind) ==
    /\ gesture[kind].held = TRUE /\ gesture[kind].prop = row[gesture[kind].field]
    /\ Present(gesture[kind].field) /\ view = row
    /\ OnPage(Aim(kind)) /\ Agrees(overlay[gesture[kind].field], Aim(kind))
    /\ gesture[kind].moved = FALSE => Aim(kind) = row[gesture[kind].field]
Asked(c) ==
    /\ call[c].kind # "place" => Present(call[c].field)
    /\ call[c].kind \in {"move", "resize"} =>
          OnPage(Merged(call[c])) /\ Agrees(overlay[call[c].field], Merged(call[c]))
    /\ call[c].kind = "place" =>
          overlay[call[c].field] = NoOverlay /\ (OnPage(Merged(call[c])) \/ edge = TRUE)
    /\ call[c].still = TRUE => Merged(call[c]) = row[call[c].field]
Alters(c, f) == /\ Pending(c) \/ call[c].step = "no"
                /\ call[c].field = f /\ call[c].kind \in {"move", "resize"}
Excused == edge = TRUE \/ sent = TRUE

OneAtATime ==
    /\ \A c, d \in Mutation : Busy(c) /\ Busy(d) => c = d
    /\ \A c \in Mutation : Busy(c) => call[c].heard = TRUE /\ AtRest
    /\ \A k, m \in Kind : gesture[k] # NoGesture /\ gesture[m] # NoGesture => k = m
Caught ==
    /\ (\A c \in Mutation : call[c].step # "ok") =>
          /\ fetch.step = "none" => view = row
          /\ fetch.step = "read" => fetch.read = row
    /\ \A c \in Mutation : Pending(c) => view = row
Sound == \A f \in FieldId : Present(f) => OnPage(row[f])
Gestures == \A kind \in Kind : gesture[kind] # NoGesture => Follows(kind)
Requested == \A c \in Mutation : /\ Pending(c) => Asked(c)
                                 /\ call[c].step = "no" => Excused
Overlays == \A f \in FieldId :
    Present(f) /\ (\A kind \in Kind : gesture[kind].field # f) /\ (\A c \in Mutation : ~Alters(c, f))
      => Agrees(overlay[f], row[f])

Care == OneAtATime /\ Caught /\ Sound /\ Gestures /\ Requested /\ Overlays
Careful == Undisturbed => Care /\ crossed = FALSE /\ Assigned

(* Unless a write came between, what was checked of the field still holds  *)
(* at the write.                                                           *)
Fitting(q) == /\ q.kind # "place" => row[q.field] # NoRow
              /\ Merged(q).x + Merged(q).w <= Grid
Written == crossed = FALSE =>
    /\ \A f \in FieldId : row[f].x + row[f].w <= Grid
    /\ \A c \in Mutation : call[c].step = "write" => Fitting(call[c])

LEMMA AcceptableFits ==
    ASSUME NEW q \in MutationRecord, q.kind # "none", Acceptable(q)
    PROVE  Fitting(q)
<1>1. CASE q.kind = "remove"
  BY <1>1, Blank, GridFacts DEF Acceptable, Fitting, Merged
<1>2. CASE q.kind # "remove"
  BY <1>2 DEF Acceptable, Fitting
<1> QED
  BY <1>1, <1>2

LEMMA CareFacts ==
    ASSUME Typed
    PROVE  /\ call \in [Mutation -> MutationRecord] /\ gesture \in [Kind -> GestureRecord]
           /\ row \in Rows /\ view \in Rows /\ overlay \in [FieldId -> OverlayRecord]
           /\ \A c \in Mutation : Busy(c) => call[c].kind # "none" /\ call[c].field \in FieldId
           /\ \A c \in Mutation : Pending(c) \/ call[c].step \in {"ok", "no"} => Busy(c)
           /\ \A kind \in Kind : gesture[kind] # NoGesture => gesture[kind].field \in FieldId
           /\ AtRest => \A kind \in Kind : gesture[kind].field \notin FieldId
           /\ \A c \in Mutation : call[c].step \in {"none", "check", "write", "ok", "no"}
           /\ None \notin FieldId
<1>1. /\ call \in [Mutation -> MutationRecord] /\ gesture \in [Kind -> GestureRecord]
      /\ row \in Rows /\ view \in Rows /\ overlay \in [FieldId -> OverlayRecord]
      /\ \A c \in Mutation : Busy(c) => call[c].kind # "none" /\ call[c].field \in FieldId
      /\ \A kind \in Kind : gesture[kind] # NoGesture => gesture[kind].field \in FieldId
  BY DEF Typed, CallsTyped, HandsTyped, RowsTyped, GesturesFit, Busy
<1>2. \A c \in Mutation : Pending(c) \/ call[c].step \in {"ok", "no"} => Busy(c)
  BY Blank DEF Pending, Busy
<1>3. AtRest => \A kind \in Kind : gesture[kind].field \notin FieldId
  BY Blank, GridFacts DEF AtRest
<1>4. \A c \in Mutation : call[c].step \in {"none", "check", "write", "ok", "no"}
  BY <1>1 DEF MutationRecord
<1> QED
  BY <1>1, <1>2, <1>3, <1>4, GridFacts

LEMMA CareIdle ==
    ASSUME Care, UNCHANGED <<row, view, fetch, overlay, gesture, call>>,
           edge = TRUE => edge' = TRUE, Excused => Excused'
    PROVE  Care'
<1>1. OneAtATime' /\ Caught' /\ Sound'
  BY DEF Care, OneAtATime, Caught, Sound, Busy, Pending, Present, OnPage, AtRest
<1>2. Gestures'
  BY DEF Care, Gestures, Follows, Present, OnPage, Agrees, Aim
<1>3. Requested'
  <2> SUFFICES ASSUME NEW c \in Mutation
               PROVE  (Pending(c) => Asked(c))' /\ (call[c].step = "no" => Excused)'
    BY DEF Requested
  <2>1. (Pending(c) => Asked(c)) /\ (call[c].step = "no" => Excused)
    BY DEF Care, Requested
  <2> QED
    BY <2>1 DEF Pending, Asked, Present, OnPage, Agrees, Merged
<1>4. Overlays'
  BY DEF Care, Overlays, Present, Alters, Pending, Agrees
<1> QED
  BY <1>1, <1>2, <1>3, <1>4 DEF Care

LEMMA CareQuery ==
    ASSUME Typed, Care, Refocus \/ Read \/ Fetched
    PROVE  Care'
<1>0. UNCHANGED <<row, overlay, gesture, call, edge, sent>>
  BY DEF Refocus, Read, Fetched, draft, ghosts
<1>1. ASSUME \A c \in Mutation : call[c].step # "ok"
      PROVE  (fetch'.step = "none" => view' = row) /\ (fetch'.step = "read" => fetch'.read = row)
  <2>1. (fetch.step = "none" => view = row) /\ (fetch.step = "read" => fetch.read = row)
    BY <1>1 DEF Care, Caught
  <2>2. CASE Refocus
    <3>1. fetch'.step = "sent"
      BY <2>2, Blank DEF Refocus
    <3> QED
      BY <3>1
  <2>3. CASE Read
    BY <2>3 DEF Read
  <2>4. CASE Fetched
    BY <2>1, <2>4, Blank DEF Fetched
  <2> QED
    BY <2>2, <2>3, <2>4
<1>2. ASSUME view = row, \A c \in Mutation : call[c].step # "ok" PROVE view' = row
  <2>1. ASSUME Fetched PROVE fetch.read = row
    BY <1>2, <2>1 DEF Care, Caught, Fetched
  <2> QED
    BY <1>2, <2>1 DEF Refocus, Read, Fetched
<1>3. ASSUME NEW c \in Mutation, Pending(c) PROVE view' = row
  <2>1. ASSUME NEW d \in Mutation, call[d].step = "ok" PROVE FALSE
    <3>1. Busy(c) /\ Busy(d)
      BY <1>3, <2>1, CareFacts
    <3>2. c = d
      BY <3>1 DEF Care, OneAtATime
    <3> QED
      BY <1>3, <2>1, <3>2 DEF Pending
  <2> QED
    BY <1>2, <1>3, <2>1 DEF Care, Caught
<1>4. ASSUME NEW kind \in Kind, gesture[kind] # NoGesture PROVE view' = row
  <2>1. ASSUME NEW d \in Mutation, call[d].step = "ok" PROVE FALSE
    BY <1>4, <2>1, CareFacts DEF Care, OneAtATime, AtRest
  <2> QED
    BY <1>2, <1>4, <2>1 DEF Care, Gestures, Follows
<1>5. Caught'
  BY <1>0, <1>1, <1>3 DEF Caught, Pending
<1>6. OneAtATime' /\ Sound'
  BY <1>0 DEF Care, OneAtATime, Sound, Busy, Present, OnPage, AtRest
<1>7. Gestures'
  BY <1>0, <1>4 DEF Care, Gestures, Follows, Present, OnPage, Agrees, Aim
<1>8. Requested'
  <2> SUFFICES ASSUME NEW c \in Mutation
               PROVE  (Pending(c) => Asked(c))' /\ (call[c].step = "no" => Excused)'
    BY DEF Requested
  <2>1. (Pending(c) => Asked(c)) /\ (call[c].step = "no" => Excused)
    BY DEF Care, Requested
  <2> QED
    BY <1>0, <2>1 DEF Pending, Asked, Present, OnPage, Agrees, Merged, Excused
<1>9. Overlays'
  BY <1>0 DEF Care, Overlays, Present, Alters, Pending, Agrees
<1> QED
  BY <1>5, <1>6, <1>7, <1>8, <1>9 DEF Care

LEMMA CarePress ==
    ASSUME Typed, Care, NEW f \in FieldId, NEW kind \in Kind, Press(f, kind), Quiescent
    PROVE  Care'
<1> DEFINE g == [field |-> f, prop |-> view[f], moved |-> FALSE, held |-> TRUE,
                 now |-> IF kind = "move" THEN ShownX(f) ELSE ShownW(f)]
<1>0. /\ UNCHANGED <<row, view, fetch, overlay, call, edge, sent>> /\ gesture' = [gesture EXCEPT ![kind] = g]
      /\ ~Held /\ view[f] # NoRow
  BY DEF Press, BeginGesture, Shown, draft
<1>1. AtRest
  BY <1>0 DEF Care, Gestures, Follows, AtRest, Held
<1>2. view = row
  BY Blank DEF Care, Caught, Quiescent
<1>3. Agrees(overlay[f], row[f])
  <2>1. \A k \in Kind : gesture[k].field # f
    BY <1>1, CareFacts
  <2>2. \A c \in Mutation : ~Alters(c, f)
    BY Blank DEF Quiescent, Alters, Pending
  <2> QED
    BY <1>0, <1>2, <2>1, <2>2 DEF Care, Overlays, Present
<1>4. ShownX(f) = row[f].x /\ ShownW(f) = row[f].w
  BY <1>2, <1>3 DEF ShownX, ShownW, Agrees
<1>5. row[f] \in Row /\ OnPage(row[f])
  BY <1>0, <1>2, CareFacts DEF Care, Sound, Present, Rows
<1>g. /\ g.field = f /\ g.prop = row[f] /\ g.held = TRUE /\ g.moved = FALSE
      /\ g.now = IF kind = "move" THEN row[f].x ELSE row[f].w
  BY <1>2, <1>4
<1> HIDE DEF g
<1>6. gesture'[kind] = g /\ \A k \in Kind : k # kind => gesture'[k] = NoGesture
  BY <1>0, <1>1, CareFacts DEF AtRest
<1>7. Aim(kind)' = row[f]
  <2>1. Aim(kind)' = IF kind = "move" THEN [row[f] EXCEPT !.x = g.now] ELSE [row[f] EXCEPT !.w = g.now]
    BY <1>0, <1>6, <1>g DEF Aim
  <2>2. row[f].x \in 0..Grid /\ row[f].w \in 0..Grid
    BY <1>5 DEF Row
  <2>3. [row[f] EXCEPT !.x = row[f].x] = row[f] /\ [row[f] EXCEPT !.w = row[f].w] = row[f]
    BY <1>5, <2>2, RowWith
  <2> QED
    BY <1>g, <2>1, <2>3
<1>8. Follows(kind)'
  BY <1>0, <1>2, <1>3, <1>5, <1>6, <1>7, <1>g DEF Follows, Present, OnPage, Agrees
<1>9. Gestures'
  BY <1>6, <1>8 DEF Gestures
<1>10. OneAtATime'
  BY <1>0, <1>6 DEF Care, OneAtATime, Quiescent, Busy
<1>11. Caught' /\ Sound'
  BY <1>0 DEF Care, Caught, Sound, Pending, Present, OnPage
<1>12. Requested'
  BY <1>0, Blank DEF Quiescent, Requested, Pending
<1>13. Overlays'
  <2>1. \A h \in FieldId : \A k \in Kind : gesture[k].field # h
    BY <1>1, CareFacts
  <2> QED
    BY <1>0, <2>1 DEF Care, Overlays, Present, Alters, Pending, Agrees
<1> QED
  BY <1>9, <1>10, <1>11, <1>12, <1>13 DEF Care

(* A gesture on its way leaves no mutation on its way, and is the only     *)
(* one.                                                                    *)
LEMMA HandsFull ==
    ASSUME Typed, Care, NEW kind \in Kind, gesture[kind] # NoGesture
    PROVE  /\ gesture[kind].field \in FieldId /\ gesture[kind] \in GestureRecord
           /\ Follows(kind) /\ \A c \in Mutation : ~Busy(c)
           /\ \A k \in Kind : k # kind => gesture[k] = NoGesture
           /\ row[gesture[kind].field] \in Row /\ OnPage(row[gesture[kind].field])
<1>1. gesture[kind].field \in FieldId /\ gesture[kind] \in GestureRecord
  BY CareFacts
<1>2. Follows(kind)
  BY DEF Care, Gestures
<1>3. \A c \in Mutation : ~Busy(c)
  BY DEF Care, OneAtATime, AtRest
<1>4. \A k \in Kind : k # kind => gesture[k] = NoGesture
  BY DEF Care, OneAtATime
<1>5. row[gesture[kind].field] \in Row
  BY <1>1, CareFacts DEF Rows
<1>6. OnPage(row[gesture[kind].field])
  BY <1>1, <1>2 DEF Care, Sound, Follows
<1> QED
  BY <1>1, <1>2, <1>3, <1>4, <1>5, <1>6

LEMMA CareGesture ==
    ASSUME Typed, Care, NEW kind \in Kind, gesture[kind] # NoGesture,
           gesture'[kind].field = gesture[kind].field,
           \A k \in Kind : k # kind => gesture'[k] = NoGesture,
           UNCHANGED <<row, view, fetch, call, edge, sent>>,
           \A h \in FieldId : h # gesture[kind].field => overlay'[h] = overlay[h],
           Gestures'
    PROVE  Care'
<1>2. \A c \in Mutation : ~Busy(c)
  BY HandsFull
<1>3. OneAtATime'
  BY <1>2 DEF OneAtATime, Busy
<1>4. Caught' /\ Sound'
  BY DEF Care, Caught, Sound, Pending, Present, OnPage
<1>6. Requested'
  BY <1>2, CareFacts DEF Requested, Pending
<1>7. Overlays'
  <2> SUFFICES ASSUME NEW h \in FieldId, Present(h)', (\A k \in Kind : gesture[k].field # h)'
               PROVE  Agrees(overlay[h], row[h])'
    BY DEF Overlays
  <2>1. gesture[kind].field # h
    OBVIOUS
  <2>2. \A k \in Kind : gesture[k].field # h
    BY <2>1, HandsFull, Blank, CareFacts
  <2>3. \A c \in Mutation : ~Alters(c, h)
    BY <1>2, CareFacts DEF Alters
  <2>4. Agrees(overlay[h], row[h])
    BY <2>2, <2>3 DEF Care, Overlays, Present
  <2> QED
    BY <2>1, <2>4 DEF Agrees
<1> QED
  BY <1>3, <1>4, <1>6, <1>7 DEF Care

LEMMA CareMove ==
    ASSUME Typed, Care, NEW v \in 0..Grid, MoveField(v)
    PROVE  Care'
<1> DEFINE g == gesture["move"]
           f == gesture["move"].field
           n == MovedTo(gesture["move"], v)
           new == [[gesture["move"] EXCEPT !.now = MovedTo(gesture["move"], v)] EXCEPT !.moved = TRUE]
<1>k. "move" \in Kind
  BY DEF Kind
<1>1. /\ g # NoGesture /\ UNCHANGED <<row, view, fetch, call, edge, sent>>
      /\ gesture' = [gesture EXCEPT !["move"].now = n, !["move"].moved = TRUE]
      /\ overlay' = [overlay EXCEPT ![f].x = n]
  BY DEF MoveField, Moving, draft, ghosts
<1>2. /\ f \in FieldId /\ g \in GestureRecord /\ Follows("move")
      /\ row[f] \in Row /\ OnPage(row[f])
  BY <1>1, <1>k, HandsFull
<1>3. n \in 0..Grid /\ n + g.prop.w <= Grid
  BY <1>2, ClampedTyped
<1>4. gesture' = [gesture EXCEPT !["move"] = new]
  BY <1>1, <1>k, CareFacts
<1>5. new.field = f /\ new.prop = g.prop /\ new.held = g.held /\ new.now = n /\ new.moved = TRUE
  BY <1>2 DEF GestureRecord
<1> HIDE DEF new, n
<1>6. f # None
  BY <1>2, CareFacts
<1>7. gesture'["move"] = new /\ new # NoGesture
  BY <1>4, <1>5, <1>6, <1>k, CareFacts, Blank
<1>8. overlay'[f].x = n /\ overlay'[f].w = overlay[f].w
  BY <1>1, <1>2, CareFacts DEF OverlayRecord
<1>9. Follows("move")'
  <2>1. Aim("move")' = [row[f] EXCEPT !.x = n] /\ Aim("move") = [row[f] EXCEPT !.x = g.now]
    BY <1>1, <1>5, <1>7 DEF Aim
  <2>2. g.now \in 0..Grid
    BY <1>2 DEF GestureRecord
  <2>a. [row[f] EXCEPT !.x = n].x = n /\ [row[f] EXCEPT !.x = n].w = row[f].w
    BY <1>2, <1>3, RowWith
  <2>b. [row[f] EXCEPT !.x = g.now].w = row[f].w
    BY <1>2, <2>2, RowWith
  <2>3. Aim("move")'.x = n /\ Aim("move")'.w = row[f].w /\ Aim("move").w = row[f].w
    BY <2>1, <2>a, <2>b
  <2>4. /\ g.held = TRUE /\ g.prop = row[f] /\ row[f] # NoRow /\ view = row
        /\ overlay[f].w # None => overlay[f].w = row[f].w
    BY <1>2, <2>3 DEF Follows, Present, Agrees
  <2>5. n + row[f].w <= Grid /\ row[f].w >= 1
    BY <1>2, <1>3, <2>4 DEF OnPage
  <2>6. OnPage(Aim("move"))'
    BY <2>3, <2>5 DEF OnPage
  <2>7. Agrees(overlay[gesture["move"].field], Aim("move"))'
    BY <1>5, <1>7, <1>8, <2>3, <2>4 DEF Agrees
  <2> QED
    BY <1>1, <1>5, <1>7, <2>4, <2>6, <2>7 DEF Follows, Present
<1>10. \A h \in FieldId : h # f => overlay'[h] = overlay[h]
  BY <1>1, CareFacts
<1>11. \A k \in Kind : k # "move" => gesture'[k] = NoGesture
  BY <1>1, <1>4, <1>k, HandsFull, CareFacts
<1>12. Gestures'
  BY <1>9, <1>11 DEF Gestures
<1>13. gesture'["move"].field = f
  BY <1>5, <1>7
<1> QED
  BY <1>1, <1>10, <1>11, <1>12, <1>13, <1>k, CareGesture

LEMMA CareResize ==
    ASSUME Typed, Care, NEW v \in 0..Grid, ResizeField(v)
    PROVE  Care'
<1> DEFINE g == gesture["resize"]
           f == gesture["resize"].field
           n == ResizedTo(gesture["resize"], v)
           new == [[gesture["resize"] EXCEPT !.now = ResizedTo(gesture["resize"], v)] EXCEPT !.moved = TRUE]
<1>k. "resize" \in Kind
  BY DEF Kind
<1>1. /\ g # NoGesture /\ UNCHANGED <<row, view, fetch, call, edge, sent>>
      /\ gesture' = [gesture EXCEPT !["resize"].now = n, !["resize"].moved = TRUE]
      /\ overlay' = [overlay EXCEPT ![f] = [x |-> g.prop.x, w |-> n]]
  BY DEF ResizeField, Moving, draft, ghosts
<1>2. /\ f \in FieldId /\ g \in GestureRecord /\ Follows("resize")
      /\ row[f] \in Row /\ OnPage(row[f])
  BY <1>1, <1>k, HandsFull
<1>3. g.held = TRUE /\ g.prop = row[f] /\ row[f] # NoRow /\ view = row
  BY <1>2 DEF Follows, Present
<1>4. n \in 0..Grid /\ n >= 1 /\ row[f].x + n <= Grid
  <2>1. row[f].x \in Nat /\ row[f].w \in Nat
    BY <1>2, GridFacts DEF Row
  <2>2. g.prop.x + 1 <= Grid
    BY <1>2, <1>3, <2>1, GridFacts DEF OnPage
  <2> QED
    BY <1>2, <1>3, <2>2, ClampedTyped
<1>5. gesture' = [gesture EXCEPT !["resize"] = new]
  BY <1>1, <1>k, CareFacts
<1>6. new.field = f /\ new.prop = g.prop /\ new.held = g.held /\ new.now = n /\ new.moved = TRUE
  BY <1>2 DEF GestureRecord
<1> HIDE DEF new, n
<1>7. f # None
  BY <1>2, CareFacts
<1>8. gesture'["resize"] = new /\ new # NoGesture
  BY <1>5, <1>6, <1>7, <1>k, CareFacts, Blank
<1>9. overlay'[f].x = row[f].x /\ overlay'[f].w = n
  BY <1>1, <1>2, <1>3, CareFacts
<1>10. Follows("resize")'
  <2>1. Aim("resize")' = [row[f] EXCEPT !.w = n]
    BY <1>1, <1>6, <1>8 DEF Aim
  <2>a. [row[f] EXCEPT !.w = n].w = n /\ [row[f] EXCEPT !.w = n].x = row[f].x
    BY <1>2, <1>4, RowWith
  <2>2. Aim("resize")'.w = n /\ Aim("resize")'.x = row[f].x
    BY <2>1, <2>a
  <2>3. OnPage(Aim("resize"))'
    BY <1>4, <2>2 DEF OnPage
  <2>4. Agrees(overlay[gesture["resize"].field], Aim("resize"))'
    BY <1>6, <1>8, <1>9, <2>2 DEF Agrees
  <2> QED
    BY <1>1, <1>3, <1>6, <1>8, <2>3, <2>4 DEF Follows, Present
<1>11. \A h \in FieldId : h # f => overlay'[h] = overlay[h]
  BY <1>1, CareFacts
<1>12. \A k \in Kind : k # "resize" => gesture'[k] = NoGesture
  BY <1>1, <1>5, <1>k, HandsFull, CareFacts
<1>13. Gestures'
  BY <1>10, <1>12 DEF Gestures
<1>14. gesture'["resize"].field = f
  BY <1>6, <1>8
<1> QED
  BY <1>1, <1>11, <1>12, <1>13, <1>14, <1>k, CareGesture

(* A mutation that is sent when nothing else is on its way.                *)
LEMMA CareSend ==
    ASSUME Typed, Care, NEW c \in Mutation, \A d \in Mutation : ~Busy(d),
           UNCHANGED <<row, view, fetch, overlay>>, view = row,
           call'[c].step = "check", call'[c].heard = TRUE,
           \A d \in Mutation : d # c => call'[d] = call[d],
           \A kind \in Kind : gesture'[kind] = NoGesture,
           Asked(c)',
           \A h \in FieldId : Present(h) => Agrees(overlay[h], row[h]) \/ Alters(c, h)'
    PROVE  Care'
<1>1. \A d \in Mutation : Busy(d)' => d = c
  BY DEF Busy
<1>2. \A d \in Mutation : d # c => call'[d] = NoCall
  BY DEF Busy
<1>3. \A d \in Mutation : call'[d].step \notin {"ok", "no"} /\ (Pending(d)' <=> d = c)
  BY <1>2, Blank DEF Pending
<1>4. OneAtATime'
  BY <1>1 DEF OneAtATime, AtRest
<1>5. Caught'
  BY <1>3, CareFacts, Blank DEF Care, Caught, Busy
<1>6. Sound'
  BY DEF Care, Sound, Present, OnPage
<1>7. Gestures'
  BY DEF Gestures
<1>8. Requested'
  BY <1>3 DEF Requested
<1>9. Overlays'
  BY DEF Overlays, Present, Agrees
<1> QED
  BY <1>4, <1>5, <1>6, <1>7, <1>8, <1>9 DEF Care

LEMMA CareRelease ==
    ASSUME Typed, Care, NEW c \in Mutation, NEW kind \in Kind, Release(c, kind)
    PROVE  Care'
<1> DEFINE g == gesture[kind]
           f == gesture[kind].field
<1>1. /\ g # NoGesture /\ UNCHANGED <<row, view, fetch, overlay, edge, sent>>
      /\ gesture' = [gesture EXCEPT ![kind] = NoGesture]
      /\ call' = [call EXCEPT ![c] = [kind |-> kind, field |-> f, value |-> g.now, page |-> 0,
                                      step |-> "check", still |-> ~g.moved, heard |-> TRUE]]
  BY DEF Release, Mutate, Released, draft, ghosts
<1>2. /\ f \in FieldId /\ g \in GestureRecord /\ Follows(kind)
      /\ \A d \in Mutation : ~Busy(d)
      /\ \A k \in Kind : k # kind => gesture[k] = NoGesture
  BY <1>1, HandsFull
<1>3. /\ call'[c].kind = kind /\ call'[c].field = f /\ call'[c].value = g.now
      /\ call'[c].step = "check" /\ call'[c].heard = TRUE /\ call'[c].still = ~g.moved
      /\ \A d \in Mutation : d # c => call'[d] = call[d]
  BY <1>1, CareFacts
<1>4. \A k \in Kind : gesture'[k] = NoGesture
  BY <1>1, <1>2, CareFacts
<1>5. g.moved \in BOOLEAN /\ kind \in {"move", "resize"}
  BY <1>2 DEF GestureRecord, Kind
<1>6. Merged(call[c])' = Aim(kind)
  BY <1>1, <1>3, <1>5 DEF Merged, Aim
<1>7. Present(f) /\ view = row /\ OnPage(Aim(kind)) /\ Agrees(overlay[f], Aim(kind))
  BY <1>2 DEF Follows
<1>8. g.moved = FALSE => Aim(kind) = row[f]
  BY <1>2 DEF Follows
<1>9. Asked(c)'
  <2>1. Present(call[c].field)'
    BY <1>1, <1>3, <1>7 DEF Present
  <2>2. OnPage(Merged(call[c]))' /\ Agrees(overlay[call[c].field], Merged(call[c]))'
    BY <1>1, <1>3, <1>6, <1>7 DEF OnPage, Agrees
  <2>3. (call[c].still = TRUE => Merged(call[c]) = row[call[c].field])'
    BY <1>1, <1>3, <1>5, <1>6, <1>8
  <2> QED
    BY <1>3, <1>5, <2>1, <2>2, <2>3 DEF Asked
<1>10. ASSUME NEW h \in FieldId, Present(h) PROVE Agrees(overlay[h], row[h]) \/ Alters(c, h)'
  <2>1. CASE h = f
    BY <1>3, <1>5, <2>1 DEF Alters, Pending
  <2>2. CASE h # f
    <3>1. \A k \in Kind : gesture[k].field # h
      BY <1>2, <2>2, CareFacts, Blank
    <3>2. \A d \in Mutation : ~Alters(d, h)
      BY <1>2, CareFacts DEF Alters
    <3> QED
      BY <1>10, <3>1, <3>2 DEF Care, Overlays
  <2> QED
    BY <2>1, <2>2
<1> QED
  BY <1>1, <1>2, <1>3, <1>4, <1>7, <1>9, <1>10, CareSend

(* While everything is at rest, what the viewer shows is what is stored.   *)
LEMMA CareRests ==
    ASSUME Typed, Care, Quiescent, AtRest
    PROVE  /\ view = row /\ (\A c \in Mutation : ~Busy(c))
           /\ \A h \in FieldId : Present(h) => Agrees(overlay[h], row[h])
<1>1. \A c \in Mutation : ~Busy(c) /\ call[c].step = "none"
  BY Blank DEF Quiescent, Busy
<1>2. view = row
  BY <1>1, Blank DEF Care, Caught, Quiescent
<1>3. \A c \in Mutation, h \in FieldId : ~Alters(c, h)
  BY <1>1 DEF Alters, Pending
<1>4. \A kind \in Kind, h \in FieldId : gesture[kind].field # h
  BY CareFacts
<1> QED
  BY <1>1, <1>2, <1>3, <1>4 DEF Care, Overlays

LEMMA CareUnheld ==
    ASSUME Care, ~Held
    PROVE  AtRest
  BY DEF Care, Gestures, Follows, AtRest, Held

LEMMA CarePlace ==
    ASSUME Typed, Care, NEW c \in Mutation, NEW f \in FieldId, NEW x \in 0..Grid,
           PlaceField(c, f, x), Quiescent
    PROVE  Care'
<1>1. /\ UNCHANGED <<row, view, fetch, overlay, gesture>> /\ ~Held
      /\ edge' = (edge \/ x + PlacedWidth > Grid) /\ overlay[f] = NoOverlay
      /\ call' = [call EXCEPT ![c] = [kind |-> "place", field |-> f, value |-> x, page |-> page,
                                      step |-> "check", still |-> FALSE, heard |-> TRUE]]
  BY DEF PlaceField, Mutate, BeginGesture, Fresh
<1>2. AtRest
  BY <1>1, CareUnheld
<1>3. /\ call'[c].kind = "place" /\ call'[c].field = f /\ call'[c].value = x
      /\ call'[c].step = "check" /\ call'[c].heard = TRUE /\ call'[c].still = FALSE
      /\ \A d \in Mutation : d # c => call'[d] = call[d]
  BY <1>1, CareFacts
<1>4. Merged(call[c])'.x = x /\ Merged(call[c])'.w = PlacedWidth
  BY <1>3 DEF Merged
<1>5. x + PlacedWidth > Grid => edge' = TRUE
  BY <1>1
<1>6. OnPage(Merged(call[c]))' \/ edge' = TRUE
  BY <1>4, <1>5, GridFacts DEF OnPage
<1>7. Asked(c)'
  BY <1>1, <1>3, <1>6 DEF Asked
<1> QED
  BY <1>1, <1>2, <1>3, <1>7, CareRests, CareSend DEF AtRest

LEMMA CareRemove ==
    ASSUME Typed, Care, NEW c \in Mutation, NEW f \in FieldId, Remove(c, f), Quiescent
    PROVE  Care'
<1>1. /\ UNCHANGED <<row, view, fetch, overlay, gesture>> /\ ~Held /\ view[f] # NoRow
      /\ call' = [call EXCEPT ![c] = [kind |-> "remove", field |-> f, value |-> 0, page |-> 0,
                                      step |-> "check", still |-> FALSE, heard |-> TRUE]]
  BY DEF Remove, Mutate, BeginGesture
<1>2. AtRest
  BY <1>1, CareUnheld
<1>3. /\ call'[c].kind = "remove" /\ call'[c].field = f
      /\ call'[c].step = "check" /\ call'[c].heard = TRUE /\ call'[c].still = FALSE
      /\ \A d \in Mutation : d # c => call'[d] = call[d]
  BY <1>1, CareFacts
<1>4. Asked(c)'
  BY <1>1, <1>2, <1>3, CareRests DEF Asked, Present
<1> QED
  BY <1>1, <1>2, <1>3, <1>4, CareRests, CareSend DEF AtRest

(* The mutation that is on its way, the only one.                          *)
LEMMA CallAlone ==
    ASSUME Typed, Care, NEW c \in Mutation, Busy(c)
    PROVE  /\ call[c] \in MutationRecord /\ call[c].kind # "none" /\ call[c].field \in FieldId
           /\ call[c].heard = TRUE /\ AtRest
           /\ \A d \in Mutation : d # c => call[d] = NoCall /\ call[d].step = "none"
           /\ \A kind \in Kind, h \in FieldId : gesture[kind].field # h
           /\ Merged(call[c]) \in Row /\ row[call[c].field] \in Row
<1>1. /\ call[c] \in MutationRecord /\ call[c].kind # "none" /\ call[c].field \in FieldId
  BY CareFacts
<1>2. call[c].heard = TRUE /\ AtRest
  BY DEF Care, OneAtATime
<1>3. \A d \in Mutation : d # c => call[d] = NoCall
  BY DEF Care, OneAtATime, Busy
<1>4. Merged(call[c]) \in Row
  BY <1>1, MergedRow DEF Typed
<1>5. row[call[c].field] \in Row
  BY <1>1, CareFacts DEF Rows
<1> QED
  BY <1>1, <1>2, <1>3, <1>4, <1>5, CareFacts, Blank

LEMMA CareCheck ==
    ASSUME Typed, Care, Assigned, NEW c \in Mutation, Check(c)
    PROVE  Care'
<1> DEFINE q == call[c]
<1>1. /\ q.step = "check" /\ UNCHANGED <<row, view, fetch, overlay, gesture, edge, sent>>
      /\ \/ Acceptable(q) /\ call' = [call EXCEPT ![c].step = "write"]
         \/ ~Acceptable(q) /\ call' = [call EXCEPT ![c].step = "no"]
  BY DEF Check, To, draft, ghosts
<1>2. Busy(c) /\ Pending(c)
  BY <1>1, CareFacts DEF Pending
<1>3. Asked(c) /\ view = row
  BY <1>2 DEF Care, Requested, Caught
<1>4. /\ call'[c].kind = q.kind /\ call'[c].field = q.field /\ call'[c].value = q.value
      /\ call'[c].page = q.page /\ call'[c].still = q.still /\ call'[c].heard = q.heard
      /\ \A d \in Mutation : d # c => call'[d] = call[d]
      /\ \/ Acceptable(q) /\ call'[c].step = "write"
         \/ ~Acceptable(q) /\ call'[c].step = "no"
  BY <1>1, CareFacts DEF MutationRecord
<1>5. Merged(call[c])' = Merged(q)
  BY <1>1, <1>4 DEF Merged
<1>6. ~Acceptable(q) => Excused
  <2>1. q.kind \in {"move", "resize", "place", "remove"}
    BY <1>2, CallAlone DEF MutationRecord
  <2>2. q.kind # "place" => row[q.field] # NoRow
    BY <1>3 DEF Asked, Present
  <2>3. OnPage(Merged(q)) => Merged(q).x + Merged(q).w <= Grid
    BY DEF OnPage
  <2>4. q.kind = "remove" => Merged(q).x + Merged(q).w <= Grid
    BY Blank, GridFacts DEF Merged
  <2>5. Merged(q).x + Merged(q).w <= Grid \/ edge = TRUE
    BY <1>3, <2>1, <2>3, <2>4 DEF Asked
  <2>6. owner[q.field] = "signer" /\ sent \in BOOLEAN
    BY <1>2, CallAlone DEF Assigned, Typed, DraftTyped
  <2> QED
    BY <2>2, <2>5, <2>6 DEF Acceptable, Excused
<1>7. Asked(c)'
  <2>1. (call[c].kind # "place" => Present(call[c].field))'
    BY <1>1, <1>3, <1>4 DEF Asked, Present
  <2>2. (call[c].kind \in {"move", "resize"} =>
          OnPage(Merged(call[c])) /\ Agrees(overlay[call[c].field], Merged(call[c])))'
    BY <1>1, <1>3, <1>4, <1>5 DEF Asked, OnPage, Agrees
  <2>3. (call[c].kind = "place" =>
          overlay[call[c].field] = NoOverlay /\ (OnPage(Merged(call[c])) \/ edge = TRUE))'
    BY <1>1, <1>3, <1>4, <1>5 DEF Asked, OnPage
  <2>4. (call[c].still = TRUE => Merged(call[c]) = row[call[c].field])'
    BY <1>1, <1>3, <1>4, <1>5 DEF Asked
  <2> QED
    BY <2>1, <2>2, <2>3, <2>4 DEF Asked
<1>a. /\ AtRest /\ q.heard = TRUE
      /\ \A d \in Mutation : d # c => call[d] = NoCall /\ call[d].step = "none"
  BY <1>2, CallAlone
<1>b. \A d \in Mutation : d # c => call'[d] = call[d]
  BY <1>4
<1>8. \A d \in Mutation : d # c => call'[d] = NoCall /\ call'[d].step = "none"
  BY <1>a, <1>b
<1>9. OneAtATime'
  <2>1. AtRest' /\ call'[c].heard = TRUE
    BY <1>1, <1>4, <1>a DEF AtRest
  <2>2. \A d \in Mutation : Busy(d)' => d = c
    BY <1>8 DEF Busy
  <2> QED
    BY <2>1, <2>2 DEF OneAtATime, AtRest
<1>10. Caught'
  <2>1. \A d \in Mutation : call[d].step # "ok"
    BY <1>1, <1>2, CallAlone
  <2> QED
    BY <1>1, <1>3, <2>1 DEF Care, Caught
<1>11. Sound'
  BY <1>1 DEF Care, Sound, Present, OnPage
<1>12. Gestures'
  BY <1>1, <1>2, CallAlone DEF Gestures, AtRest
<1>13. Requested'
  BY <1>1, <1>4, <1>6, <1>7, <1>8 DEF Requested, Pending, Excused
<1>14. Overlays'
  <2> SUFFICES ASSUME NEW h \in FieldId, Present(h)', (\A d \in Mutation : ~Alters(d, h))'
               PROVE  Agrees(overlay[h], row[h])'
    BY DEF Overlays
  <2>1. ~Alters(c, h)
    BY <1>1, <1>4 DEF Alters, Pending
  <2>2. \A d \in Mutation : ~Alters(d, h)
    BY <1>2, <2>1, CallAlone DEF Alters, Pending
  <2> QED
    BY <1>1, <1>2, <2>2, CallAlone DEF Care, Overlays, Present, Agrees
<1> QED
  BY <1>9, <1>10, <1>11, <1>12, <1>13, <1>14 DEF Care

LEMMA CareWrite ==
    ASSUME Typed, Care, Assigned, crossed = FALSE, Written, NEW c \in Mutation, Write(c)
    PROVE  Care' /\ crossed' = FALSE
<1> DEFINE q == call[c]
           f == call[c].field
<1>1. q.step = "write" /\ UNCHANGED <<view, fetch, overlay, gesture, edge, sent>>
  BY DEF Write, draft
<1>2. Busy(c) /\ Pending(c)
  BY <1>1, CareFacts DEF Pending
<1>3. Asked(c) /\ Fitting(q) /\ q.kind \in {"move", "resize", "place", "remove"}
  BY <1>1, <1>2, CallAlone DEF Care, Requested, Written, MutationRecord
<1>4. /\ row' = [row EXCEPT ![f] = Merged(q)] /\ call' = [call EXCEPT ![c].step = "ok"]
      /\ crossed' = (crossed \/ Checked(f) # {c})
  <2>1. ~Missing(q)
    BY <1>2, <1>3, CallAlone DEF Missing, Fitting, Assigned
  <2> QED
    BY <2>1 DEF Write, To
<1>5. Checked(f) = {c}
  BY <1>1, <1>2, CallAlone DEF Checked
<1>a. /\ f \in FieldId /\ q \in MutationRecord /\ q.heard = TRUE
      /\ call \in [Mutation -> MutationRecord] /\ row \in [FieldId -> Row]
  BY <1>2, CareFacts, CallAlone DEF Rows
<1>b. \A d \in Mutation : d # c => call[d] = NoCall /\ call[d].step = "none"
  BY <1>2, CallAlone
<1>6. /\ call'[c].step = "ok" /\ call'[c].heard = TRUE
      /\ \A d \in Mutation : d # c => call'[d] = NoCall /\ call'[d].step = "none"
  BY <1>4, <1>a, <1>b DEF MutationRecord
<1>7. row'[f] = Merged(q) /\ \A h \in FieldId : h # f => row'[h] = row[h]
  BY <1>4, <1>a
<1>8. OneAtATime'
  BY <1>1, <1>2, <1>6, CallAlone DEF OneAtATime, Busy, AtRest
<1>9. Caught'
  BY <1>6 DEF Caught, Pending
<1>10. Sound'
  <2>1. ASSUME Merged(q) # NoRow PROVE OnPage(Merged(q))
    <3>1. CASE q.kind \in {"move", "resize"}
      BY <1>3, <3>1 DEF Asked
    <3>2. CASE q.kind = "place"
      <4>1. Merged(q).w = PlacedWidth
        BY <1>2, <3>2, CallAlone, MergedRow DEF Typed
      <4> QED
        BY <1>3, <4>1, GridFacts DEF OnPage, Fitting
    <3>3. CASE q.kind = "remove"
      BY <2>1, <3>3 DEF Merged
    <3> QED
      BY <1>3, <3>1, <3>2, <3>3
  <2> SUFFICES ASSUME NEW h \in FieldId, row'[h] # NoRow PROVE OnPage(row'[h])
    BY DEF Sound, Present, OnPage
  <2>2. CASE h = f
    BY <1>7, <2>1, <2>2
  <2>3. CASE h # f
    BY <1>7, <2>3 DEF Care, Sound, Present
  <2> QED
    BY <2>2, <2>3
<1>11. Gestures'
  BY <1>1, <1>2, CallAlone DEF Gestures, AtRest
<1>12. Requested'
  BY <1>6 DEF Requested, Pending
<1>13. Overlays'
  <2> SUFFICES ASSUME NEW h \in FieldId, row'[h] # NoRow PROVE Agrees(overlay[h], row'[h])
    BY <1>1 DEF Overlays, Present, Agrees
  <2>1. CASE h # f
    <3>1. \A d \in Mutation : ~Alters(d, h)
      BY <1>2, <2>1, CallAlone DEF Alters, Pending
    <3> QED
      BY <1>2, <1>7, <2>1, <3>1, CallAlone DEF Care, Overlays, Present
  <2>2. CASE h = f
    <3>1. CASE q.kind \in {"move", "resize"}
      BY <1>3, <1>7, <2>2, <3>1 DEF Asked
    <3>2. CASE q.kind = "place"
      BY <1>3, <2>2, <3>2, Blank DEF Asked, Agrees
    <3>3. CASE q.kind = "remove"
      BY <1>7, <2>2, <3>3 DEF Merged
    <3> QED
      BY <1>3, <3>1, <3>2, <3>3
  <2> QED
    BY <2>1, <2>2
<1>14. crossed' = FALSE
  BY <1>4, <1>5
<1> QED
  BY <1>8, <1>9, <1>10, <1>11, <1>12, <1>13, <1>14 DEF Care

LEMMA CareAnswer ==
    ASSUME Typed, Care, NEW c \in Mutation, Answer(c), call[c].step = "ok"
    PROVE  Care'
<1>1. /\ UNCHANGED <<row, view, overlay, gesture, edge, sent>> /\ fetch' = Invalidated
      /\ call' = [call EXCEPT ![c] = NoCall]
  BY DEF Answer, draft
<1>2. Busy(c)
  BY CareFacts
<1>a. \A d \in Mutation : d # c => call[d] = NoCall
  BY <1>2, CallAlone
<1>b. call \in [Mutation -> MutationRecord]
  BY CareFacts
<1>3. \A d \in Mutation : call'[d] = NoCall /\ call'[d].step = "none"
  BY <1>1, <1>a, <1>b, Blank
<1>4. fetch'.step = "sent"
  BY <1>1, Blank DEF Invalidated
<1>5. OneAtATime'
  BY <1>1, <1>2, <1>3, CallAlone DEF OneAtATime, Busy, AtRest
<1>6. Caught' /\ Requested'
  BY <1>3, <1>4 DEF Caught, Requested, Pending
<1>7. Sound'
  BY <1>1 DEF Care, Sound, Present, OnPage
<1>8. Gestures'
  BY <1>1, <1>2, CallAlone DEF Gestures, AtRest
<1>9. Overlays'
  <2>1. \A d \in Mutation, h \in FieldId : ~Alters(d, h)
    BY <1>2, CallAlone DEF Alters, Pending
  <2> QED
    BY <1>1, <1>2, <2>1, CallAlone DEF Care, Overlays, Present, Agrees
<1> QED
  BY <1>5, <1>6, <1>7, <1>8, <1>9 DEF Care

LEMMA CarefulStep ==
    ASSUME Typed, Careful, Written, [EditorNext]_editorVars
    PROVE  Careful'
<1> SUFFICES ASSUME Undisturbed' PROVE Care' /\ crossed' = FALSE /\ Assigned'
  BY DEF Careful
<1>1. /\ hasty \in BOOLEAN /\ refused \in BOOLEAN /\ others \in BOOLEAN /\ faulty \in BOOLEAN
      /\ crossed \in BOOLEAN
  BY DEF Typed, FlagsTyped
<1>2. hasty' # TRUE /\ refused' # TRUE /\ others' # TRUE /\ faulty' # TRUE
  BY DEF Undisturbed
<1>3. hasty = FALSE /\ refused = FALSE /\ others = FALSE /\ faulty = FALSE
  BY <1>1, <1>2, FlagsStep
<1>4. Care /\ crossed = FALSE /\ Assigned
  BY <1>3 DEF Careful, Undisturbed
<1>5. (edge = TRUE => edge' = TRUE) /\ (Excused => Excused')
  BY FlagsStep, DraftStep DEF Excused
<1>a. Assigned'
  BY <1>2, <1>4, DraftStep DEF Assigned
<1> SUFFICES Care' /\ crossed' = FALSE
  BY <1>a
<1>6. ASSUME BeginGesture PROVE Quiescent
  BY <1>2, <1>6 DEF BeginGesture
<1>7. ASSUME UNCHANGED <<row, view, fetch, overlay, gesture, call, crossed>>
      PROVE  Care' /\ crossed' = FALSE
  BY <1>4, <1>5, <1>7, CareIdle
<1>8. CASE UNCHANGED editorVars \/ TogglePlacing
  BY <1>7, <1>8 DEF editorVars, fields, ghosts, TogglePlacing
<1>9. CASE Mutates
  <2>1. ASSUME NEW c \in Mutation, NEW kind \in Kind, Release(c, kind) PROVE Care' /\ crossed' = FALSE
    BY <1>4, <2>1, CareRelease DEF Release, ghosts
  <2>2. ASSUME NEW c \in Mutation, NEW f \in FieldId, Remove(c, f) PROVE Care' /\ crossed' = FALSE
    BY <1>4, <1>6, <2>2, CareRemove DEF Remove
  <2>3. ASSUME NEW c \in Mutation, NEW f \in FieldId, NEW x \in 0..Grid, PlaceField(c, f, x)
        PROVE  Care' /\ crossed' = FALSE
    BY <1>4, <1>6, <2>3, CarePlace DEF PlaceField
  <2> QED
    BY <1>9, <2>1, <2>2, <2>3 DEF Mutates
<1>10. CASE Handles
  <2>1. ASSUME NEW f \in FieldId, NEW kind \in Kind, Press(f, kind) PROVE Care' /\ crossed' = FALSE
    BY <1>4, <1>6, <2>1, CarePress DEF Press
  <2>2. ASSUME NEW c \in Mutation, NEW kind \in Kind, Release(c, kind) PROVE Care' /\ crossed' = FALSE
    BY <1>4, <2>2, CareRelease DEF Release, ghosts
  <2>3. ASSUME NEW kind \in Kind, Cancel(kind) PROVE FALSE
    BY <1>2, <2>3 DEF Cancel, Fault
  <2> QED
    BY <1>10, <2>1, <2>2, <2>3 DEF Handles
<1>11. CASE Drags
  <2>1. ASSUME NEW v \in 0..Grid, MoveField(v) PROVE Care' /\ crossed' = FALSE
    BY <1>4, <2>1, CareMove DEF MoveField, ghosts
  <2>2. ASSUME NEW v \in 0..Grid, ResizeField(v) PROVE Care' /\ crossed' = FALSE
    BY <1>4, <2>2, CareResize DEF ResizeField, ghosts
  <2> QED
    BY <1>11, <2>1, <2>2 DEF Drags
<1>12. CASE Edits
  BY <1>2, <1>12 DEF Edits, OtherEdits
<1>18. CASE Drafts
  BY <1>2, <1>7, <1>18 DEF Drafts, OtherAssigns, SendDocument, ghosts
<1>13. CASE Reruns
  <2>1. PICK l \in Load : \E p \in Page : Rerun(l, p)
    <3>1. page \in Page
      BY DEF Typed, ViewerTyped
    <3> QED
      BY <1>13, <3>1 DEF Reruns, Renew, TurnPage
  <2>2. /\ gesture' = [kind \in Kind |-> [gesture[kind] EXCEPT !.held = FALSE]]
        /\ faulty' = (faulty \/ ~AtRest) /\ UNCHANGED <<row, view, fetch, overlay, call, crossed>>
    BY <2>1 DEF Rerun
  <2>3. AtRest
    BY <1>2, <2>2
  <2>4. \A kind \in Kind : gesture'[kind] = gesture[kind]
    BY <2>2, <2>3, NotHeldIsFree DEF AtRest
  <2>5. gesture' = gesture
    BY <2>2, <2>4, CareFacts
  <2> QED
    BY <1>7, <2>2, <2>5
<1>14. CASE Renders
  BY <1>2, <1>7, <1>14 DEF Renders, Render, Document, Draw, Finish, Fail, Fault, fields, ghosts
<1>15. CASE Settles
  <2>1. ASSUME NEW c \in Mutation, Answer(c) PROVE Care' /\ crossed' = FALSE
    <3>1. call[c].step = "ok"
      BY <1>2, <2>1 DEF Answer
    <3> QED
      BY <1>4, <2>1, <3>1, CareAnswer DEF Answer
  <2>2. ASSUME NEW c \in Mutation, Lose(c) PROVE FALSE
    BY <1>2, <2>2 DEF Lose
  <2>3. ASSUME NEW c \in Mutation, Forget(c) PROVE FALSE
    <3>1. Busy(c) /\ call[c].heard # TRUE
      BY <2>3, CareFacts DEF Forget
    <3> QED
      BY <1>4, <3>1 DEF Care, OneAtATime
  <2> QED
    BY <1>15, <2>1, <2>2, <2>3 DEF Settles
<1>16. ASSUME NEW c \in Mutation, Check(c) \/ Write(c) PROVE Care' /\ crossed' = FALSE
  <2>1. CASE Check(c)
    BY <1>4, <2>1, CareCheck DEF Check, ghosts
  <2>2. CASE Write(c)
    BY <1>4, <2>2, CareWrite
  <2> QED
    BY <1>16, <2>1, <2>2
<1>17. CASE Refocus \/ Read \/ Fetched
  <2>1. Care'
    BY <1>4, <1>17, CareQuery
  <2> QED
    BY <1>4, <1>17, <2>1 DEF Refocus, Read, Fetched, ghosts
<1> QED
  BY EditorCases, <1>8, <1>9, <1>10, <1>11, <1>12, <1>13, <1>14, <1>15, <1>16, <1>17, <1>18

(* The bounds that were checked are the bounds of what is written.         *)
LEMMA FittingFrame ==
    ASSUME NEW c \in Mutation, call[c].field \in FieldId, Fitting(call[c]),
           row'[call[c].field] = row[call[c].field],
           call'[c].kind = call[c].kind, call'[c].field = call[c].field,
           call'[c].value = call[c].value, call'[c].page = call[c].page
    PROVE  Fitting(call[c])'
<1>1. Merged(call[c])' = Merged(call[c])
  BY DEF Merged
<1> QED
  BY <1>1 DEF Fitting

LEMMA WrittenStep ==
    ASSUME Typed, Written, [EditorNext]_editorVars
    PROVE  Written'
<1> SUFFICES ASSUME crossed' = FALSE
             PROVE  /\ \A f \in FieldId : row'[f].x + row'[f].w <= Grid
                    /\ \A c \in Mutation : call'[c].step = "write" => Fitting(call[c])'
  BY DEF Written
<1>0. crossed = FALSE
  BY FlagsStep DEF Typed, FlagsTyped
<1>1. /\ \A f \in FieldId : row[f].x + row[f].w <= Grid
      /\ \A c \in Mutation : call[c].step = "write" => Fitting(call[c]) /\ call[c].field \in FieldId
  BY <1>0, CareFacts DEF Written, Pending
<1>2. call \in [Mutation -> MutationRecord] /\ row \in [FieldId -> Row]
  BY CareFacts DEF Rows
<1>3. ASSUME row' = row,
             \A c \in Mutation : call'[c].step = "write" =>
                /\ call[c].step = "write" /\ call'[c].kind = call[c].kind
                /\ call'[c].field = call[c].field /\ call'[c].value = call[c].value
                /\ call'[c].page = call[c].page
      PROVE  /\ \A f \in FieldId : row'[f].x + row'[f].w <= Grid
             /\ \A c \in Mutation : call'[c].step = "write" => Fitting(call[c])'
  BY <1>1, <1>3, FittingFrame
<1>4. CASE Edits
  <2>1. PICK f \in FieldId : OtherEdits(f)
    BY <1>4 DEF Edits
  <2>2. PICK x \in 0..Grid, w \in 1..Grid :
            x + w <= Grid /\ row' = [row EXCEPT ![f].x = x, ![f].w = w]
    BY <2>1 DEF OtherEdits
  <2>3. call' = call /\ Checked(f) = {}
    BY <1>0, <2>1 DEF OtherEdits
  <2>4. w \in 0..Grid
    BY GridFacts
  <2>5. row'[f] = [[row[f] EXCEPT !.x = x] EXCEPT !.w = w] /\ \A h \in FieldId : h # f => row'[h] = row[h]
    BY <1>2, <2>2
  <2>6. row'[f].x = x /\ row'[f].w = w
    BY <1>2, <2>4, <2>5, RowWith
  <2>7. \A h \in FieldId : row'[h].x + row'[h].w <= Grid
    BY <1>1, <2>2, <2>5, <2>6
  <2>8. \A c \in Mutation : call[c].step = "write" => call[c].field # f
    BY <2>3 DEF Checked
  <2> QED
    BY <1>1, <2>3, <2>5, <2>7, <2>8, FittingFrame
<1>5. ASSUME NEW c \in Mutation, Write(c)
      PROVE  /\ \A f \in FieldId : row'[f].x + row'[f].w <= Grid
             /\ \A d \in Mutation : call'[d].step = "write" => Fitting(call[d])'
  <2> DEFINE f == call[c].field
  <2>1. call[c].step = "write" /\ f \in FieldId /\ Fitting(call[c])
    BY <1>1, <1>5 DEF Write
  <2>a. CASE Missing(call[c])
    <3>1. row' = row /\ call' = [call EXCEPT ![c].step = "no"]
      BY <1>5, <2>a DEF Write, To
    <3> QED
      BY <1>2, <1>3, <3>1 DEF MutationRecord
  <2> SUFFICES ASSUME ~Missing(call[c])
               PROVE  /\ \A h \in FieldId : row'[h].x + row'[h].w <= Grid
                      /\ \A d \in Mutation : call'[d].step = "write" => Fitting(call[d])'
    BY <2>a
  <2>2. /\ row' = [row EXCEPT ![f] = Merged(call[c])] /\ call' = [call EXCEPT ![c].step = "ok"]
        /\ crossed' = (crossed \/ Checked(f) # {c})
    BY <1>5 DEF Write, To
  <2>3. Checked(f) = {c}
    BY <2>2
  <2>4. row'[f] = Merged(call[c]) /\ \A h \in FieldId : h # f => row'[h] = row[h]
    BY <1>2, <2>1, <2>2
  <2>5. call'[c].step = "ok" /\ \A d \in Mutation : d # c => call'[d] = call[d]
    BY <1>2, <2>2 DEF MutationRecord
  <2>6. Merged(call[c]).x + Merged(call[c]).w <= Grid
    BY <2>1 DEF Fitting
  <2>7. \A h \in FieldId : row'[h].x + row'[h].w <= Grid
    BY <1>1, <2>4, <2>6
  <2>8. \A d \in Mutation : d # c /\ call[d].step = "write" => call[d].field # f
    BY <2>3 DEF Checked
  <2> QED
    BY <1>1, <2>4, <2>5, <2>7, <2>8, FittingFrame
<1>6. CASE Mutates
  <2>1. row' = row
    BY <1>6 DEF Mutates, Release, Remove, PlaceField
  <2>2. PICK c \in Mutation : \E q : q.step = "check" /\ call' = [call EXCEPT ![c] = q]
    <3>1. PICK c \in Mutation : \/ \E kind \in Kind : Release(c, kind)
                                \/ \E f \in FieldId : Remove(c, f) \/ \E x \in 0..Grid : PlaceField(c, f, x)
      BY <1>6 DEF Mutates
    <3>2. ASSUME NEW kind, NEW f, NEW n, NEW p, NEW b, Mutate(c, kind, f, n, p, b)
          PROVE  \E q : q.step = "check" /\ call' = [call EXCEPT ![c] = q]
      <4> DEFINE q == [kind |-> kind, field |-> f, value |-> n, page |-> p, step |-> "check",
                       still |-> b, heard |-> TRUE]
      <4>1. q.step = "check" /\ call' = [call EXCEPT ![c] = q]
        BY <3>2 DEF Mutate
      <4> HIDE DEF q
      <4> QED
        BY <4>1
    <3> QED
      BY <3>1, <3>2 DEF Release, Remove, PlaceField
  <2>3. call'[c].step = "check" /\ \A d \in Mutation : d # c => call'[d] = call[d]
    BY <1>2, <2>2
  <2> QED
    BY <1>3, <2>1, <2>3
<1>7. CASE Settles
  <2>1. row' = row
    BY <1>7 DEF Settles, Answer, Lose, Forget
  <2>2. PICK c \in Mutation : call' = [call EXCEPT ![c] = NoCall] \/ call' = [call EXCEPT ![c].heard = FALSE]
    BY <1>7 DEF Settles, Answer, Lose, Forget
  <2>3. CASE call' = [call EXCEPT ![c] = NoCall]
    BY <1>2, <1>3, <2>1, <2>3, Blank
  <2>4. CASE call' = [call EXCEPT ![c].heard = FALSE]
    BY <1>2, <1>3, <2>1, <2>4 DEF MutationRecord
  <2> QED
    BY <2>2, <2>3, <2>4
<1>8. ASSUME NEW c \in Mutation, Check(c)
      PROVE  /\ \A f \in FieldId : row'[f].x + row'[f].w <= Grid
             /\ \A d \in Mutation : call'[d].step = "write" => Fitting(call[d])'
  <2>1. row' = row
    BY <1>8 DEF Check
  <2>3. call[c].field \in FieldId /\ call[c].kind # "none"
    BY <1>8, CareFacts DEF Check, Pending
  <2>2. \/ Fitting(call[c]) /\ call' = [call EXCEPT ![c].step = "write"]
        \/ call' = [call EXCEPT ![c].step = "no"]
    BY <1>2, <1>8, <2>3, AcceptableFits DEF Check, To
  <2>4. \A d \in Mutation : d # c => call'[d] = call[d]
    BY <1>2, <2>2
  <2>5. ASSUME call'[c].step = "write" PROVE Fitting(call[c])'
    <3>1. Fitting(call[c]) /\ call' = [call EXCEPT ![c].step = "write"]
      BY <1>2, <2>2, <2>5 DEF MutationRecord
    <3>2. /\ call'[c].kind = call[c].kind /\ call'[c].field = call[c].field
          /\ call'[c].value = call[c].value /\ call'[c].page = call[c].page
      BY <1>2, <3>1 DEF MutationRecord
    <3> QED
      BY <2>1, <2>3, <3>1, <3>2, FittingFrame
  <2> QED
    BY <1>1, <2>1, <2>4, <2>5, FittingFrame
<1>9. CASE row' = row /\ call' = call
  BY <1>3, <1>9
<1> QED
  BY <1>4, <1>5, <1>6, <1>7, <1>8, <1>9, RowFrame, CallFrame

LEMMA RefusalStep ==
    ASSUME Typed, Careful, RefusalIsExplained, [EditorNext]_editorVars
    PROVE  RefusalIsExplained'
<1>1. /\ hasty \in BOOLEAN /\ refused \in BOOLEAN /\ others \in BOOLEAN /\ faulty \in BOOLEAN
      /\ edge \in BOOLEAN
  BY DEF Typed, FlagsTyped
<1>2. /\ (others = TRUE => others' = TRUE) /\ (faulty = TRUE => faulty' = TRUE)
      /\ (hasty = TRUE => hasty' = TRUE) /\ (edge = TRUE => edge' = TRUE)
  BY FlagsStep
<1>b. sent \in BOOLEAN /\ (sent = TRUE => sent' = TRUE)
  BY DraftStep DEF Typed, DraftTyped
<1>3. ASSUME refused = TRUE PROVE RefusalIsExplained'
  BY <1>1, <1>2, <1>3, <1>b DEF RefusalIsExplained
<1>4. ASSUME NEW c \in Mutation, Answer(c), refused = FALSE PROVE RefusalIsExplained'
  <2>1. CASE refused' = FALSE
    BY <2>1 DEF RefusalIsExplained
  <2>2. CASE call[c].step = "no"
    <3>1. CASE hasty = FALSE /\ others = FALSE /\ faulty = FALSE
      <4>1. Care
        BY <1>4, <3>1 DEF Careful, Undisturbed
      <4>2. Excused
        BY <2>2, <4>1 DEF Care, Requested
      <4> QED
        BY <1>2, <1>b, <4>2 DEF RefusalIsExplained, Excused
    <3> QED
      BY <1>1, <1>2, <3>1 DEF RefusalIsExplained
  <2> QED
    BY <1>4, <2>1, <2>2 DEF Answer
<1>5. ASSUME NEW c \in Mutation, Lose(c) PROVE RefusalIsExplained'
  BY <1>5 DEF Lose, Fault, RefusalIsExplained
<1>6. ASSUME refused' = refused, refused = FALSE PROVE RefusalIsExplained'
  BY <1>6 DEF RefusalIsExplained
<1> DEFINE Same == refused' = refused
<1>7. ASSUME Mutates \/ Handles PROVE Same
  BY <1>7 DEF Mutates, Handles, Release, Remove, PlaceField, Cancel, Press, ghosts
<1>8. ASSUME Drags PROVE Same
  BY <1>8 DEF Drags, MoveField, ResizeField, ghosts
<1>9. ASSUME Reruns PROVE Same
  BY <1>9 DEF Reruns, Renew, TurnPage, Rerun
<1>10. ASSUME Renders PROVE Same
  BY <1>10 DEF Renders, Render, Document, Draw, Finish, Fail, ghosts
<1>11. ASSUME \/ UNCHANGED editorVars \/ TogglePlacing \/ Edits \/ Refocus \/ Read \/ Fetched
              \/ \E c \in Mutation : Check(c) \/ Write(c) \/ Forget(c)
       PROVE  Same
  BY <1>11 DEF editorVars, ghosts, TogglePlacing, Edits, OtherEdits, Refocus, Read, Fetched,
               Check, Write, Forget
<1>13. ASSUME Drafts PROVE Same
  BY <1>13 DEF Drafts, OtherAssigns, SendDocument, ghosts
<1>12. \/ Same \/ \E c \in Mutation : Answer(c) \/ Lose(c)
  BY EditorCases, <1>7, <1>8, <1>9, <1>10, <1>11, <1>13 DEF Settles
<1> QED
  BY <1>1, <1>3, <1>4, <1>5, <1>6, <1>12

(* The inductive invariant of the editor.                                  *)
EditorInd == Typed /\ Rendering /\ Careful /\ Written /\ RefusalIsExplained

LEMMA EditorIndInit == EditorInit => EditorInd
<1> SUFFICES ASSUME EditorInit PROVE EditorInd
  OBVIOUS
<1>1. Typed
  BY InitTyped
<1>2. /\ view = row /\ fetch = NoFetch /\ overlay = [f \in FieldId |-> NoOverlay]
      /\ gesture = [kind \in Kind |-> NoGesture] /\ call = [c \in Mutation |-> NoCall]
      /\ page = 1 /\ image = 1 /\ loading = FALSE /\ error = FALSE
      /\ load = [l \in Load |-> NoLoad] /\ refused = FALSE /\ crossed = FALSE
  BY DEF EditorInit
<1>3. \A f \in FieldId : row[f] = NoRow \/ (row[f].x = 0 /\ row[f].w = 1)
  BY DEF EditorInit
<1>4. \A f \in FieldId : /\ row[f].x + row[f].w <= Grid
                         /\ Present(f) => OnPage(row[f])
  BY <1>3, Blank, GridFacts DEF Present, OnPage
<1>5. \A c \in Mutation : call[c] = NoCall /\ call[c].step = "none"
  BY <1>2, Blank
<1>6. \A kind \in Kind : gesture[kind] = NoGesture
  BY <1>2
<1>7. Rendering
  BY <1>2 DEF Rendering, Active
<1>8. OneAtATime /\ Gestures /\ Requested
  BY <1>5, <1>6 DEF OneAtATime, Gestures, Requested, Busy, Pending
<1>9. Caught
  BY <1>2, <1>5, Blank DEF Caught, Pending
<1>10. Overlays
  BY <1>2, Blank DEF Overlays, Agrees
<1>a. Assigned
  BY DEF EditorInit, Assigned
<1>11. Careful
  BY <1>2, <1>4, <1>8, <1>9, <1>10, <1>a DEF Careful, Care, Sound
<1>12. Written
  BY <1>4, <1>5 DEF Written
<1> QED
  BY <1>1, <1>2, <1>7, <1>11, <1>12 DEF EditorInd, RefusalIsExplained

LEMMA EditorIndStep == EditorInd /\ [EditorNext]_editorVars => EditorInd'
  BY TypedStep, CarefulStep, WrittenStep, RefusalStep DEF EditorInd

LEMMA EditorIndViews == EditorInd => ViewInv
<1> SUFFICES ASSUME EditorInd PROVE ViewInv
  OBVIOUS
<1>0. Typed /\ Rendering /\ Careful /\ Written /\ RefusalIsExplained
  BY DEF EditorInd
<1>1. EditorTypeOK
  <2>1. loading => \E l \in Load : load[l] # NoLoad /\ ~load[l].cancelled
    <3>1. ASSUME loading = TRUE PROVE \E l \in Load : load[l] # NoLoad /\ load[l].cancelled = FALSE
      BY <1>0, <3>1 DEF Rendering, Active
    <3>2. loading \in BOOLEAN
      BY <1>0 DEF Typed, ViewerTyped
    <3> QED
      BY <3>1, <3>2
  <2>2. {others, faulty, hasty, crossed, refused, edge} \subseteq BOOLEAN
    BY <1>0 DEF Typed, FlagsTyped
  <2> QED
    BY <1>0, <2>1, <2>2 DEF EditorTypeOK, Typed, RowsTyped, HandsTyped, CallsTyped, FlagsTyped,
          DraftTyped, ViewerTyped, OverlayRecord, GestureRecord, MutationRecord, LoadRecord
<1>2. InsidePage
  <2>1. crossed \in BOOLEAN
    BY <1>0 DEF Typed, FlagsTyped
  <2> QED
    BY <1>0, <2>1 DEF InsidePage, Written
<1>3. ClickMovesNothing
  <2> SUFFICES ASSUME NEW c \in Mutation, call[c].still, call[c].step = "write", Undisturbed
               PROVE  Merged(call[c]) = row[call[c].field]
    BY DEF ClickMovesNothing
  <2>1. call[c].still = TRUE /\ Pending(c)
    BY <1>0, CareFacts DEF MutationRecord, Pending
  <2> QED
    BY <1>0, <2>1 DEF Careful, Care, Requested, Asked
<1>4. FieldsMatchImage
  <2>1. loading \in BOOLEAN /\ error \in BOOLEAN
    BY <1>0 DEF Typed, ViewerTyped
  <2> QED
    BY <1>0, <2>1 DEF FieldsMatchImage, Rendering
<1> QED
  BY <1>0, <1>1, <1>2, <1>3, <1>4 DEF ViewInv

LEMMA EditorIndShows == EditorInd => ShownIsStored
<1> SUFFICES ASSUME EditorInd, Undisturbed, Quiescent, AtRest
             PROVE  /\ view = row
                    /\ \A f \in FieldId : row[f] # NoRow => ShownX(f) = row[f].x /\ ShownW(f) = row[f].w
  BY DEF ShownIsStored
<1>1. Typed /\ Care
  BY DEF EditorInd, Careful
<1>2. view = row /\ \A f \in FieldId : row[f] # NoRow => Agrees(overlay[f], row[f])
  BY <1>1, CareRests DEF Present
<1> QED
  BY <1>2 DEF ShownX, ShownW, Agrees

\* However gestures of this editor, mutations and their answers, fetches, other
\* editors and renderings of the PDF interleave: a field leaves its page only if
\* a write came between the check and the write of another; while the document
\* is a draft, a mutation is refused or lost only if a gesture began before the
\* view had caught up, a field was placed at the edge, another editor changed a
\* field or a recipient, or something failed; a click, which sends the position
\* of the field too, moves nothing while the editor is undisturbed; and fields
\* are laid over the page that they belong to.  For any number of fields,
\* mutations and renderings, and a page of any width.
THEOREM EditorsShareAPage == EditorSpec => []ViewInv
<1>1. EditorSpec => []EditorInd
  BY EditorIndInit, EditorIndStep, PTL DEF EditorSpec
<1> QED
  BY <1>1, EditorIndViews, PTL

\* What an undisturbed editor sees when nothing is on its way is what is stored:
\* the overlay that the gestures leave behind, and that nothing ever clears,
\* agrees with the row of the field.
THEOREM ShownFieldsAreStored == EditorSpec => []ShownIsStored
<1>1. EditorSpec => []EditorInd
  BY EditorIndInit, EditorIndStep, PTL DEF EditorSpec
<1> QED
  BY <1>1, EditorIndShows, PTL
=============================================================================
