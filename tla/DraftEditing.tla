---------------------------- MODULE DraftEditing ----------------------------
(***************************************************************************)
(* Editing the recipients and fields of a document                         *)
(* (apps/api/src/recipients, apps/api/src/document-fields), raced by       *)
(* sending it (apps/api/src/signing).                                      *)
(*                                                                         *)
(* An edit is a chain of separate statements: is the document a draft, do  *)
(* the recipient (as a signer) and the field exist; then one write, then   *)
(* the audit event.  No transaction joins them, so each is a step here.    *)
(* The single write is atomic and obeys the foreign keys: a field or a     *)
(* request cannot refer to a missing recipient, deleting a recipient sets  *)
(* the owner of its fields to null and deletes its request.                *)
(*                                                                         *)
(* Ids are generated, so a deleted recipient or field never comes back.    *)
(* A field's geometry is kept in one dimension.                            *)
(***************************************************************************)
EXTENDS Naturals, FiniteSets

CONSTANTS Recipient, Field,  \* ids that will be generated
          Call,              \* concurrent HTTP requests
          PageWidth, Left, Width,  \* the page and what callers ask for
          Patch,             \* the bodies of field updates that are sent
          MaxCrashes,        \* bound on calls that die half-way
          NoRecipient, Keep  \* null; a property the body does not mention

\* The PATCH bodies of a field: anything may be left out, and a null owner
\* passes the validation of the body.
AnyPatch == [owner : Recipient \cup {Keep, NoRecipient}, left : Left \cup {Keep},
             width : Width \cup {Keep}]

ASSUME DraftAssumption ==
    /\ Left \subseteq Nat /\ Width \subseteq Nat /\ PageWidth \in Nat
    /\ MaxCrashes \in Nat
    /\ NoRecipient \notin Recipient
    /\ Keep \notin Recipient \cup Left \cup Width \cup {NoRecipient}
    /\ Patch \subseteq AnyPatch

VARIABLES
    document,   \* "DRAFT" or "SENT"
    role,       \* recipients: RecipientRole, or no row yet or any more
    field,      \* document_fields: state and recipientId, x and width
    requests,   \* recipients that have a signing request
    lost,       \* the changes that left no audit event
    crashes,
    pc, args    \* each call: its next statement, its inputs and findings

tables == <<document, role, field, requests>>
vars == <<tables, lost, crashes, pc, args>>

NoField == [state |-> "ABSENT", owner |-> NoRecipient, left |-> 0, width |-> 0]
NoArgs == [who |-> NoRecipient, what |-> {}, role |-> "CC",
           patch |-> [owner |-> Keep, left |-> Keep, width |-> Keep],
           signers |-> {}]

Init ==
    /\ document = "DRAFT"
    /\ role = [r \in Recipient |-> "ABSENT"]
    /\ field = [f \in Field |-> NoField]
    /\ requests = {}
    /\ lost = {}
    /\ crashes = 0
    /\ pc = [c \in Call |-> "idle"]
    /\ args = [c \in Call |-> NoArgs]

Exists(r) == r \in Recipient /\ role[r] \in {"SIGNER", "CC"}
Placed(f) == field[f].state = "PLACED"

-----------------------------------------------------------------------------
Goto(c, step) == pc' = [pc EXCEPT ![c] = step]
Return(c) == Goto(c, "idle") /\ args' = [args EXCEPT ![c] = NoArgs]

\* An error response, before the call has changed anything.
Reject(c) == Return(c) /\ UNCHANGED <<tables, lost, crashes>>

Proceed(c, step) == Goto(c, step) /\ UNCHANGED <<tables, lost, crashes, args>>

\* getEditableDocument and editable.  (Mutant: no check.)
EditableAlways == TRUE
Editable == document = "DRAFT"

\* A call passes the draft check.  (A call that fails it leaves no trace.)
Begin(c, step, inputs) ==
    /\ pc[c] = "idle"
    /\ Editable
    /\ Goto(c, step)
    /\ args' = [args EXCEPT ![c] = inputs]
    /\ UNCHANGED <<tables, lost, crashes>>

(***************************************************************************)
(* Recipients.                                                             *)
(***************************************************************************)
\* The DTO classes fill in the role that a body leaves out.
AnyRole == {"SIGNER", "CC", Keep}
RoleOf(body) == IF body = Keep THEN "SIGNER" ELSE body

BeginCreateRecipient(c, body) ==
    Begin(c, "insertRecipient", [NoArgs EXCEPT !.role = RoleOf(body)])

\* The insert fails when the e-mail address is taken.
InsertRecipient(c) ==
    /\ pc[c] = "insertRecipient"
    /\ \/ \E r \in Recipient :
            /\ role[r] = "ABSENT"
            /\ role' = [role EXCEPT ![r] = args[c].role]
            /\ args' = [args EXCEPT ![c].who = r]
            /\ Goto(c, "audit")
            /\ UNCHANGED <<document, field, requests, lost, crashes>>
       \/ Reject(c)

BeginUpdateRecipient(c, r, body) ==
    Begin(c, "findRecipient", [NoArgs EXCEPT !.who = r, !.role = RoleOf(body)])

\* getRecipient and the first part of assertRoleChangeIsAllowed.  (Mutant:
\* the assigned fields are not looked at.)
NeedsNoFieldsNever(old, new) == FALSE
NeedsNoFields(old, new) == old = "SIGNER" /\ new = "CC"

FindRecipient(c) == LET r == args[c].who IN
    /\ pc[c] = "findRecipient"
    /\ \/ ~Exists(r) /\ Reject(c)
       \/ /\ Exists(r)
          /\ Proceed(c, IF NeedsNoFields(role[r], args[c].role)
                        THEN "countFields" ELSE "updateRecipient")

CountFields(c) ==
    /\ pc[c] = "countFields"
    /\ IF \E f \in Field : Placed(f) /\ field[f].owner = args[c].who
       THEN Reject(c)
       ELSE Proceed(c, "updateRecipient")

\* Fails if the recipient is gone or its new e-mail address is taken.
UpdateRecipient(c) == LET r == args[c].who IN
    /\ pc[c] = "updateRecipient"
    /\ \/ Reject(c)
       \/ /\ Exists(r)
          /\ role' = [role EXCEPT ![r] = args[c].role]
          /\ Goto(c, "audit")
          /\ UNCHANGED <<document, field, requests, lost, crashes, args>>

BeginRemoveRecipient(c, r) ==
    Begin(c, "findRemoved", [NoArgs EXCEPT !.who = r])

FindRemoved(c) ==
    /\ pc[c] = "findRemoved"
    /\ IF Exists(args[c].who) THEN Proceed(c, "deleteRecipient") ELSE Reject(c)

\* ON DELETE SET NULL of document_fields.
Orphaned(r) ==
    [f \in Field |-> IF field[f].owner = r
                     THEN [field[f] EXCEPT !.owner = NoRecipient] ELSE field[f]]

DeleteRecipient(c) == LET r == args[c].who IN
    /\ pc[c] = "deleteRecipient"
    /\ \/ ~Exists(r) /\ Reject(c)
       \/ /\ Exists(r)
          /\ role' = [role EXCEPT ![r] = "DELETED"]
          /\ field' = Orphaned(r)
          /\ requests' = requests \ {r}
          /\ Goto(c, "audit")
          /\ UNCHANGED <<document, lost, crashes, args>>

(***************************************************************************)
(* Fields.  All ways to assign one begin by checking that the recipient    *)
(* exists and is a signer.                                                 *)
(***************************************************************************)
BeginCreateField(c, r, x, w) ==
    Begin(c, "checkSigner",
          [NoArgs EXCEPT !.who = r,
                         !.patch = [owner |-> r, left |-> x, width |-> w]])

BeginUpdateField(c, f, patch) ==
    Begin(c, "findField", [NoArgs EXCEPT !.what = {f}, !.patch = patch])

BeginBulkAssign(c, fs, r) ==
    Begin(c, "checkBulk", [NoArgs EXCEPT !.who = r, !.what = fs])

BeginRemoveField(c, f) ==
    Begin(c, "findRemovedField", [NoArgs EXCEPT !.what = {f}])

Given(new, old) == IF new = Keep THEN old ELSE new

\* The recipient that validate is asked about: for `??' a null is missing.
MergedOwner(patch, old) ==
    IF patch.owner \in Recipient THEN patch.owner ELSE old.owner

\* validate: what the body leaves out is filled in from the row that was
\* read.  (The code looks at the page after the recipient; both only refuse.)
Fits(patch, old) ==
    Given(patch.left, old.left) + Given(patch.width, old.width) <= PageWidth

FindField(c) == LET f == CHOOSE g \in args[c].what : TRUE
                    r == MergedOwner(args[c].patch, field[f]) IN
    /\ pc[c] = "findField"
    /\ IF Placed(f) /\ r # NoRecipient /\ Fits(args[c].patch, field[f])
       THEN /\ args' = [args EXCEPT ![c].who = r]
            /\ Goto(c, "checkSigner")
            /\ UNCHANGED <<tables, lost, crashes>>
       ELSE Reject(c)

IsSigner(r) == r \in Recipient /\ role[r] = "SIGNER"

\* A creation has no field yet, an update the one it found.
CheckSigner(c) ==
    /\ pc[c] = "checkSigner"
    /\ \/ ~IsSigner(args[c].who) /\ Reject(c)
       \/ /\ IsSigner(args[c].who)
          /\ \/ /\ args[c].what = {}
                /\ IF Fits(args[c].patch, NoField)
                   THEN Proceed(c, "insertField") ELSE Reject(c)
             \/ args[c].what # {} /\ Proceed(c, "updateField")

\* The foreign key rejects a recipient that has been deleted meanwhile; its
\* role is not looked at again.
InsertField(c) == LET patch == args[c].patch IN
    /\ pc[c] = "insertField"
    /\ \/ \E f \in Field :
            /\ Exists(patch.owner)
            /\ field[f].state = "ABSENT"
            /\ field' = [field EXCEPT ![f] =
                  [state |-> "PLACED", owner |-> patch.owner,
                   left |-> patch.left, width |-> patch.width]]
            /\ args' = [args EXCEPT ![c].what = {f}, ![c].who = NoRecipient]
            /\ Goto(c, "audit")
            /\ UNCHANGED <<document, role, requests, lost, crashes>>
       \/ Reject(c)

\* Writes what the body mentions, and nothing else, to fields that are there.
Patched(fs, patch) ==
    [f \in Field |-> IF f \in fs /\ Placed(f)
                     THEN [field[f] EXCEPT !.owner = Given(patch.owner, @),
                                           !.left = Given(patch.left, @),
                                           !.width = Given(patch.width, @)]
                     ELSE field[f]]

WriteFields(c, patch) ==
    /\ field' = Patched(args[c].what, patch)
    /\ args' = [args EXCEPT ![c].who = NoRecipient]
    /\ Goto(c, "audit")
    /\ UNCHANGED <<document, role, requests, lost, crashes>>

UpdateField(c) == LET patch == args[c].patch IN
    /\ pc[c] = "updateField"
    /\ IF /\ \A f \in args[c].what : Placed(f)
          /\ patch.owner \in Recipient => Exists(patch.owner)
       THEN WriteFields(c, patch)
       ELSE Reject(c)

CheckBulk(c) ==
    /\ pc[c] = "checkBulk"
    /\ IF IsSigner(args[c].who) THEN Proceed(c, "listFields") ELSE Reject(c)

ListFields(c) ==
    /\ pc[c] = "listFields"
    /\ IF \A f \in args[c].what : Placed(f)
       THEN Proceed(c, "assignFields") ELSE Reject(c)

\* updateMany: a field that has been deleted meanwhile is skipped.
AssignFields(c) == LET r == args[c].who IN
    /\ pc[c] = "assignFields"
    /\ IF Exists(r) \/ \A f \in args[c].what : ~Placed(f)
       THEN WriteFields(c, [owner |-> r, left |-> Keep, width |-> Keep])
       ELSE Reject(c)

FindRemovedField(c) ==
    /\ pc[c] = "findRemovedField"
    /\ IF \A f \in args[c].what : Placed(f)
       THEN Proceed(c, "deleteField") ELSE Reject(c)

DeleteField(c) ==
    /\ pc[c] = "deleteField"
    /\ IF \A f \in args[c].what : Placed(f)
       THEN /\ field' = [f \in Field |-> IF f \in args[c].what
                            THEN [NoField EXCEPT !.state = "DELETED"]
                            ELSE field[f]]
            /\ Goto(c, "audit")
            /\ UNCHANGED <<document, role, requests, lost, crashes, args>>
       ELSE Reject(c)

(***************************************************************************)
(* The audit event, an insert of its own.  It refers to the recipient that *)
(* was changed, which must exist; field events refer to the document only. *)
(***************************************************************************)
\* (Mutant: the audit event of a field refers to its owner.)
AuditableOwned(c) ==
    /\ args[c].who # NoRecipient => Exists(args[c].who)
    /\ \A f \in args[c].what : field[f].owner # NoRecipient
Auditable(c) == args[c].who # NoRecipient => Exists(args[c].who)

Change(c) == [who |-> args[c].who, what |-> args[c].what]

Audit(c) ==
    /\ pc[c] = "audit"
    /\ Return(c)
    /\ lost' = IF Auditable(c) THEN lost ELSE lost \cup {Change(c)}
    /\ UNCHANGED <<tables, crashes>>

(***************************************************************************)
(* SigningService.send.                                                    *)
(***************************************************************************)
BeginSend(c) == Begin(c, "readRecipients", NoArgs)

ReadRecipients(c) ==
    /\ pc[c] = "readRecipients"
    /\ args' = [args EXCEPT ![c].signers = {r \in Recipient : IsSigner(r)}]
    /\ Goto(c, "readFields")
    /\ UNCHANGED <<tables, lost, crashes>>

\* (Mutant: a signer without a field is let through.)
Owners == {field[f].owner : f \in {g \in Field : Placed(g)}}
SendableUnassigned(signers) == signers # {} /\ Owners # {} /\ Owners \subseteq signers
Sendable(signers) == signers # {} /\ Owners = signers

ReadFields(c) ==
    /\ pc[c] = "readFields"
    /\ IF Sendable(args[c].signers) THEN Proceed(c, "send") ELSE Reject(c)

\* The transaction: the document must still be a draft, and the signers that
\* were read must still exist, because their requests refer to them.
Send(c) ==
    /\ pc[c] = "send"
    /\ IF document = "DRAFT" /\ \A r \in args[c].signers : Exists(r)
       THEN /\ document' = "SENT"
            /\ requests' = args[c].signers
            /\ Return(c)
            /\ UNCHANGED <<role, field, lost, crashes>>
       ELSE Reject(c)

\* The API process that serves the call dies.
Crash(c) ==
    /\ pc[c] # "idle"
    /\ crashes < MaxCrashes
    /\ crashes' = crashes + 1
    /\ Return(c)
    /\ lost' = IF pc[c] = "audit" THEN lost \cup {Change(c)} ELSE lost
    /\ UNCHANGED tables

-----------------------------------------------------------------------------
BeginCall(c) ==
    \/ \E body \in AnyRole :
          \/ BeginCreateRecipient(c, body)
          \/ \E r \in Recipient : BeginUpdateRecipient(c, r, body)
    \/ \E r \in Recipient :
          \/ BeginRemoveRecipient(c, r)
          \/ \E x \in Left, w \in Width : BeginCreateField(c, r, x, w)
          \/ \E fs \in SUBSET Field \ {{}} : BeginBulkAssign(c, fs, r)
    \/ \E f \in Field : \/ BeginRemoveField(c, f)
                        \/ \E patch \in Patch : BeginUpdateField(c, f, patch)
    \/ BeginSend(c)

Progress(c) ==
    \/ InsertRecipient(c)
    \/ FindRecipient(c) \/ CountFields(c) \/ UpdateRecipient(c)
    \/ FindRemoved(c) \/ DeleteRecipient(c)
    \/ CheckSigner(c) \/ InsertField(c)
    \/ FindField(c) \/ UpdateField(c)
    \/ CheckBulk(c) \/ ListFields(c) \/ AssignFields(c)
    \/ FindRemovedField(c) \/ DeleteField(c)
    \/ ReadRecipients(c) \/ ReadFields(c) \/ Send(c)
    \/ Audit(c)

CallStep(c) == BeginCall(c) \/ Progress(c) \/ Crash(c)

Next == \E c \in Call : CallStep(c)

Spec == Init /\ [][Next]_vars

-----------------------------------------------------------------------------
FieldRecord == [state : {"ABSENT", "PLACED", "DELETED"},
                owner : Recipient \cup {NoRecipient},
                left : Left \cup {0}, width : Width \cup {0}]

ArgsRecord == [who : Recipient \cup {NoRecipient}, what : SUBSET Field,
               role : {"SIGNER", "CC"}, patch : AnyPatch,
               signers : SUBSET Recipient]

Changes == [who : Recipient \cup {NoRecipient}, what : SUBSET Field]

Steps == {"idle", "insertRecipient", "findRecipient", "countFields",
          "updateRecipient", "findRemoved", "deleteRecipient",
          "checkSigner", "insertField", "findField", "updateField",
          "checkBulk", "listFields", "assignFields", "findRemovedField",
          "deleteField", "readRecipients", "readFields", "send", "audit"}

TablesOK ==
    /\ document \in {"DRAFT", "SENT"}
    /\ role \in [Recipient -> {"ABSENT", "SIGNER", "CC", "DELETED"}]
    /\ field \in [Field -> FieldRecord]
    /\ requests \subseteq Recipient

\* A creation has a whole field to insert, an update a field to find.
InputsFit(step, a) ==
    /\ step = "findField" => a.what # {}
    /\ step = "insertField" => a.what = {}
    /\ step \in {"checkSigner", "insertField"} /\ a.what = {} =>
          a.patch \in [owner : Recipient, left : Left, width : Width]

TypeOK ==
    /\ TablesOK
    /\ lost \subseteq Changes
    /\ crashes \in 0..MaxCrashes
    /\ pc \in [Call -> Steps]
    /\ args \in [Call -> ArgsRecord]
    /\ \A c \in Call : InputsFit(pc[c], args[c])

(***************************************************************************)
(* What holds for any interleaving of calls.                               *)
(***************************************************************************)
\* Nothing refers to a recipient that was removed, whatever was decided
\* about it while it still existed, and links exist only once sent.
ReferencesIntact ==
    /\ \A f \in Field : field[f].owner # NoRecipient => Exists(field[f].owner)
    /\ \A r \in requests : Exists(r)
    /\ requests # {} => document = "SENT"

\* A change without an audit event is one of a removed recipient, or the
\* process died between the change and its event.
LostIsExplained ==
    Cardinality({e \in lost : e.who # NoRecipient => Exists(e.who)}) <= crashes

\* A sent document that no call is working on never changes again.
Settled == document = "SENT" /\ \A c \in Call : pc[c] = "idle"
SettledIsFrozen == [][Settled => Settled' /\ UNCHANGED tables]_vars

(***************************************************************************)
(* What the checks are meant to guarantee, and do until a call writes over *)
(* what another has changed since it began (see DraftOverlap).             *)
(***************************************************************************)
\* A field is never assigned to somebody who does not sign.
FieldsOwnedBySigners ==
    \A f \in Field : field[f].owner # NoRecipient => IsSigner(field[f].owner)

\* A field never extends beyond its page.
FieldsInsidePage == \A f \in Field : field[f].left + field[f].width <= PageWidth

\* A sent document has links for exactly its signers, who own all its fields
\* and at least one each.
SentIsWellFormed ==
    document = "SENT" => /\ requests = {r \in Recipient : IsSigner(r)}
                         /\ requests # {}
                         /\ requests = Owners
=============================================================================
