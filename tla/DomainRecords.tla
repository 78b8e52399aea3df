---------------------------- MODULE DomainRecords ----------------------------
(***************************************************************************)
(* What a user keeps: projects, tasks, notes, lists and their items,       *)
(* memories and notifications, and the activity that tells about them.     *)
(* Each service (app/<kind>s/service.py) reads a row, decides, and writes  *)
(* the columns it changed together with the activity row in one commit.    *)
(*                                                                         *)
(* Requests run concurrently at READ COMMITTED.  Only memories and the     *)
(* list an item is added to are read FOR UPDATE; everything else may have  *)
(* changed between the read and the commit.  "open" stands for active and  *)
(* unread, "closed" for complete, archived, forgotten and dismissed.       *)
(***************************************************************************)
EXTENDS Naturals, FiniteSets, FiniteSetsExt

CONSTANTS Request,  \* requests that may be under way at one time
          Entity,   \* projects, tasks, notes, lists, memories, notifications
          Item,     \* list items
          Text,     \* wordings of a record
          None      \* no record, text or status

ASSUME RecordsAssumption ==
    /\ Entity \cap Item = {}
    /\ IsFiniteSet(Item)
    /\ None \notin Entity \cup Item \cup Text \cup {"absent"}

VARIABLES row,   \* the domain tables
          told,  \* the status the newest status-bearing activity reports
          req    \* what each request holds

vars == <<row, told, req>>

Record == Entity \cup Item
Kind == {"project", "task", "note", "list", "item", "memory", "notification"}
Status == {"open", "read", "closed"}

ASSUME NoneAssumption == None \notin Kind \cup Status

(* The statuses and texts a client may ask for, per kind.                  *)
ProjectChange == [status : {None, "open", "closed"}, text : Text \cup {None}]
TaskChange == [status : {None, "open", "closed"}, text : Text \cup {None}]
NoteChange == [status : {None, "closed"}, text : Text \cup {None}]
ListChange == [status : {None, "closed"}, text : Text \cup {None}]
ItemChange == [status : {None, "closed"}, text : Text \cup {None}]
MemoryChange == [status : {None, "closed"}, text : Text \cup {None}]
                    \ {[status |-> None, text |-> None]}
NotificationChange == [status : {"read", "closed"}, text : {None}]

Ask == [status : Status \cup {None}, text : Text \cup {None}]
Row == [kind : Kind \cup {None}, status : Status \cup {"absent"},
        text : Text \cup {None},
        stamps : SUBSET {"read", "closed"},   \* read_at; completed_at, archived_at, ...
        of : Entity \cup {None}, pos : Nat]   \* of an item
Seen == [status : Status \cup {"absent"}, text : Text \cup {None}]
RequestState == [pc : {"idle", "parent", "update", "add"}, on : Record \cup {None},
                 ask : Ask, saw : Seen, pos : Nat]

Missing == [kind |-> None, status |-> "absent", text |-> None, stamps |-> {},
            of |-> None, pos |-> 0]
Quiet == [pc |-> "idle", on |-> None, ask |-> [status |-> None, text |-> None],
          saw |-> [status |-> "absent", text |-> None], pos |-> 0]

TypeOK ==
    /\ row \in [Record -> Row]
    /\ told \in [Record -> {"nothing", "open", "closed"}]
    /\ req \in [Request -> RequestState]

Init ==
    /\ row = [x \in Record |-> Missing]
    /\ told = [x \in Record |-> "nothing"]
    /\ req = [r \in Request |-> Quiet]

At(r, pc) == req[r].pc = pc
Start(r, state) == At(r, "idle") /\ req' = [req EXCEPT ![r] = state]
End(r) == req' = [req EXCEPT ![r] = Quiet]
Exists(x, kind) == row[x].kind = kind

LocksListsOnly(r) == At(r, "add")                                     \* slip

(* The row locks of SELECT ... FOR UPDATE, held until the commit.          *)
Locks(r) ==
    \/ At(r, "add")
    \/ At(r, "update") /\ Exists(req[r].on, "memory")

Locked(x) == \E r \in Request : Locks(r) /\ req[r].on = x

-----------------------------------------------------------------------------
(* New rows: the insert and what the activity says of it are one commit.   *)

Insert(e, kind, status, said) ==
    /\ row[e] = Missing
    /\ \E text \in Text :
          row' = [row EXCEPT ![e] = [Missing EXCEPT !.kind = kind, !.status = status,
                     !.text = text,
                     !.stamps = IF kind # "project" /\ status = "closed" THEN {"closed"} ELSE {}]]
    /\ told' = [told EXCEPT ![e] = said]
    /\ UNCHANGED req

CreateProject(e) == \E status \in {"open", "closed"} : Insert(e, "project", status, "nothing")
CreateTask(e) ==
    /\ \E p \in Entity : Exists(p, "project")
    /\ \E status \in {"open", "closed"} : Insert(e, "task", status, status)
CreateNote(e) == Insert(e, "note", "open", "open")
CreateList(e) == Insert(e, "list", "open", "open")
Remember(e) == Insert(e, "memory", "open", "open")
CreateNotification(e) == Insert(e, "notification", "open", "nothing")

-----------------------------------------------------------------------------
(* Updates: a request reads the row and checks the transition, ...         *)

Read(r, x, ask) ==
    [Quiet EXCEPT !.pc = "update", !.on = x, !.ask = ask,
                  !.saw = [status |-> row[x].status, text |-> row[x].text]]

UpdateProject(r, e) ==
    /\ Exists(e, "project")
    /\ \E ask \in ProjectChange : Start(r, Read(r, e, ask))
    /\ UNCHANGED <<row, told>>

UpdateTask(r, e) ==
    /\ Exists(e, "task")
    /\ \E ask \in TaskChange : Start(r, Read(r, e, ask))
    /\ UNCHANGED <<row, told>>

UpdateNote(r, e) ==
    /\ Exists(e, "note") /\ row[e].status # "closed"
    /\ \E ask \in NoteChange : Start(r, Read(r, e, ask))
    /\ UNCHANGED <<row, told>>

UpdateList(r, e) ==
    /\ Exists(e, "list") /\ row[e].status # "closed"
    /\ \E ask \in ListChange : Start(r, Read(r, e, ask))
    /\ UNCHANGED <<row, told>>

UpdateMemory(r, e) ==
    /\ Exists(e, "memory") /\ row[e].status # "closed"
    /\ ~Locked(e)
    /\ \E ask \in MemoryChange : Start(r, Read(r, e, ask))
    /\ UNCHANGED <<row, told>>

(* A read or dismissed notification is written only when that changes it.  *)
MarkRead(r, e) ==
    /\ Exists(e, "notification") /\ row[e].status = "open"
    /\ Start(r, Read(r, e, [status |-> "read", text |-> None]))
    /\ UNCHANGED <<row, told>>

Dismiss(r, e) ==
    /\ Exists(e, "notification") /\ row[e].status # "closed"
    /\ Start(r, Read(r, e, [status |-> "closed", text |-> None]))
    /\ UNCHANGED <<row, told>>

(* The list is read once, before the item, and is not locked.              *)
FindParent(r, i) ==
    /\ Exists(i, "item") /\ row[row[i].of].status # "closed"
    /\ \E ask \in ItemChange : Start(r, [Quiet EXCEPT !.pc = "parent", !.on = i, !.ask = ask])
    /\ UNCHANGED <<row, told>>

UpdateItem(r) ==
    /\ At(r, "parent")
    /\ IF row[req[r].on].status = "closed"
       THEN End(r)
       ELSE req' = [req EXCEPT ![r] = Read(r, req[r].on, req[r].ask)]
    /\ UNCHANGED <<row, told>>

-----------------------------------------------------------------------------
(* ... then writes the columns that differ from what it read.              *)

Changes(r) ==
    {f \in {"status", "text"} : req[r].ask[f] # None /\ req[r].ask[f] # req[r].saw[f]}

StampedNaively(x, status) == row[x].stamps \cup {status}              \* slip

Stamped(x, status) ==
    CASE row[x].kind = "project"      -> {}
      [] row[x].kind = "notification" -> row[x].stamps \cup {status}
      [] OTHER                        -> IF status = "closed" THEN {"closed"} ELSE {}

WrittenWhole(r, x) ==                                                 \* slip
    [row[x] EXCEPT !.text = IF req[r].ask.text # None THEN req[r].ask.text ELSE req[r].saw.text,
                   !.status = IF req[r].ask.status # None THEN req[r].ask.status ELSE req[r].saw.status,
                   !.stamps = IF "status" \in Changes(r) THEN Stamped(x, req[r].ask.status) ELSE @]

Written(r, x) ==
    [row[x] EXCEPT
        !.text = IF "text" \in Changes(r) THEN req[r].ask.text ELSE @,
        !.status = IF "status" \in Changes(r) THEN req[r].ask.status ELSE @,
        !.stamps = IF "status" \in Changes(r) THEN Stamped(x, req[r].ask.status) ELSE @]

(* task.updated, note.archived, memory.forgotten, ...: the activity that   *)
(* goes with a new status.  Projects and notifications do not tell theirs. *)
Tells(r, x) ==
    IF "status" \in Changes(r) /\ row[x].kind \notin {"project", "notification"}
    THEN req[r].ask.status ELSE told[x]

(* An item's update also touches its list, so it waits for that lock too.  *)
Waits(r, x) ==
    \/ \E q \in Request \ {r} : Locks(q) /\ req[q].on = x /\ Changes(r) # {}
    \/ row[x].kind = "item" /\ Locked(row[x].of)

Commit(r) ==
    /\ At(r, "update")
    /\ LET x == req[r].on IN
          /\ ~Waits(r, x)
          /\ row' = [row EXCEPT ![x] = Written(r, x)]
          /\ told' = [told EXCEPT ![x] = Tells(r, x)]
    /\ End(r)

-----------------------------------------------------------------------------
(* Adding an item: the list stays locked from the check to the commit.     *)
(* The unique constraint on (list, position) is left out: ItemsInOrder     *)
(* shows that it is never what refuses an item.                            *)

Added(l) == {i \in Item : row[i].of = l}

NextPositionByCount(l) == Cardinality({i \in Added(l) : row[i].status = "open"})  \* slip

NextPosition(l) == IF Added(l) = {} THEN 0 ELSE Max({row[i].pos : i \in Added(l)}) + 1

LockList(r, l) ==
    /\ Exists(l, "list") /\ row[l].status # "closed"
    /\ ~Locked(l)
    /\ Start(r, [Quiet EXCEPT !.pc = "add", !.on = l, !.pos = NextPosition(l)])
    /\ UNCHANGED <<row, told>>

CreateItem(r, i) ==
    /\ At(r, "add") /\ row[i] = Missing
    /\ \E text \in Text :
          row' = [row EXCEPT ![i] = [Missing EXCEPT !.kind = "item", !.status = "open",
                     !.text = text, !.of = req[r].on, !.pos = req[r].pos]]
    /\ told' = [told EXCEPT ![i] = "open"]
    /\ End(r)

(* The connection is dropped: nothing is committed and the locks are gone. *)
Abandon(r) ==
    /\ ~At(r, "idle")
    /\ End(r)
    /\ UNCHANGED <<row, told>>

Insertion(e) ==
    \/ CreateProject(e) \/ CreateTask(e) \/ CreateNote(e) \/ CreateList(e)
    \/ Remember(e) \/ CreateNotification(e)

Update(r, e) ==
    \/ UpdateProject(r, e) \/ UpdateTask(r, e) \/ UpdateNote(r, e)
    \/ UpdateList(r, e) \/ UpdateMemory(r, e) \/ MarkRead(r, e) \/ Dismiss(r, e)

Next ==
    \/ \E e \in Entity : Insertion(e)
    \/ \E r \in Request, e \in Entity : Update(r, e) \/ LockList(r, e)
    \/ \E r \in Request, i \in Item : FindParent(r, i) \/ CreateItem(r, i)
    \/ \E r \in Request : UpdateItem(r) \/ Commit(r) \/ Abandon(r)

Spec == Init /\ [][Next]_vars

-----------------------------------------------------------------------------
(* The timeline and the timestamps never disagree with the row: whatever   *)
(* updates overtook one another, the last status-bearing activity of a     *)
(* task, note, list, item or memory says the status the row has, and a     *)
(* completion, archive or forgetting date is there exactly when closed.    *)
ToldAsItIs ==
    \A x \in Record :
        row[x].kind \in {"task", "note", "list", "item", "memory"} =>
            /\ told[x] = row[x].status
            /\ ("closed" \in row[x].stamps) <=> (row[x].status = "closed")

(* Closing is irreversible where the code promises it.  A forgotten memory *)
(* changes in nothing; a note, list or item stays closed however stale the *)
(* update that is written after; an archived list gets no new item; and a  *)
(* dismissed notification comes back only by a mark_read that had read it  *)
(* before the dismissal (notifications/service.py has no lock there), with *)
(* the dismissal still dated.                                              *)
ClosedIsClosed ==
    [][\A x \in Record : row[x].status = "closed" =>
          /\ row[x].kind = "memory" => row'[x] = row[x]
          /\ row[x].kind \in {"note", "list", "item"} => row'[x].status = "closed"
          /\ \A i \in Item : row'[i].of = x => row[i].of = x
          /\ row[x].kind = "notification" /\ row'[x].status # "closed" =>
                /\ row'[x].status = "read"
                /\ "closed" \in row'[x].stamps
                /\ \E r \in Request : req[r].on = x /\ req[r].saw.status = "open"]_vars

(* Items of a list hold the positions 0, 1, 2, ... with none used twice,   *)
(* so the order of a list is the order its items were added in, and the    *)
(* unique constraint on (list_id, position) never refuses an item.         *)
ItemsInOrder ==
    \A l \in Entity :
        /\ {row[i].pos : i \in Added(l)} = 0..(Cardinality(Added(l)) - 1)
        /\ \A i, j \in Added(l) : i # j => row[i].pos # row[j].pos
=============================================================================
