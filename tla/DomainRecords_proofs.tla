------------------------ MODULE DomainRecords_proofs ------------------------
(***************************************************************************)
(* Theorems about DomainRecords for any number of requests, records, items *)
(* and texts.  The inductive invariant says what a request may rely on     *)
(* between its read and its commit: the kind of the row, what it asked     *)
(* for, and, where the code locks the row, that the row is still the one   *)
(* it read.                                                                *)
(***************************************************************************)
EXTENDS DomainRecords, FiniteSetTheorems, TLAPS

Closable == {"note", "list", "item", "memory"}
Recounted == {"task", "note", "list", "item", "memory"}

(* What a request that is about to write holds.                            *)
Updating(s) ==
    /\ s.on \in Record /\ row[s.on].kind # None
    /\ row[s.on].kind \in Closable => s.ask.status \in {None, "closed"}
    /\ row[s.on].kind # "notification" => s.ask.status # "read"
    /\ row[s.on].kind = "notification" =>
          /\ s.ask.status \in {"read", "closed"}
          /\ s.ask.status = "read" => s.saw.status = "open"
    /\ row[s.on].kind = "memory" => row[s.on].status # "closed"

Adding(s) ==
    /\ s.on \in Entity /\ row[s.on].kind = "list" /\ row[s.on].status # "closed"
    /\ s.pos = Cardinality(Added(s.on))

Visiting(s) ==
    s.on \in Item /\ row[s.on].kind = "item" /\ s.ask.status \in {None, "closed"}

Fit(s) ==
    /\ s.pc = "update" => Updating(s)
    /\ s.pc = "parent" => Visiting(s)
    /\ s.pc = "add" => Adding(s)

Fits == \A r \in Request : Fit(req[r])

(* The dates of a dismissed notification.                                  *)
Dated == \A x \in Record :
    row[x].kind = "notification" /\ row[x].status = "closed" => "closed" \in row[x].stamps

(* A locked row has one holder.                                            *)
Exclusive ==
    \A r, q \in Request : Locks(r) /\ Locks(q) /\ req[r].on = req[q].on => r = q

Inv == TypeOK /\ Fits /\ Dated /\ Exclusive /\ ItemsInOrder /\ ToldAsItIs

-----------------------------------------------------------------------------
(* The records the actions build have their types.                         *)

(* No row at all is a row of the model.                                    *)
LEMMA MissingTyped == Missing \in Row
BY NoneAssumption DEF Missing, Row, Kind, Status

(* An idle request is a request state.                                     *)
LEMMA QuietTyped == Quiet \in RequestState
BY DEF Quiet, RequestState, Ask, Seen, Status

(* The fields of a row, one by one.                                        *)
LEMMA RowTyped ==
    ASSUME TypeOK, NEW x \in Record
    PROVE  /\ row[x] \in Row
           /\ row[x].kind \in Kind \cup {None} /\ row[x].status \in Status \cup {"absent"}
           /\ row[x].text \in Text \cup {None} /\ row[x].stamps \in SUBSET {"read", "closed"}
           /\ row[x].of \in Entity \cup {None} /\ row[x].pos \in Nat
BY DEF TypeOK, Row

(* The fields of a request, one by one.                                    *)
LEMMA RequestTyped ==
    ASSUME TypeOK, NEW r \in Request
    PROVE  /\ req[r] \in RequestState
           /\ req[r].pc \in {"idle", "parent", "update", "add"}
           /\ req[r].on \in Record \cup {None}
           /\ req[r].ask \in Ask /\ req[r].saw \in Seen /\ req[r].pos \in Nat
           /\ req[r].ask.status \in Status \cup {None} /\ req[r].ask.text \in Text \cup {None}
BY DEF TypeOK, RequestState, Ask

(* What a request holds after its read.                                    *)
LEMMA ReadTyped ==
    ASSUME TypeOK, NEW r \in Request, NEW x \in Record, NEW ask \in Ask
    PROVE  /\ Read(r, x, ask) \in RequestState
           /\ Read(r, x, ask).pc = "update" /\ Read(r, x, ask).on = x
           /\ Read(r, x, ask).ask = ask /\ Read(r, x, ask).saw.status = row[x].status
BY RowTyped DEF Read, Quiet, RequestState, Ask, Seen, Record

(* Every kind's changes are changes.                                       *)
LEMMA AsksTyped ==
    /\ ProjectChange \subseteq Ask /\ TaskChange \subseteq Ask /\ NoteChange \subseteq Ask
    /\ ListChange \subseteq Ask /\ ItemChange \subseteq Ask /\ MemoryChange \subseteq Ask
    /\ NotificationChange \subseteq Ask
BY DEF ProjectChange, TaskChange, NoteChange, ListChange, ItemChange, MemoryChange,
       NotificationChange, Ask, Status

-----------------------------------------------------------------------------
(* Items of a list: the next position is the number of its items.          *)

(* A list has finitely many items.                                         *)
LEMMA AddedFinite ==
    ASSUME NEW l
    PROVE  IsFiniteSet(Added(l)) /\ Cardinality(Added(l)) \in Nat
BY RecordsAssumption, FS_Subset, FS_CardinalityType DEF Added

(* The greatest of 0..n.                                                   *)
LEMMA MaxOfInterval ==
    ASSUME NEW n \in Nat
    PROVE  Max(0..n) = n
<1>1. n \in 0..n /\ \A y \in 0..n : n >= y
  OBVIOUS
<1>2. \A m \in 0..n : (\A y \in 0..n : m >= y) => m = n
  BY <1>1
<1> QED BY <1>1, <1>2 DEF Max

(* create_item's max(position) + 1 is the number of items added so far.    *)
LEMMA NextIsCount ==
    ASSUME ItemsInOrder, NEW l \in Entity
    PROVE  NextPosition(l) = Cardinality(Added(l))
<1> DEFINE n == Cardinality(Added(l))
<1>1. n \in Nat /\ (n = 0 <=> Added(l) = {})
  BY AddedFinite, FS_EmptySet
<1>2. {row[i].pos : i \in Added(l)} = 0..(n - 1)
  BY DEF ItemsInOrder
<1>3. CASE Added(l) = {}
  BY <1>1, <1>3 DEF NextPosition
<1>4. CASE Added(l) # {}
  <2>1. n - 1 \in Nat
    BY <1>1, <1>4
  <2>2. Max({row[i].pos : i \in Added(l)}) = n - 1
    BY <1>2, <2>1, MaxOfInterval
  <2> QED BY <1>1, <1>4, <2>2 DEF NextPosition
<1> QED BY <1>3, <1>4

-----------------------------------------------------------------------------
(* Steps that leave the rows alone: reads, refusals and dropped requests.  *)

(* A request that takes a fitting state, and no lock another holds, keeps  *)
(* the invariant.                                                          *)
LEMMA RequestMoves ==
    ASSUME Inv, NEW r \in Request, NEW s \in RequestState, Fit(s),
           s.pc = "add" \/ (s.pc = "update" /\ row[s.on].kind = "memory") => ~Locked(s.on),
           req' = [req EXCEPT ![r] = s], UNCHANGED <<row, told>>
    PROVE  Inv'
<1>1. \A q \in Request : req'[q] = IF q = r THEN s ELSE req[q]
  BY DEF Inv, TypeOK
<1>2. TypeOK'
  BY <1>1 DEF Inv, TypeOK
<1>3. \A l : Added(l)' = Added(l)
  BY DEF Added
<1>4. Fits'
  <2> SUFFICES ASSUME NEW q \in Request PROVE Fit(req[q])'
    BY DEF Fits
  <2>1. Fit(IF q = r THEN s ELSE req[q])
    BY DEF Inv, Fits
  <2> QED BY <2>1, <1>1, <1>3 DEF Fit, Updating, Adding, Visiting
<1>5. Exclusive'
  <2> SUFFICES ASSUME NEW p \in Request, NEW q \in Request, Locks(p)', Locks(q)',
                      req'[p].on = req'[q].on, p # q
               PROVE  FALSE
    BY DEF Exclusive
  <2>1. CASE p # r /\ q # r
    BY <2>1, <1>1 DEF Inv, Exclusive, Locks, At, Exists
  <2>2. CASE p = r
    BY <2>2, <1>1 DEF Locked, Locks, At, Exists
  <2>3. CASE q = r
    BY <2>3, <1>1 DEF Locked, Locks, At, Exists
  <2> QED BY <2>1, <2>2, <2>3
<1>6. Dated' /\ ItemsInOrder' /\ ToldAsItIs'
  BY <1>3 DEF Inv, Dated, ItemsInOrder, ToldAsItIs
<1> QED BY <1>2, <1>4, <1>5, <1>6 DEF Inv

(* A request may always end.                                               *)
LEMMA RequestEnds ==
    ASSUME Inv, NEW r \in Request, End(r), UNCHANGED <<row, told>>
    PROVE  Inv'
<1>1. Quiet.pc = "idle"
  BY DEF Quiet
<1>2. Fit(Quiet)
  BY <1>1 DEF Fit
<1> QED BY <1>1, <1>2, QuietTyped, RequestMoves DEF End

(* A request that has read a row may write it.                             *)
LEMMA RequestReads ==
    ASSUME Inv, NEW r \in Request, NEW x \in Record, NEW ask \in Ask,
           Updating(Read(r, x, ask)), row[x].kind = "memory" => ~Locked(x),
           req' = [req EXCEPT ![r] = Read(r, x, ask)], UNCHANGED <<row, told>>
    PROVE  Inv'
<1> DEFINE s == Read(r, x, ask)
<1>1. s \in RequestState /\ s.pc = "update" /\ s.on = x
  BY ReadTyped DEF Inv
<1>2. Fit(s)
  BY <1>1 DEF Fit
<1> HIDE DEF s
<1>3. req' = [req EXCEPT ![r] = s]
  BY DEF s
<1> QED BY <1>1, <1>2, <1>3, RequestMoves

-----------------------------------------------------------------------------
(* Each read leaves a request that fits.                                   *)

(* The updates of one record.                                              *)
LEMMA UpdateKeeps ==
    ASSUME Inv, NEW r \in Request, NEW e \in Entity, Update(r, e)
    PROVE  Inv'
<1>0. e \in Record /\ TypeOK
  BY DEF Record, Inv
<1>1. CASE UpdateProject(r, e)
  <2>1. PICK ask \in ProjectChange : Start(r, Read(r, e, ask))
    BY <1>1 DEF UpdateProject
  <2>2. ask \in Ask /\ ask.status # "read"
    BY AsksTyped, NoneAssumption DEF ProjectChange, Status
  <2>3. Updating(Read(r, e, ask))
    BY <1>0, <1>1, <2>2, ReadTyped, NoneAssumption DEF UpdateProject, Updating, Exists, Closable, Kind
  <2> QED BY <1>0, <1>1, <2>1, <2>2, <2>3, RequestReads DEF UpdateProject, Start, Exists
<1>2. CASE UpdateTask(r, e)
  <2>1. PICK ask \in TaskChange : Start(r, Read(r, e, ask))
    BY <1>2 DEF UpdateTask
  <2>2. ask \in Ask /\ ask.status # "read"
    BY AsksTyped, NoneAssumption DEF TaskChange, Status
  <2>3. Updating(Read(r, e, ask))
    BY <1>0, <1>2, <2>2, ReadTyped, NoneAssumption DEF UpdateTask, Updating, Exists, Closable, Kind
  <2> QED BY <1>0, <1>2, <2>1, <2>2, <2>3, RequestReads DEF UpdateTask, Start, Exists
<1>3. CASE UpdateNote(r, e)
  <2>1. PICK ask \in NoteChange : Start(r, Read(r, e, ask))
    BY <1>3 DEF UpdateNote
  <2>2. ask \in Ask /\ ask.status \in {None, "closed"} /\ ask.status # "read"
    BY AsksTyped, NoneAssumption DEF NoteChange, Status
  <2>3. Updating(Read(r, e, ask))
    BY <1>0, <1>3, <2>2, ReadTyped, NoneAssumption DEF UpdateNote, Updating, Exists, Closable, Kind
  <2> QED BY <1>0, <1>3, <2>1, <2>2, <2>3, RequestReads DEF UpdateNote, Start, Exists
<1>4. CASE UpdateList(r, e)
  <2>1. PICK ask \in ListChange : Start(r, Read(r, e, ask))
    BY <1>4 DEF UpdateList
  <2>2. ask \in Ask /\ ask.status \in {None, "closed"} /\ ask.status # "read"
    BY AsksTyped, NoneAssumption DEF ListChange, Status
  <2>3. Updating(Read(r, e, ask))
    BY <1>0, <1>4, <2>2, ReadTyped, NoneAssumption DEF UpdateList, Updating, Exists, Closable, Kind
  <2> QED BY <1>0, <1>4, <2>1, <2>2, <2>3, RequestReads DEF UpdateList, Start, Exists
<1>5. CASE UpdateMemory(r, e)
  <2>1. PICK ask \in MemoryChange : Start(r, Read(r, e, ask))
    BY <1>5 DEF UpdateMemory
  <2>2. ask \in Ask /\ ask.status \in {None, "closed"} /\ ask.status # "read"
    BY AsksTyped, NoneAssumption DEF MemoryChange, Status
  <2>3. Updating(Read(r, e, ask))
    BY <1>0, <1>5, <2>2, ReadTyped, NoneAssumption DEF UpdateMemory, Updating, Exists, Closable, Kind
  <2> QED BY <1>0, <1>5, <2>1, <2>2, <2>3, RequestReads DEF UpdateMemory, Start, Exists
<1>6. CASE MarkRead(r, e)
  <2> DEFINE ask == [status |-> "read", text |-> None]
  <2>2. ask \in Ask /\ ask.status = "read"
    BY DEF Ask, Status
  <2>1. Start(r, Read(r, e, ask))
    BY <1>6 DEF MarkRead
  <2> HIDE DEF ask
  <2>3. Updating(Read(r, e, ask))
    BY <1>0, <1>6, <2>2, ReadTyped, NoneAssumption DEF MarkRead, Updating, Exists, Closable, Kind
  <2> QED BY <1>0, <1>6, <2>1, <2>2, <2>3, RequestReads DEF MarkRead, Start, Exists
<1>7. CASE Dismiss(r, e)
  <2> DEFINE ask == [status |-> "closed", text |-> None]
  <2>2. ask \in Ask /\ ask.status = "closed"
    BY DEF Ask, Status
  <2>1. Start(r, Read(r, e, ask))
    BY <1>7 DEF Dismiss
  <2> HIDE DEF ask
  <2>3. Updating(Read(r, e, ask))
    BY <1>0, <1>7, <2>2, ReadTyped, NoneAssumption DEF Dismiss, Updating, Exists, Closable, Kind
  <2> QED BY <1>0, <1>7, <2>1, <2>2, <2>3, RequestReads DEF Dismiss, Start, Exists
<1> QED BY <1>1, <1>2, <1>3, <1>4, <1>5, <1>6, <1>7 DEF Update

(* The two reads of an item's update.                                      *)
LEMMA ItemReadKeeps ==
    ASSUME Inv, NEW r \in Request,
           UpdateItem(r) \/ \E i \in Item : FindParent(r, i)
    PROVE  Inv'
<1>1. CASE UpdateItem(r) /\ row[req[r].on].status = "closed"
  BY <1>1, RequestEnds DEF UpdateItem
<1>2. CASE UpdateItem(r) /\ row[req[r].on].status # "closed"
  <2> DEFINE x == req[r].on
             ask == req[r].ask
  <2>1. Visiting(req[r])
    BY <1>2 DEF UpdateItem, At, Inv, Fits, Fit
  <2>2. x \in Record /\ ask \in Ask /\ ask.status \in {None, "closed"} /\ ask.status # "read"
    BY <2>1, RequestTyped, NoneAssumption DEF Visiting, Record, Inv, Status
  <2>3. Updating(Read(r, x, ask))
    BY <2>1, <2>2, ReadTyped, NoneAssumption DEF Inv, Visiting, Updating, Closable, Kind
  <2>4. req' = [req EXCEPT ![r] = Read(r, x, ask)] /\ UNCHANGED <<row, told>>
    BY <1>2 DEF UpdateItem
  <2>5. row[x].kind # "memory"
    BY <2>1 DEF Visiting
  <2> HIDE DEF x, ask
  <2> QED BY <2>2, <2>3, <2>4, <2>5, RequestReads
<1>3. CASE \E i \in Item : FindParent(r, i)
  <2>1. PICK i \in Item : FindParent(r, i)
    BY <1>3
  <2>2. PICK ask \in ItemChange :
            req' = [req EXCEPT ![r] = [Quiet EXCEPT !.pc = "parent", !.on = i, !.ask = ask]]
    BY <2>1 DEF FindParent, Start
  <2> DEFINE s == [Quiet EXCEPT !.pc = "parent", !.on = i, !.ask = ask]
  <2>3. ask \in Ask /\ ask.status \in {None, "closed"}
    BY AsksTyped DEF ItemChange
  <2>4. s.pc = "parent" /\ s.on = i /\ s.ask = ask /\ s \in RequestState
    BY <2>3, QuietTyped DEF RequestState, Record, Quiet
  <2>5. req' = [req EXCEPT ![r] = s] /\ UNCHANGED <<row, told>>
    BY <2>1, <2>2 DEF FindParent
  <2> HIDE DEF s
  <2>6. Fit(s)
    BY <2>1, <2>3, <2>4 DEF Fit, Visiting, FindParent, Exists
  <2> QED BY <2>4, <2>5, <2>6, RequestMoves
<1> QED BY <1>1, <1>2, <1>3

(* Locking the list an item is added to.                                   *)
LEMMA LockKeeps ==
    ASSUME Inv, NEW r \in Request, NEW l \in Entity, LockList(r, l)
    PROVE  Inv'
<1> DEFINE s == [Quiet EXCEPT !.pc = "add", !.on = l, !.pos = NextPosition(l)]
<1>1. NextPosition(l) = Cardinality(Added(l)) /\ NextPosition(l) \in Nat
  BY NextIsCount, AddedFinite DEF Inv
<1>2. s.pc = "add" /\ s.on = l /\ s.pos = Cardinality(Added(l)) /\ s \in RequestState
  BY <1>1, QuietTyped DEF RequestState, Record, Quiet
<1>3. req' = [req EXCEPT ![r] = s] /\ UNCHANGED <<row, told>> /\ ~Locked(l)
  BY DEF LockList, Start
<1> HIDE DEF s
<1>4. Fit(s)
  BY <1>2 DEF Fit, Adding, LockList, Exists
<1> QED BY <1>2, <1>3, <1>4, RequestMoves

-----------------------------------------------------------------------------
(* Steps that write a row.                                                 *)

(* What an insert or an update of a row leaves of the items of a list.     *)
LEMMA SameItems ==
    ASSUME Inv, NEW x \in Record, NEW n \in Row, n.of = row[x].of, n.pos = row[x].pos,
           row' = [row EXCEPT ![x] = n]
    PROVE  ItemsInOrder' /\ \A l : Added(l)' = Added(l)
<1>1. \A i \in Item : row'[i].of = row[i].of /\ row'[i].pos = row[i].pos
  BY DEF Inv, TypeOK, Record
<1>2. \A l : Added(l)' = Added(l)
  BY <1>1 DEF Added
<1>3. ASSUME NEW l \in Entity
      PROVE  /\ {row'[i].pos : i \in Added(l)'} = 0..(Cardinality(Added(l)') - 1)
             /\ \A i, j \in Added(l)' : i # j => row'[i].pos # row'[j].pos
  <2>1. Added(l)' = Added(l)
    BY <1>2
  <2>2. \A i \in Added(l) : row'[i].pos = row[i].pos
    BY <1>1 DEF Added
  <2>3. {row'[i].pos : i \in Added(l)} = {row[i].pos : i \in Added(l)}
    BY <2>2
  <2>4. /\ {row[i].pos : i \in Added(l)} = 0..(Cardinality(Added(l)) - 1)
        /\ \A i, j \in Added(l) : i # j => row[i].pos # row[j].pos
    BY DEF Inv, ItemsInOrder
  <2> QED BY <2>1, <2>2, <2>3, <2>4
<1> QED BY <1>2, <1>3 DEF ItemsInOrder

(* The first row of an entity, and what is told of it.                     *)
LEMMA InsertKeeps ==
    ASSUME Inv, NEW e \in Entity,
           NEW n \in Row, n.kind \in Kind \ {"item"}, n.of = None, n.pos = 0,
           n.kind = "notification" => n.status = "open",
           NEW said \in {"nothing", "open", "closed"},
           n.kind \in Recounted =>
               said = n.status /\ (("closed" \in n.stamps) <=> (n.status = "closed")),
           row[e] = Missing, row' = [row EXCEPT ![e] = n],
           told' = [told EXCEPT ![e] = said], UNCHANGED req
    PROVE  Inv'
<1>1. e \in Record /\ \A x \in Record : row'[x] = IF x = e THEN n ELSE row[x]
  BY DEF Inv, TypeOK, Record
<1>2. row[e].kind = None /\ row[e].of = None /\ row[e].pos = 0
  BY DEF Missing
<1>3. TypeOK'
  BY <1>1 DEF Inv, TypeOK
<1>4. ItemsInOrder' /\ \A l : Added(l)' = Added(l)
  BY <1>1, <1>2, SameItems
<1>5. ASSUME NEW r \in Request
      PROVE  /\ Fit(req[r])'
             /\ Locks(r)' <=> Locks(r)
  <2>1. Fit(req[r])
    BY DEF Inv, Fits
  <2>2. req[r].pc \in {"update", "parent", "add"} => req[r].on \in Record /\ req[r].on # e
    BY <2>1, <1>2, NoneAssumption DEF Fit, Updating, Visiting, Adding, Record, Kind
  <2>3. req[r].pc \in {"update", "parent", "add"} => row'[req[r].on] = row[req[r].on]
    BY <2>2, <1>1
  <2> QED BY <2>1, <2>3, <1>4 DEF Fit, Updating, Visiting, Adding, Locks, At, Exists
<1>6. Fits' /\ Exclusive'
  BY <1>5 DEF Inv, Fits, Exclusive
<1>7. Dated'
  BY <1>1 DEF Inv, Dated
<1>8. ToldAsItIs'
  <2>1. \A x \in Record : told'[x] = IF x = e THEN said ELSE told[x]
    BY DEF Inv, TypeOK
  <2> QED BY <1>1, <2>1 DEF Inv, ToldAsItIs, Recounted
<1> QED BY <1>3, <1>4, <1>6, <1>7, <1>8 DEF Inv

(* What the row and the request at a commit are, before it.                *)
LEMMA AtCommit ==
    ASSUME Inv, NEW r \in Request, Commit(r)
    PROVE  /\ req[r].on \in Record
           /\ Updating(req[r])
           /\ ~Waits(r, req[r].on)
           /\ row' = [row EXCEPT ![req[r].on] = Written(r, req[r].on)]
           /\ told' = [told EXCEPT ![req[r].on] = Tells(r, req[r].on)]
           /\ req' = [req EXCEPT ![r] = Quiet]
<1>1. Updating(req[r])
  BY DEF Commit, At, Inv, Fits, Fit
<1> QED BY <1>1 DEF Commit, End, Updating

(* What a commit writes.                                                   *)
LEMMA WrittenRow ==
    ASSUME Inv, NEW r \in Request, Updating(req[r])
    PROVE  LET x == req[r].on  n == Written(r, x)  new == "status" \in Changes(r) IN
           /\ n \in Row
           /\ n.kind = row[x].kind /\ n.of = row[x].of /\ n.pos = row[x].pos
           /\ n.status = IF new THEN req[r].ask.status ELSE row[x].status
           /\ n.stamps = IF new THEN Stamped(x, req[r].ask.status) ELSE row[x].stamps
           /\ new => req[r].ask.status \in Status
           /\ Changes(r) = {} => n = row[x]
<1> DEFINE x == req[r].on
           new == "status" \in Changes(r)
<1>1. x \in Record
  BY DEF Updating
<1>2. /\ row[x] \in Row /\ row[x].kind \in Kind \cup {None}
      /\ req[r].ask.status \in Status \cup {None} /\ req[r].ask.text \in Text \cup {None}
  BY <1>1, RowTyped, RequestTyped DEF Inv
<1>3. new => req[r].ask.status \in Status
  BY <1>2 DEF Changes
<1>4. new => Stamped(x, req[r].ask.status) \in SUBSET {"read", "closed"}
  BY <1>1, <1>2, <1>3, RowTyped DEF Stamped, Updating, Inv
<1>5. Written(r, x) = [row[x] EXCEPT
          !.text = IF "text" \in Changes(r) THEN req[r].ask.text ELSE row[x].text,
          !.status = IF new THEN req[r].ask.status ELSE row[x].status,
          !.stamps = IF new THEN Stamped(x, req[r].ask.status) ELSE row[x].stamps]
  BY <1>2 DEF Written, Row
<1>6. /\ Written(r, x) \in Row
      /\ Written(r, x).kind = row[x].kind /\ Written(r, x).of = row[x].of
      /\ Written(r, x).pos = row[x].pos
      /\ Written(r, x).status = IF new THEN req[r].ask.status ELSE row[x].status
      /\ Written(r, x).stamps = IF new THEN Stamped(x, req[r].ask.status) ELSE row[x].stamps
  BY <1>2, <1>3, <1>4, <1>5 DEF Row
<1>7. Changes(r) = {} => Written(r, x) = row[x]
  BY <1>2, <1>5 DEF Row
<1> QED BY <1>3, <1>6, <1>7

(* A commit: the kind of the row stays, and a stale request cannot reopen  *)
(* what is closed or close what another request has locked.                *)
LEMMA CommitKeeps ==
    ASSUME Inv, NEW r \in Request, Commit(r)
    PROVE  Inv'
<1> DEFINE x == req[r].on
           n == Written(r, x)
           new == "status" \in Changes(r)
           said == Tells(r, x)
<1>1. /\ x \in Record /\ Updating(req[r]) /\ ~Waits(r, x)
      /\ row' = [row EXCEPT ![x] = n] /\ told' = [told EXCEPT ![x] = said]
      /\ req' = [req EXCEPT ![r] = Quiet]
  BY AtCommit
<1>2. /\ n \in Row
      /\ n.kind = row[x].kind /\ n.of = row[x].of /\ n.pos = row[x].pos
      /\ n.status = IF new THEN req[r].ask.status ELSE row[x].status
      /\ n.stamps = IF new THEN Stamped(x, req[r].ask.status) ELSE row[x].stamps
      /\ new => req[r].ask.status \in Status
      /\ Changes(r) = {} => n = row[x]
  BY <1>1, WrittenRow
<1>3. said = IF new /\ row[x].kind \notin {"project", "notification"}
             THEN req[r].ask.status ELSE told[x]
  BY DEF Tells
<1>4. At(r, "update")
  BY DEF Commit
<1> HIDE DEF n, new, said
<1>5. \A y \in Record : row'[y] = IF y = x THEN n ELSE row[y]
  BY <1>1 DEF Inv, TypeOK
<1>6. \A q \in Request : req'[q] = IF q = r THEN Quiet ELSE req[q]
  BY <1>1 DEF Inv, TypeOK
<1>7. \A y \in Record : told'[y] = IF y = x THEN said ELSE told[y]
  BY <1>1 DEF Inv, TypeOK
<1>8. TypeOK'
  <2>1. said \in {"nothing", "open", "closed"}
    BY <1>1, <1>2, <1>3 DEF Inv, TypeOK, Updating, Status
  <2> QED BY <1>1, <1>2, <2>1, QuietTyped DEF Inv, TypeOK
<1>9. ItemsInOrder' /\ \A l : Added(l)' = Added(l)
  BY <1>1, <1>2, SameItems
<1>10. \A y \in Record : row'[y].kind = row[y].kind
  BY <1>2, <1>5
<1>11. Fits'
  <2> SUFFICES ASSUME NEW q \in Request PROVE Fit(req[q])'
    BY DEF Fits
  <2>1. CASE q = r
    BY <2>1, <1>6 DEF Fit, Quiet
  <2>2. CASE q # r /\ req[q].pc = "update"
    <3>1. Updating(req[q]) /\ req'[q] = req[q]
      BY <2>2, <1>6 DEF Inv, Fits, Fit
    <3>2. ASSUME row[req[q].on].kind = "memory"
          PROVE  row'[req[q].on].status # "closed"
      <4>1. Locks(q) /\ req[q].on = x => q = r
        BY <3>2, <1>4 DEF Inv, Exclusive, Locks, At, Exists
      <4>2. req[q].on # x
        BY <4>1, <2>2, <3>2 DEF Locks, At, Exists
      <4> QED BY <3>1, <3>2, <4>2, <1>5 DEF Updating
    <3>3. req[q].on \in Record /\ row'[req[q].on].kind = row[req[q].on].kind
      BY <3>1, <1>10 DEF Updating
    <3> QED BY <2>2, <3>1, <3>2, <3>3 DEF Fit, Updating
  <2>3. CASE q # r /\ req[q].pc = "add"
    <3>1. Adding(req[q]) /\ req'[q] = req[q]
      BY <2>3, <1>6 DEF Inv, Fits, Fit
    <3>2. req[q].on \in Record
      BY <3>1 DEF Adding, Record
    <3>3. row'[req[q].on].status # "closed"
      <4>1. CASE req[q].on # x
        BY <4>1, <3>1, <3>2, <1>5 DEF Adding
      <4>2. CASE req[q].on = x
        <5>1. Changes(r) = {}
          BY <4>2, <2>3, <1>1 DEF Waits, Locks, At
        <5> QED BY <5>1, <4>2, <3>1, <3>2, <1>2, <1>5 DEF Adding
      <4> QED BY <4>1, <4>2
    <3>4. row'[req[q].on].kind = "list"
      BY <3>1, <3>2, <1>10 DEF Adding
    <3> QED BY <2>3, <3>1, <3>3, <3>4, <1>9 DEF Fit, Adding
  <2>4. CASE q # r /\ req[q].pc \notin {"update", "add"}
    <3>1. Fit(req[q]) /\ req'[q] = req[q]
      BY <2>4, <1>6 DEF Inv, Fits
    <3>2. req[q].pc = "parent" => req[q].on \in Record
      BY <3>1 DEF Fit, Visiting, Record
    <3> QED BY <2>4, <3>1, <3>2, <1>10 DEF Fit, Visiting
  <2> QED BY <2>1, <2>2, <2>3, <2>4
<1>12. Exclusive'
  <2>1. ASSUME NEW q \in Request, Locks(q)'
        PROVE  Locks(q) /\ req'[q] = req[q]
    <3>1. q # r
      BY <2>1, <1>6 DEF Locks, At, Quiet
    <3>2. req[q].pc = "update" => req[q].on \in Record
      BY DEF Inv, Fits, Fit, Updating
    <3> QED BY <2>1, <3>1, <3>2, <1>6, <1>10 DEF Locks, At, Exists
  <2> QED BY <2>1 DEF Inv, Exclusive
<1>13. Dated'
  <2> SUFFICES row[x].kind = "notification" /\ n.status = "closed" => "closed" \in n.stamps
    BY <1>1, <1>2, <1>5 DEF Inv, Dated
  <2> QED BY <1>1, <1>2 DEF Inv, Dated, Stamped
<1>14. ToldAsItIs'
  <2> SUFFICES row[x].kind \in Recounted =>
                   said = n.status /\ (("closed" \in n.stamps) <=> (n.status = "closed"))
    BY <1>1, <1>2, <1>5, <1>7 DEF Inv, ToldAsItIs, Recounted
  <2>1. CASE new
    BY <2>1, <1>2, <1>3 DEF Recounted, Stamped
  <2>2. CASE ~new
    BY <2>2, <1>1, <1>2, <1>3 DEF Recounted, Inv, ToldAsItIs
  <2> QED BY <2>1, <2>2
<1> QED BY <1>8, <1>9, <1>11, <1>12, <1>13, <1>14 DEF Inv

(* An item takes the position after the last one of its list, which the    *)
(* lock has kept the last.                                                 *)
LEMMA CreateItemKeeps ==
    ASSUME Inv, NEW r \in Request, NEW i \in Item, CreateItem(r, i)
    PROVE  Inv'
<1>0. PICK l : l = req[r].on
  OBVIOUS
<1>a. PICK c : c = Cardinality(Added(l))
  OBVIOUS
<1>1. PICK text \in Text :
          row' = [row EXCEPT ![i] = [Missing EXCEPT !.kind = "item", !.status = "open",
                     !.text = text, !.of = req[r].on, !.pos = req[r].pos]]
  BY DEF CreateItem
<1> DEFINE n == [Missing EXCEPT !.kind = "item", !.status = "open",
                     !.text = text, !.of = req[r].on, !.pos = req[r].pos]
<1>2. Adding(req[r]) /\ At(r, "add")
  BY DEF CreateItem, At, Inv, Fits, Fit
<1>3. l \in Entity /\ req[r].pos = c /\ c \in Nat
  BY <1>0, <1>a, <1>2, AddedFinite DEF Adding
<1>4. n.kind = "item" /\ n.of = l /\ n.pos = c /\ n.status = "open" /\ n.stamps = {}
      /\ n \in Row
  BY <1>0, <1>3 DEF Missing, Row, Kind, Status
<1> HIDE DEF n
<1>5. i \in Record /\ \A y \in Record : row'[y] = IF y = i THEN n ELSE row[y]
  BY <1>1 DEF n, Inv, TypeOK, Record
<1>6. row[i].kind = None /\ row[i].of = None
  BY DEF CreateItem, Missing
<1>7. \A q \in Request : req'[q] = IF q = r THEN Quiet ELSE req[q]
  BY DEF CreateItem, End, Inv, TypeOK
<1>8. \A y \in Record : told'[y] = IF y = i THEN "open" ELSE told[y]
  BY DEF CreateItem, Inv, TypeOK
<1>9. TypeOK'
  BY <1>4, <1>5, <1>1, QuietTyped DEF n, CreateItem, End, Inv, TypeOK
<1>10. Added(l)' = Added(l) \cup {i} /\ i \notin Added(l)
       /\ \A k \in Entity \ {l} : Added(k)' = Added(k) /\ i \notin Added(k)
  <2>1. \A j \in Item : row'[j].of = IF j = i THEN l ELSE row[j].of
    BY <1>4, <1>5 DEF Record
  <2>2. \A k \in Entity : i \notin Added(k)
    BY <1>6, RecordsAssumption DEF Added
  <2> QED BY <2>1, <2>2, <1>3 DEF Added
<1>11. Cardinality(Added(l)') = c + 1
  BY <1>10, AddedFinite, FS_AddElement, <1>a
<1>12. Fits'
  <2> SUFFICES ASSUME NEW q \in Request PROVE Fit(req[q])'
    BY DEF Fits
  <2>1. CASE q = r
    BY <2>1, <1>7 DEF Fit, Quiet
  <2>2. CASE q # r
    <3>1. Fit(req[q]) /\ req'[q] = req[q]
      BY <2>2, <1>7 DEF Inv, Fits
    <3>2. req[q].pc \in {"update", "parent", "add"} => req[q].on \in Record /\ req[q].on # i
      BY <3>1, <1>6, NoneAssumption DEF Fit, Updating, Visiting, Adding, Record, Kind
    <3>3. req[q].pc \in {"update", "parent", "add"} => row'[req[q].on] = row[req[q].on]
      BY <3>2, <1>5
    <3>4. req[q].pc = "add" => req[q].on \in Entity \ {l}
      BY <3>1, <2>2, <1>0, <1>2 DEF Fit, Adding, Inv, Exclusive, Locks, At
    <3>5. req[q].pc = "add" => Added(req[q].on)' = Added(req[q].on)
      BY <3>1, <3>4, <1>10
    <3> QED BY <3>1, <3>3, <3>5 DEF Fit, Updating, Visiting, Adding
  <2> QED BY <2>1, <2>2
<1>13. Exclusive'
  <2>1. ASSUME NEW q \in Request, Locks(q)'
        PROVE  Locks(q) /\ req'[q] = req[q]
    <3>1. q # r
      BY <2>1, <1>7 DEF Locks, At, Quiet
    <3>2. req[q].pc = "update" => req[q].on \in Record /\ req[q].on # i
      BY <1>6, NoneAssumption DEF Inv, Fits, Fit, Updating
    <3> QED BY <2>1, <3>1, <3>2, <1>5, <1>7 DEF Locks, At, Exists
  <2> QED BY <2>1 DEF Inv, Exclusive
<1>14. Dated'
  BY <1>4, <1>5 DEF Inv, Dated
<1>15. ToldAsItIs'
  BY <1>4, <1>5, <1>8 DEF Inv, ToldAsItIs
<1>16. ItemsInOrder'
  <2>1. ASSUME NEW k \in Entity, k # l
        PROVE  /\ {row'[j].pos : j \in Added(k)'} = 0..(Cardinality(Added(k)') - 1)
               /\ \A j, m \in Added(k)' : j # m => row'[j].pos # row'[m].pos
    <3>1. Added(k)' = Added(k) /\ \A j \in Added(k) : row'[j].pos = row[j].pos
      BY <2>1, <1>5, <1>10 DEF Added, Record
    <3>2. {row'[j].pos : j \in Added(k)} = {row[j].pos : j \in Added(k)}
      BY <3>1
    <3>3. /\ {row[j].pos : j \in Added(k)} = 0..(Cardinality(Added(k)) - 1)
          /\ \A j, m \in Added(k) : j # m => row[j].pos # row[m].pos
      BY DEF Inv, ItemsInOrder
    <3> QED BY <3>1, <3>2, <3>3
  <2>2. /\ {row'[j].pos : j \in Added(l)'} = 0..(Cardinality(Added(l)') - 1)
        /\ \A j, m \in Added(l)' : j # m => row'[j].pos # row'[m].pos
    <3>1. (\A j \in Added(l) : row'[j].pos = row[j].pos) /\ row'[i].pos = c
      BY <1>4, <1>5, <1>10 DEF Added, Record
    <3>2. {row[j].pos : j \in Added(l)} = 0..(c - 1)
          /\ \A j, m \in Added(l) : j # m => row[j].pos # row[m].pos
      BY <1>a, <1>3 DEF Inv, ItemsInOrder
    <3>3. \A j \in Added(l) : row[j].pos \in 0..(c - 1)
      BY <3>2
    <3>4. {row'[j].pos : j \in Added(l) \cup {i}} = {row[j].pos : j \in Added(l)} \cup {c}
      BY <3>1
    <3>5. 0..(c - 1) \cup {c} = 0..c /\ (c + 1) - 1 = c
      BY <1>3
    <3>6. {row'[j].pos : j \in Added(l)'} = 0..(Cardinality(Added(l)') - 1)
      BY <3>2, <3>4, <3>5, <1>10, <1>11
    <3>7. \A j, m \in Added(l) \cup {i} : j # m => row'[j].pos # row'[m].pos
      <4>1. \A j \in Added(l) : row[j].pos # c
        BY <3>3, <1>3
      <4> QED BY <3>1, <3>2, <4>1
    <3> QED BY <3>6, <3>7, <1>10
  <2> QED BY <2>1, <2>2 DEF ItemsInOrder
<1> QED BY <1>9, <1>12, <1>13, <1>14, <1>15, <1>16 DEF Inv

(* Every insert is an insert of a first row.                               *)
LEMMA InsertionForm ==
    ASSUME Inv, NEW e \in Entity, Insertion(e)
    PROVE  /\ row[e] = Missing /\ UNCHANGED req
           /\ \E n \in Row, said \in {"nothing", "open", "closed"} :
                 /\ n.kind \in Kind \ {"item"} /\ n.of = None /\ n.pos = 0
                 /\ n.kind = "notification" => n.status = "open"
                 /\ n.kind \in Recounted =>
                       said = n.status /\ (("closed" \in n.stamps) <=> (n.status = "closed"))
                 /\ row' = [row EXCEPT ![e] = n] /\ told' = [told EXCEPT ![e] = said]
<1>1. PICK kind \in Kind \ {"item"}, status \in {"open", "closed"},
           said \in {"nothing", "open", "closed"} :
          /\ Insert(e, kind, status, said)
          /\ kind = "notification" => status = "open"
          /\ kind \in Recounted => said = status
  BY DEF Insertion, CreateProject, CreateTask, CreateNote, CreateList, Remember,
         CreateNotification, Kind, Recounted
<1>2. PICK text \in Text :
          row' = [row EXCEPT ![e] = [Missing EXCEPT !.kind = kind, !.status = status,
                     !.text = text,
                     !.stamps = IF kind # "project" /\ status = "closed" THEN {"closed"} ELSE {}]]
  BY <1>1 DEF Insert
<1> DEFINE n == [Missing EXCEPT !.kind = kind, !.status = status, !.text = text,
                    !.stamps = IF kind # "project" /\ status = "closed" THEN {"closed"} ELSE {}]
<1>3. /\ n \in Row /\ n.kind = kind /\ n.status = status /\ n.of = None /\ n.pos = 0
      /\ n.stamps = IF kind # "project" /\ status = "closed" THEN {"closed"} ELSE {}
  BY <1>1, MissingTyped DEF Missing, Row, Status
<1>4. row' = [row EXCEPT ![e] = n]
  BY <1>2
<1> HIDE DEF n
<1>5. kind \in Recounted => kind # "project"
  BY DEF Recounted
<1>6. row[e] = Missing /\ UNCHANGED req /\ told' = [told EXCEPT ![e] = said]
  BY <1>1 DEF Insert
<1> QED BY <1>1, <1>3, <1>4, <1>5, <1>6

(* The five forms of a step.                                               *)
LEMMA StepForms ==
    ASSUME [Next]_vars
    PROVE  \/ UNCHANGED vars
           \/ \E e \in Entity : Insertion(e)
           \/ \E r \in Request : /\ \/ \E e \in Entity : Update(r, e) \/ LockList(r, e)
                                    \/ UpdateItem(r) \/ \E i \in Item : FindParent(r, i)
                                    \/ Abandon(r)
                                 /\ UNCHANGED <<row, told>>
           \/ \E r \in Request : Commit(r)
           \/ \E r \in Request, i \in Item : CreateItem(r, i)
BY DEF Next, Update, UpdateProject, UpdateTask, UpdateNote, UpdateList, UpdateMemory, MarkRead,
       Dismiss, LockList, UpdateItem, FindParent, Abandon

(* The invariant holds at the start ...                                    *)
LEMMA InvInit == Init => Inv
<1> SUFFICES ASSUME Init PROVE Inv
  OBVIOUS
<1>1. TypeOK
  BY MissingTyped, QuietTyped DEF Init, TypeOK
<1>2. Fits /\ Exclusive
  BY DEF Init, Fits, Fit, Exclusive, Locks, At, Quiet
<1>3. \A x \in Record : row[x].kind = None /\ row[x].of = None
  BY DEF Init, Missing
<1>4. Dated /\ ToldAsItIs
  BY <1>3, NoneAssumption DEF Dated, ToldAsItIs, Kind
<1>5. ItemsInOrder
  <2> SUFFICES ASSUME NEW l \in Entity
               PROVE  /\ {row[i].pos : i \in Added(l)} = 0..(Cardinality(Added(l)) - 1)
                      /\ \A i, j \in Added(l) : i # j => row[i].pos # row[j].pos
    BY DEF ItemsInOrder
  <2>1. Added(l) = {}
    BY <1>3, RecordsAssumption DEF Added, Record
  <2>2. Cardinality(Added(l)) = 0
    BY <2>1, FS_EmptySet
  <2> QED BY <2>1, <2>2
<1> QED BY <1>1, <1>2, <1>4, <1>5 DEF Inv

(* ... and after every step.                                               *)
LEMMA InvNext == Inv /\ [Next]_vars => Inv'
<1> SUFFICES ASSUME Inv, [Next]_vars PROVE Inv'
  OBVIOUS
<1>1. CASE UNCHANGED vars
  <2>1. \A l : Added(l)' = Added(l)
    BY <1>1 DEF vars, Added
  <2> QED BY <1>1, <2>1 DEF vars, Inv, TypeOK, Fits, Fit, Updating, Adding, Visiting, Dated,
             Exclusive, Locks, At, Exists, ItemsInOrder, ToldAsItIs
<1>2. CASE \E e \in Entity : Insertion(e)
  BY <1>2, InsertionForm, InsertKeeps
<1>3. CASE \E r \in Request : /\ \/ \E e \in Entity : Update(r, e) \/ LockList(r, e)
                                 \/ UpdateItem(r) \/ \E i \in Item : FindParent(r, i)
                                 \/ Abandon(r)
                              /\ UNCHANGED <<row, told>>
  BY <1>3, UpdateKeeps, LockKeeps, ItemReadKeeps, RequestEnds DEF Abandon
<1>4. CASE \E r \in Request : Commit(r)
  BY <1>4, CommitKeeps
<1>5. CASE \E r \in Request, i \in Item : CreateItem(r, i)
  BY <1>5, CreateItemKeeps
<1> QED BY <1>1, <1>2, <1>3, <1>4, <1>5, StepForms

-----------------------------------------------------------------------------
(* The state of the services has its types.                                *)
THEOREM TypeCorrect == Spec => []TypeOK
<1>1. Inv => TypeOK
  BY DEF Inv
<1> QED BY InvInit, InvNext, <1>1, PTL DEF Spec

(* What the timeline says last of a task, note, list, item or memory is    *)
(* what its row says, however updates overtook one another.                *)
THEOREM TimelineIsTrue == Spec => []ToldAsItIs
<1>1. Inv => ToldAsItIs
  BY DEF Inv
<1> QED BY InvInit, InvNext, <1>1, PTL DEF Spec

(* The positions of a list's items are 0, 1, 2, ... and no item is refused *)
(* by the unique constraint on them.                                       *)
THEOREM OrderIsKept == Spec => []ItemsInOrder
<1>1. Inv => ItemsInOrder
  BY DEF Inv
<1> QED BY InvInit, InvNext, <1>1, PTL DEF Spec

(* One step on a closed record.                                            *)
LEMMA ClosedStep ==
    ASSUME Inv, [Next]_vars, NEW x \in Record, row[x].status = "closed"
    PROVE  /\ row[x].kind = "memory" => row'[x] = row[x]
           /\ row[x].kind \in {"note", "list", "item"} => row'[x].status = "closed"
           /\ \A i \in Item : row'[i].of = x => row[i].of = x
           /\ row[x].kind = "notification" /\ row'[x].status # "closed" =>
                 /\ row'[x].status = "read"
                 /\ "closed" \in row'[x].stamps
                 /\ \E r \in Request : req[r].on = x /\ req[r].saw.status = "open"
<1>1. CASE UNCHANGED row
  BY <1>1
<1>2. CASE \E e \in Entity : Insertion(e)
  <2>1. PICK e \in Entity, n \in Row : row[e] = Missing /\ row' = [row EXCEPT ![e] = n]
    BY <1>2, InsertionForm
  <2>2. x # e
    BY <2>1 DEF Missing
  <2>3. \A i \in Item : i # e /\ i \in Record
    BY RecordsAssumption DEF Record
  <2> QED BY <2>1, <2>2, <2>3 DEF Inv, TypeOK
<1>3. CASE \E r \in Request : Commit(r)
  <2>1. PICK r \in Request : Commit(r)
    BY <1>3
  <2> DEFINE y == req[r].on
             n == Written(r, y)
             new == "status" \in Changes(r)
  <2>2. y \in Record /\ Updating(req[r]) /\ row' = [row EXCEPT ![y] = n]
    BY <2>1, AtCommit
  <2>3. /\ n.of = row[y].of
        /\ n.status = IF new THEN req[r].ask.status ELSE row[y].status
        /\ n.stamps = IF new THEN Stamped(y, req[r].ask.status) ELSE row[y].stamps
        /\ new => req[r].ask.status \in Status
    BY <2>2, WrittenRow
  <2> HIDE DEF n, new
  <2>4. \A z \in Record : row'[z] = IF z = y THEN n ELSE row[z]
    BY <2>2 DEF Inv, TypeOK
  <2>5. \A i \in Item : row'[i].of = row[i].of
    BY <2>3, <2>4 DEF Record
  <2>6. CASE x # y
    BY <2>4, <2>5, <2>6
  <2>7. CASE x = y
    <3>1. row[x].kind # "memory"
      BY <2>2, <2>7 DEF Updating
    <3>2. row[x].kind \in {"note", "list", "item"} => n.status = "closed"
      BY <2>2, <2>3, <2>7, NoneAssumption DEF Updating, Closable
    <3>3. ASSUME row[x].kind = "notification", n.status # "closed"
          PROVE  n.status = "read" /\ "closed" \in n.stamps /\ req[r].saw.status = "open"
      <4>1. new /\ n.status = req[r].ask.status /\ req[r].ask.status = "read"
        BY <3>3, <2>2, <2>3, <2>7 DEF Updating
      <4>2. "closed" \in row[x].stamps
        BY <3>3 DEF Inv, Dated
      <4> QED BY <4>1, <4>2, <3>3, <2>2, <2>3, <2>7 DEF Updating, Stamped
    <3> QED BY <3>1, <3>2, <3>3, <2>4, <2>5, <2>7
  <2> QED BY <2>6, <2>7
<1>4. CASE \E r \in Request, i \in Item : CreateItem(r, i)
  <2>1. PICK r \in Request, i \in Item : CreateItem(r, i)
    BY <1>4
  <2>2. Adding(req[r])
    BY <2>1 DEF CreateItem, At, Inv, Fits, Fit
  <2>3. PICK n : row' = [row EXCEPT ![i] = n] /\ n.of = req[r].on
    <3>1. PICK text \in Text :
              row' = [row EXCEPT ![i] = [Missing EXCEPT !.kind = "item", !.status = "open",
                         !.text = text, !.of = req[r].on, !.pos = req[r].pos]]
      BY <2>1 DEF CreateItem
    <3>2. [Missing EXCEPT !.kind = "item", !.status = "open",
              !.text = text, !.of = req[r].on, !.pos = req[r].pos].of = req[r].on
      BY DEF Missing
    <3> QED BY <3>1, <3>2
  <2>4. \A z \in Record : row'[z] = IF z = i THEN n ELSE row[z]
    BY <2>3 DEF Inv, TypeOK
  <2>5. x # i /\ x # req[r].on
    BY <2>1, <2>2 DEF CreateItem, Missing, Adding
  <2> QED BY <2>3, <2>4, <2>5 DEF Record
<1> QED BY <1>1, <1>2, <1>3, <1>4, StepForms DEF vars

(* What is closed stays closed, and a dismissed notification comes back    *)
(* only by a mark_read that had read it before.                            *)
THEOREM ClosedStays == Spec => ClosedIsClosed
<1>1. Inv /\ [Next]_vars =>
        [\A x \in Record : row[x].status = "closed" =>
          /\ row[x].kind = "memory" => row'[x] = row[x]
          /\ row[x].kind \in {"note", "list", "item"} => row'[x].status = "closed"
          /\ \A i \in Item : row'[i].of = x => row[i].of = x
          /\ row[x].kind = "notification" /\ row'[x].status # "closed" =>
                /\ row'[x].status = "read"
                /\ "closed" \in row'[x].stamps
                /\ \E r \in Request : req[r].on = x /\ req[r].saw.status = "open"]_vars
  BY ClosedStep
<1> QED BY InvInit, InvNext, <1>1, PTL DEF Spec, ClosedIsClosed

=============================================================================
