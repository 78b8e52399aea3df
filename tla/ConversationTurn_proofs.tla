----------------------- MODULE ConversationTurn_proofs -----------------------
(***************************************************************************)
(* Theorems about ConversationTurn for any number of requests, threads,    *)
(* records and turns and any size of the store.  The inductive invariant   *)
(* has a part for the path a request takes (how many calls it has made,    *)
(* what its plan may contain), and a part for the turns: the turn being    *)
(* stored belongs to one request, and what was trimmed is older than what  *)
(* is kept.                                                                *)
(***************************************************************************)
EXTENDS ConversationTurn, FiniteSetTheorems, TLAPS

Storing == {"question", "reply"}
Early == {"idle", "thread", "context", "question", "pending", "resolve", "route",
          "load", "understand", "answer", "reply"}

(* Where a request stands on its way to an action.                         *)
Path(s) ==
    /\ s.pc # "understand" => s.calls = 0 /\ s.pass = "normal"
    /\ s.calls <= 2
    /\ s.pass = "normal" => s.calls = 0
    /\ s.pass = "retrieved" => s.calls = 1
    /\ s.pc \in Early => s.left = 0
    /\ s.pc = "verify" => s.left > 0 \/ "forget" \in s.acts
    /\ s.pc = "step" => s.left > 0
    /\ s.left > 0 /\ s.pc # "proposed" => (s.acts \cap MemoryAct # {} => s.asked)
    /\ s.left > 0 /\ s.pc \notin {"proposed", "verify"} => s.acts \cap ToConfirm = {}
    /\ s.pc = "act" =>
          /\ s.act \in MemoryAct => s.asked
          /\ s.act # "forget"
          /\ s.left > 0 => s.act \in s.acts
          /\ s.on # None => s.source = "trusted"

Paths == \A r \in Request : Path(req[r])

(* The turn a request is storing is its own.                               *)
Holding(r) ==
    /\ req[r].pc \notin Storing => req[r].at = 0
    /\ req[r].pc \in Storing =>
          /\ req[r].at \in Turn
          /\ turn[req[r].at] = [thread |-> req[r].thread, status |-> "begun"]

Holdings ==
    /\ \A r \in Request : Holding(r)
    /\ \A r, q \in Request :
          req[r].pc \in Storing /\ req[q].pc \in Storing /\ req[r].at = req[q].at => r = q

Gone(t) == {n \in Turn : turn[n].thread = t /\ turn[n].status = "trimmed"}

Kept == \A t \in Thread :
    /\ Cardinality(Stored(t)) <= StoredTurns
    /\ Gone(t) # {} => Cardinality(Stored(t)) = StoredTurns
    /\ \A n \in Stored(t), m \in Gone(t) : m < n

OneDefault == \A t, u \in Default : t = u

Inv == TypeOK /\ Paths /\ Holdings /\ Kept /\ OneDefault

-----------------------------------------------------------------------------
(* What trimming keeps.                                                    *)

(* A finite set of turns has a first one: initial segments of it are       *)
(* finite, and strict inclusion of finite sets is well founded.            *)
LEMMA FirstOf ==
    ASSUME NEW B \in SUBSET Nat, IsFiniteSet(B), B # {}
    PROVE  \E m \in B : \A k \in B \ {m} : m < k
<1> DEFINE UpTo(m) == {k \in B : k <= m}
           Segments == {UpTo(m) : m \in B}
<1>0. \A k \in B : k \in Nat
  OBVIOUS
<1>1. IsWellFoundedOn(StrictSubsetOrdering(B), FiniteSubsetsOf(B))
  BY FS_StrictSubsetOrderingWellFounded
<1>2. Segments \subseteq FiniteSubsetsOf(B) /\ Segments # {}
  <2>1. ASSUME NEW m \in B PROVE UpTo(m) \in FiniteSubsetsOf(B)
    <3>1. UpTo(m) \in SUBSET B
      OBVIOUS
    <3> HIDE DEF UpTo
    <3> QED BY <3>1, FS_Subset DEF FiniteSubsetsOf
  <2> HIDE DEF UpTo
  <2> QED BY <2>1
<1>3. PICK X \in Segments : \A Y \in Segments : <<Y, X>> \notin StrictSubsetOrdering(B)
  <2> HIDE DEF Segments
  <2> QED BY <1>1, <1>2, WFMin
<1>4. PICK m \in B : X = UpTo(m)
  BY <1>3
<1>5. ASSUME NEW k \in B, k < m
      PROVE  FALSE
  <2>0. /\ m \in Nat /\ k \in Nat /\ m <= m /\ ~(m <= k)
        /\ \A j \in B : j <= k => j <= m
    BY <1>0, <1>5
  <2>1. UpTo(k) \subseteq UpTo(m) /\ m \in UpTo(m) /\ m \notin UpTo(k)
    BY <2>0
  <2>2. UpTo(k) \in Segments /\ UpTo(k) \in SUBSET B /\ UpTo(m) \in SUBSET B
    OBVIOUS
  <2> HIDE DEF UpTo, Segments
  <2>3. <<UpTo(k), UpTo(m)>> \in StrictSubsetOrdering(B)
    BY <2>1, <2>2 DEF StrictSubsetOrdering
  <2> QED BY <2>2, <2>3, <1>3, <1>4
<1> QED BY <1>0, <1>5

(* The turns after one of c + 1 turns are at most c.                       *)
LEMMA AfterOne ==
    ASSUME NEW B \in SUBSET Nat, IsFiniteSet(B), NEW m \in B
    PROVE  /\ IsFiniteSet(B \ {m}) /\ Cardinality(B \ {m}) = Cardinality(B) - 1
           /\ Cardinality({k \in B : k > m}) \in Nat
           /\ Cardinality({k \in B : k > m}) <= Cardinality(B) - 1
<1> DEFINE After == {k \in B : k > m}
<1>1. IsFiniteSet(B \ {m}) /\ Cardinality(B \ {m}) = Cardinality(B) - 1
  BY FS_RemoveElement
<1>2. \A k \in B : k \in Nat
  OBVIOUS
<1>3. After \in SUBSET (B \ {m})
  BY <1>2
<1> HIDE DEF After
<1>4. Cardinality(After) \in Nat /\ Cardinality(After) <= Cardinality(B \ {m})
  BY <1>1, <1>3, FS_Subset, FS_CardinalityType
<1> QED BY <1>1, <1>4 DEF After

(* Up to StoredTurns turns are all among the newest.                       *)
LEMMA AllNewest ==
    ASSUME NEW B \in SUBSET Nat, IsFiniteSet(B), Cardinality(B) <= StoredTurns, NEW n
    PROVE  Newest(B, n) = B
<1>1. Cardinality(B) \in Nat /\ StoredTurns \in Nat
  BY FS_CardinalityType, TurnAssumption
<1>2. ASSUME NEW m \in B PROVE Cardinality({k \in B : k > m}) < StoredTurns
  <2>1. PICK c : c = Cardinality({k \in B : k > m})
    OBVIOUS
  <2>2. c \in Nat /\ c <= Cardinality(B) - 1
    BY <2>1, AfterOne
  <2>3. c < StoredTurns
    BY <1>1, <2>2
  <2> QED BY <2>1, <2>3
<1> QED BY <1>2 DEF Newest

(* Of one turn more, all but the first are.                                *)
LEMMA AllButFirst ==
    ASSUME NEW B \in SUBSET Nat, IsFiniteSet(B), Cardinality(B) = StoredTurns + 1, NEW n,
           NEW m \in B, \A k \in B \ {m} : m < k
    PROVE  Newest(B, n) = B \ {m} /\ Cardinality(B \ {m}) = StoredTurns
<1>0. \A k \in B : k \in Nat
  OBVIOUS
<1>1. StoredTurns \in Nat \ {0} /\ IsFiniteSet(B \ {m}) /\ Cardinality(B \ {m}) = StoredTurns
  <2>1. StoredTurns \in Nat \ {0}
    BY TurnAssumption
  <2>2. IsFiniteSet(B \ {m}) /\ Cardinality(B \ {m}) = Cardinality(B) - 1
    BY AfterOne
  <2> QED BY <2>1, <2>2
<1>2. {k \in B : k > m} = B \ {m}
  <2>1. m \in Nat /\ ~(m > m) /\ \A k \in B \ {m} : k > m
    BY <1>0
  <2> QED BY <2>1
<1>3. ASSUME NEW j \in B \ {m}
      PROVE  Cardinality({k \in B : k > j}) < StoredTurns
  <2> DEFINE C == B \ {m}
  <2>1. {k \in B : k > j} = {k \in C : k > j}
    BY <1>0
  <2>2. C \in SUBSET Nat /\ IsFiniteSet(C) /\ Cardinality(C) = StoredTurns /\ j \in C
    BY <1>1
  <2> HIDE DEF C
  <2>3. PICK c : c = Cardinality({k \in C : k > j})
    OBVIOUS
  <2>4. c \in Nat /\ c <= Cardinality(C) - 1
    BY <2>2, <2>3, AfterOne
  <2>5. c < StoredTurns
    BY <1>1, <2>2, <2>4
  <2> QED BY <2>1, <2>3, <2>5
<1>4. ~(Cardinality({k \in B : k > m}) < StoredTurns)
  BY <1>1, <1>2
<1> QED BY <1>1, <1>3, <1>4 DEF Newest

-----------------------------------------------------------------------------
(* What a step does to requests and turns.                                 *)

(* The rows other than turns have their types.                             *)
RowsTyped ==
    /\ thread \in [Thread -> {"absent", "plain", "default"}]
    /\ refs \in [Thread -> SUBSET RefKind]
    /\ world \in [Entity -> {"absent", "open", "closed"}]

TurnState == [thread : Thread \cup {None},
              status : {"new", "begun", "stored", "trimmed", "void"}]

(* Turns of one thread, by whether they are stored.                        *)
LEMMA StoredFinite ==
    ASSUME NEW t
    PROVE  /\ IsFiniteSet(Stored(t)) /\ Stored(t) \in SUBSET Nat
           /\ Cardinality(Stored(t)) \in Nat
<1>1. IsFiniteSet(Turn) /\ Turn \subseteq Nat
  BY FS_Interval, TurnAssumption DEF Turn
<1>2. Stored(t) \in SUBSET Turn
  BY DEF Stored
<1> QED BY <1>1, <1>2, FS_Subset, FS_CardinalityType

(* A request takes a state in which it stores no turn.                     *)
LEMMA Moves ==
    ASSUME Inv, NEW r \in Request, NEW s \in RequestState, Path(s),
           s.pc \notin Storing, s.at = 0,
           req' = [req EXCEPT ![r] = s], UNCHANGED turn, RowsTyped', OneDefault'
    PROVE  Inv'
<1>1. \A q \in Request : req'[q] = IF q = r THEN s ELSE req[q]
  BY DEF Inv, TypeOK
<1>2. TypeOK'
  BY DEF Inv, TypeOK, RowsTyped
<1>3. Paths'
  <2>1. \A q \in Request : Path(IF q = r THEN s ELSE req[q])
    BY DEF Inv, Paths
  <2> QED BY <1>1, <2>1 DEF Paths, Path
<1>4. Holdings'
  BY <1>1 DEF Inv, Holdings, Holding
<1>5. Kept'
  BY DEF Inv, Kept, Stored, Gone
<1> QED BY <1>2, <1>3, <1>4, <1>5 DEF Inv

(* A turn begins: the next number, for the request's thread.               *)
LEMMA Takes ==
    ASSUME Inv, NEW r \in Request, NEW n \in Turn, NEW pc \in Storing,
           req[r].pc \in {"context", "answer"}, TakeTime(r, n, pc),
           UNCHANGED <<thread, refs, world>>
    PROVE  Inv'
<1> DEFINE u == [thread |-> req[r].thread, status |-> "begun"]
           s == [req[r] EXCEPT !.pc = pc, !.at = n]
<1>0. req[r] \in RequestState /\ n \in Nat /\ Path(req[r])
  BY TurnAssumption DEF Inv, TypeOK, Turn, Paths
<1>1. turn' = [turn EXCEPT ![n] = u] /\ req' = [req EXCEPT ![r] = s] /\ turn[n].status = "new"
  BY DEF TakeTime
<1>2. /\ s \in RequestState /\ u \in TurnState
      /\ s.pc = pc /\ s.at = n /\ s.thread = req[r].thread
      /\ u.status = "begun" /\ u = [thread |-> s.thread, status |-> "begun"]
  BY <1>0 DEF RequestState, TurnState, Stage, Storing
<1>3. Path(s)
  BY <1>0 DEF Path, RequestState, Storing, Early
<1> HIDE DEF u, s
<1>4. \A m \in Turn : turn'[m] = IF m = n THEN u ELSE turn[m]
  BY <1>1 DEF Inv, TypeOK
<1>5. \A q \in Request : req'[q] = IF q = r THEN s ELSE req[q]
  BY <1>1 DEF Inv, TypeOK
<1>6. TypeOK'
  <2>1. turn \in [Turn -> TurnState] /\ req \in [Request -> RequestState]
    BY DEF Inv, TypeOK, TurnState
  <2>2. turn' \in [Turn -> TurnState] /\ req' \in [Request -> RequestState]
    BY <1>1, <1>2, <2>1
  <2> QED BY <2>2 DEF Inv, TypeOK, TurnState
<1>7. Paths'
  <2>1. \A q \in Request : Path(IF q = r THEN s ELSE req[q])
    BY <1>3 DEF Inv, Paths
  <2> QED BY <1>5, <2>1 DEF Paths, Path
<1>8. Holdings'
  <2>1. req[r].pc \notin Storing
    BY DEF Storing
  <2>2. \A q \in Request : req[q].pc \in Storing => req[q].at \in Turn /\ req[q].at # n
    <3>1. ASSUME NEW q \in Request, req[q].pc \in Storing
          PROVE  req[q].at \in Turn /\ req[q].at # n
      <4>1. Holding(q)
        BY DEF Inv, Holdings
      <4>2. /\ req[q].at \in Turn
            /\ turn[req[q].at] = [thread |-> req[q].thread, status |-> "begun"]
        BY <3>1, <4>1 DEF Holding
      <4>3. turn[req[q].at].status = "begun"
        BY <4>2
      <4> QED BY <1>1, <4>2, <4>3
    <3> QED BY <3>1
  <2>3. ASSUME NEW q \in Request PROVE Holding(q)'
    <3>1. CASE q = r
      BY <3>1, <1>2, <1>4, <1>5 DEF Holding
    <3>2. CASE q # r
      BY <3>2, <2>2, <1>4, <1>5 DEF Holding, Inv, Holdings
    <3> QED BY <3>1, <3>2
  <2>4. \A q, p \in Request :
            req'[p].pc \in Storing /\ req'[q].pc \in Storing /\ req'[p].at = req'[q].at => p = q
    BY <2>2, <1>2, <1>5 DEF Inv, Holdings
  <2> QED BY <2>3, <2>4 DEF Holdings
<1>9. \A t : Stored(t)' = Stored(t) /\ Gone(t)' = Gone(t)
  BY <1>1, <1>2, <1>4 DEF Stored, Gone
<1>10. Kept' /\ OneDefault'
  BY <1>9 DEF Inv, Kept, OneDefault, Default
<1> QED BY <1>6, <1>7, <1>8, <1>10 DEF Inv

(* What a thread keeps when its request's turn is stored.                  *)
LEMMA KeptByStore ==
    ASSUME Inv, NEW t \in Thread, NEW n \in Turn \ Stored(t), n \notin Gone(t),
           NEW B, B = Stored(t) \cup {n}, NEW kept, kept = Newest(B, n),
           NEW gone, gone = Gone(t) \cup (B \ kept)
    PROVE  /\ Cardinality(kept) <= StoredTurns
           /\ gone # {} => Cardinality(kept) = StoredTurns
           /\ \A k \in kept, g \in gone : g < k
<1> DEFINE A == Stored(t)
           G == Gone(t)
<1>1. /\ A \in SUBSET Nat /\ IsFiniteSet(A) /\ Cardinality(A) \in Nat /\ n \in Nat
      /\ StoredTurns \in Nat \ {0}
  BY StoredFinite, TurnAssumption DEF Turn
<1>2. B \in SUBSET Nat /\ IsFiniteSet(B) /\ Cardinality(B) = Cardinality(A) + 1 /\ B # {}
  BY <1>1, FS_AddElement
<1>3. /\ Cardinality(A) <= StoredTurns
      /\ G # {} => Cardinality(A) = StoredTurns
      /\ \A k \in A, g \in G : g < k
  BY DEF Inv, Kept
<1>4. G \in SUBSET Nat /\ n \notin G /\ n \notin A /\ B = A \cup {n}
  BY TurnAssumption DEF Gone, Turn
<1>a. gone = G \cup (B \ kept)
  OBVIOUS
<1> HIDE DEF A, G
<1>5. CASE Cardinality(A) < StoredTurns
  <2>1. Newest(B, n) = B /\ Cardinality(B) <= StoredTurns
    BY <1>1, <1>2, <1>5, AllNewest
  <2>2. G = {} /\ B \ B = {}
    BY <1>1, <1>3, <1>5
  <2>3. kept = B /\ gone = {}
    BY <2>1, <2>2, <1>a
  <2> QED BY <2>1, <2>3
<1>6. CASE Cardinality(A) = StoredTurns
  <2>1. PICK m \in B : \A k \in B \ {m} : m < k
    BY <1>2, FirstOf
  <2>2. Newest(B, n) = B \ {m} /\ Cardinality(B \ {m}) = StoredTurns
    BY <1>2, <1>6, <2>1, AllButFirst
  <2>3. ASSUME NEW k \in B \ {m}, NEW g \in G
        PROVE  g < k
    <3>1. k \in Nat /\ g \in Nat /\ m \in Nat /\ n \in Nat /\ m < k
      BY <1>1, <1>2, <1>4, <2>1
    <3>2. CASE k \in A
      BY <3>2, <1>3
    <3>3. CASE k = n
      <4>1. m \in A
        BY <3>3, <1>4
      <4>2. g < m
        BY <4>1, <1>3
      <4> QED BY <3>1, <4>2
    <3> QED BY <3>2, <3>3, <1>4
  <2>4. B \ (B \ {m}) = {m}
    OBVIOUS
  <2>5. \A k \in B \ {m}, g \in G \cup {m} : g < k
    BY <2>1, <2>3
  <2>6. kept = B \ {m} /\ gone = G \cup {m} /\ Cardinality(kept) <= StoredTurns
    BY <1>1, <2>2, <2>4, <1>a
  <2> QED BY <2>2, <2>5, <2>6
<1> QED BY <1>1, <1>3, <1>5, <1>6

(* A turn is stored and its thread trimmed.                                *)
LEMMA Stores ==
    ASSUME Inv, NEW r \in Request, NEW pc \in {"pending", "remember"},
           req[r].pc \in Storing, StoreTurn(r, pc), UNCHANGED <<thread, refs, world>>
    PROVE  Inv'
<1>1. PICK n : n = req[r].at
  OBVIOUS
<1>2. PICK t : t = req[r].thread
  OBVIOUS
<1>3. n \in Turn /\ turn[n] = [thread |-> t, status |-> "begun"]
  BY <1>1, <1>2 DEF Inv, Holdings, Holding
<1>4. PICK kept : kept = Newest(Stored(t) \cup {n}, n)
  OBVIOUS
<1> DEFINE B == Stored(t) \cup {n}
           s == IF n \in kept THEN [req[r] EXCEPT !.pc = pc, !.at = 0] ELSE Quiet
<1>5. /\ turn' = [m \in Turn |->
             IF m \in B \ kept THEN [turn[m] EXCEPT !.status = "trimmed"]
             ELSE IF m = n THEN [turn[m] EXCEPT !.status = "stored"]
             ELSE turn[m]]
      /\ req' = [req EXCEPT ![r] = IF n \in kept THEN [@ EXCEPT !.pc = pc, !.at = 0] ELSE Quiet]
  BY <1>1, <1>2, <1>4 DEF StoreTurn
<1>6. kept \subseteq B /\ B \subseteq Turn /\ n \notin Stored(t) /\ n \notin Gone(t)
  BY <1>3, <1>4 DEF Newest, Stored, Gone
<1>7. req[r] \in RequestState /\ Path(req[r]) /\ Quiet \in RequestState
  BY DEF Inv, TypeOK, Paths, Quiet, RequestState, Stage, RefKind, Act
<1>8. req' = [req EXCEPT ![r] = s]
  BY <1>5
<1>9. s \in RequestState /\ Path(s) /\ s.pc \notin Storing /\ s.at = 0
  <2>1. CASE n \in kept
    <3>1. s \in RequestState
      BY <2>1, <1>7 DEF RequestState, Stage
    <3>2. Path(s) /\ s.pc \notin Storing /\ s.at = 0
      BY <2>1, <1>7, SMTT(30) DEF Path, RequestState, Storing, Early
    <3> QED BY <3>1, <3>2
  <2>2. CASE n \notin kept
    BY <2>2, <1>7 DEF Path, Quiet, Storing, Early, MemoryAct, ToConfirm
  <2> QED BY <2>1, <2>2
<1> HIDE DEF s
<1>10. \A q \in Request : req'[q] = IF q = r THEN s ELSE req[q]
  BY <1>8 DEF Inv, TypeOK
<1>11. turn \in [Turn -> TurnState]
  BY DEF Inv, TypeOK, TurnState
<1>12. ASSUME NEW m \in Turn
       PROVE  /\ turn'[m] \in TurnState /\ turn'[m].thread = turn[m].thread
              /\ turn'[m].status = IF m \in B \ kept THEN "trimmed"
                                   ELSE IF m = n THEN "stored" ELSE turn[m].status
              /\ m \notin B => turn'[m] = turn[m]
  BY <1>5, <1>6, <1>11 DEF TurnState
<1>13. TypeOK'
  <2>1. turn' \in [Turn -> TurnState]
    BY <1>5, <1>12
  <2>2. req' \in [Request -> RequestState]
    BY <1>8, <1>9 DEF Inv, TypeOK
  <2> QED BY <2>1, <2>2 DEF Inv, TypeOK, TurnState
<1>14. Paths'
  <2>1. \A q \in Request : Path(IF q = r THEN s ELSE req[q])
    BY <1>9 DEF Inv, Paths
  <2> QED BY <1>10, <2>1 DEF Paths, Path
<1>15. Holdings'
  <2>1. ASSUME NEW q \in Request PROVE Holding(q)'
    <3>1. CASE q = r
      BY <3>1, <1>9, <1>10 DEF Holding
    <3>2. CASE q # r /\ req[q].pc \in Storing
      <4>1. req[q].at \in Turn /\ turn[req[q].at] = [thread |-> req[q].thread, status |-> "begun"]
            /\ req[q].at # n
        BY <3>2, <1>1 DEF Inv, Holdings, Holding
      <4>2. req[q].at \notin B
        BY <4>1 DEF Stored
      <4> QED BY <3>2, <4>1, <4>2, <1>10, <1>12 DEF Holding
    <3>3. CASE q # r /\ req[q].pc \notin Storing
      BY <3>3, <1>10 DEF Holding, Inv, Holdings
    <3> QED BY <3>1, <3>2, <3>3
  <2>2. \A q, p \in Request :
            req'[p].pc \in Storing /\ req'[q].pc \in Storing /\ req'[p].at = req'[q].at => p = q
    BY <1>9, <1>10 DEF Inv, Holdings
  <2> QED BY <2>1, <2>2 DEF Holdings
<1>16. Kept'
  <2> SUFFICES ASSUME NEW u \in Thread
               PROVE  /\ Cardinality(Stored(u)') <= StoredTurns
                      /\ Gone(u)' # {} => Cardinality(Stored(u)') = StoredTurns
                      /\ \A k \in Stored(u)', g \in Gone(u)' : g < k
    BY DEF Kept
  <2>1. CASE u # t
    <3>1. Stored(u)' = Stored(u) /\ Gone(u)' = Gone(u)
      BY <2>1, <1>3, <1>12 DEF Stored, Gone
    <3> QED BY <3>1 DEF Inv, Kept
  <2>2. CASE u = t
    <3>1. Stored(t)' = kept
      BY <1>3, <1>6, <1>12 DEF Stored
    <3>2. Gone(t)' = Gone(t) \cup (B \ kept)
      BY <1>3, <1>6, <1>12 DEF Stored, Gone
    <3>3. PICK Z : Z = B
      OBVIOUS
    <3>4. /\ Cardinality(kept) <= StoredTurns
          /\ Gone(t) \cup (Z \ kept) # {} => Cardinality(kept) = StoredTurns
          /\ \A k \in kept, g \in Gone(t) \cup (Z \ kept) : g < k
      <4>1. t \in Thread /\ n \in Turn \ Stored(t) /\ n \notin Gone(t)
            /\ Z = Stored(t) \cup {n} /\ kept = Newest(Z, n)
        BY <2>2, <3>3, <1>3, <1>4, <1>6
      <4>2. PICK gone : gone = Gone(t) \cup (Z \ kept)
        OBVIOUS
      <4>3. /\ Cardinality(kept) <= StoredTurns
            /\ gone # {} => Cardinality(kept) = StoredTurns
            /\ \A k \in kept, g \in gone : g < k
        BY <4>1, <4>2, KeptByStore
      <4> QED BY <4>2, <4>3
    <3> QED BY <2>2, <3>1, <3>2, <3>3, <3>4
  <2> QED BY <2>1, <2>2
<1>17. OneDefault'
  BY DEF Inv, OneDefault, Default
<1> QED BY <1>13, <1>14, <1>15, <1>16, <1>17 DEF Inv

(* A request that stops leaves its turn out of every thread.               *)
LEMMA Dies ==
    ASSUME Inv, NEW r \in Request, Die(r)
    PROVE  Inv'
<1>1. PICK n : n = req[r].at
  OBVIOUS
<1> DEFINE u == [thread |-> None, status |-> "void"]
<1>2. /\ turn' = IF n = 0 THEN turn ELSE [turn EXCEPT ![n] = u]
      /\ req' = [req EXCEPT ![r] = Quiet] /\ UNCHANGED <<thread, refs, world>>
  BY <1>1 DEF Die, End
<1>3. /\ n = 0 <=> req[r].pc \notin Storing
      /\ req[r].pc \in Storing => n \in Turn /\ turn[n].status = "begun"
  <2>1. Holding(r) /\ 0 \notin Turn
    BY TurnAssumption DEF Inv, Holdings, Turn
  <2> QED BY <1>1, <2>1 DEF Holding
<1>4. Quiet \in RequestState /\ Path(Quiet) /\ Quiet.pc \notin Storing /\ Quiet.at = 0
  BY DEF Quiet, RequestState, Stage, RefKind, Act, Path, Storing, Early, MemoryAct, ToConfirm
<1>5. OneDefault' /\ RowsTyped'
  BY <1>2 DEF Inv, TypeOK, OneDefault, Default, RowsTyped
<1>6. CASE n = 0
  BY <1>2, <1>4, <1>5, <1>6, Moves
<1>7. CASE n # 0
  <2>0. n \in Turn /\ turn[n].status = "begun" /\ turn' = [turn EXCEPT ![n] = u]
        /\ turn \in [Turn -> TurnState] /\ u \in TurnState /\ u.status = "void"
    BY <1>2, <1>3, <1>7 DEF Inv, TypeOK, TurnState
  <2> HIDE DEF u
  <2>1. \A m \in Turn : turn'[m] = IF m = n THEN u ELSE turn[m]
    BY <2>0
  <2>2. \A q \in Request : req'[q] = IF q = r THEN Quiet ELSE req[q]
    BY <1>2 DEF Inv, TypeOK
  <2>3. TypeOK'
    <3>1. turn' \in [Turn -> TurnState] /\ req' \in [Request -> RequestState]
      BY <1>2, <1>4, <2>0 DEF Inv, TypeOK
    <3> QED BY <1>2, <3>1 DEF Inv, TypeOK, TurnState
  <2>4. Paths'
    <3>1. \A q \in Request : Path(IF q = r THEN Quiet ELSE req[q])
      BY <1>4 DEF Inv, Paths
    <3> QED BY <2>2, <3>1 DEF Paths, Path
  <2>5. Holdings'
    <3>1. ASSUME NEW q \in Request PROVE Holding(q)'
      <4>1. CASE q = r
        BY <4>1, <1>4, <2>2 DEF Holding
      <4>2. CASE q # r /\ req[q].pc \in Storing
        <5>1. req[q].at \in Turn /\ req[q].at # n
              /\ turn[req[q].at] = [thread |-> req[q].thread, status |-> "begun"]
          BY <4>2, <1>1, <1>3, <1>7 DEF Inv, Holdings, Holding
        <5> QED BY <4>2, <5>1, <2>1, <2>2 DEF Holding
      <4>3. CASE q # r /\ req[q].pc \notin Storing
        BY <4>3, <2>2 DEF Holding, Inv, Holdings
      <4> QED BY <4>1, <4>2, <4>3
    <3>2. \A q, p \in Request :
              req'[p].pc \in Storing /\ req'[q].pc \in Storing /\ req'[p].at = req'[q].at => p = q
      BY <1>4, <2>2 DEF Inv, Holdings
    <3> QED BY <3>1, <3>2 DEF Holdings
  <2>6. \A t : Stored(t)' = Stored(t) /\ Gone(t)' = Gone(t)
    BY <2>0, <2>1 DEF Stored, Gone
  <2>7. Kept'
    BY <2>6 DEF Inv, Kept
  <2> QED BY <1>5, <2>3, <2>4, <2>5, <2>7 DEF Inv
<1> QED BY <1>6, <1>7

-----------------------------------------------------------------------------
(* Each action, by the state its request takes.                            *)

(* What is known of a request and of the rows it does not write.           *)
LEMMA Here ==
    ASSUME Inv, NEW r \in Request
    PROVE  /\ req[r] \in RequestState /\ Path(req[r]) /\ Holding(r)
           /\ req[r].pc \notin Storing => req[r].at = 0
           /\ Quiet \in RequestState /\ RowsTyped /\ OneDefault
BY DEF Inv, TypeOK, Paths, Holdings, Holding, RowsTyped, Quiet, RequestState, Stage, RefKind, Act

(* Rows that are not written keep their types, and the default its place.  *)
LEMMA Untouched ==
    ASSUME Inv, UNCHANGED <<thread, refs, world>>
    PROVE  RowsTyped' /\ OneDefault'
BY DEF Inv, TypeOK, RowsTyped, OneDefault, Default

(* A request takes a state and writes no row.                              *)
LEMMA Stays ==
    ASSUME Inv, NEW r \in Request, NEW s \in RequestState, Path(s),
           s.pc \notin Storing, s.at = 0,
           req' = [req EXCEPT ![r] = s], UNCHANGED <<thread, turn, refs, world>>
    PROVE  Inv'
BY Untouched, Moves

(* A request is refused, or goes on to its answer.                         *)
LEMMA AnswerState ==
    ASSUME Inv, NEW r \in Request, NEW lost \in BOOLEAN, NEW s,
           s = [Quiet EXCEPT !.pc = "answer", !.thread = req[r].thread, !.lost = lost]
    PROVE  s \in RequestState /\ Path(s) /\ s.pc \notin Storing /\ s.at = 0
<1>1. req[r].thread \in Thread \cup {None} /\ Quiet \in RequestState
  BY Here DEF RequestState
<1>2. s \in RequestState
  BY <1>1 DEF RequestState, Stage, Quiet
<1>3. /\ s.pc = "answer" /\ s.at = 0 /\ s.calls = 0 /\ s.pass = "normal" /\ s.left = 0
  BY DEF Quiet
<1>4. s.pc \notin Storing /\ s.pc \in Early
  BY <1>3 DEF Storing, Early
<1> QED BY <1>2, <1>3, <1>4 DEF Path

(* An idle request is on no path.                                          *)
LEMMA QuietState == Quiet \in RequestState /\ Path(Quiet) /\ Quiet.pc \notin Storing /\ Quiet.at = 0
BY DEF Quiet, RequestState, Stage, RefKind, Act, Path, Storing, Early, MemoryAct, ToConfirm

(* Away from understanding, plans and actions a path asks little.          *)
LEMMA PlainPath ==
    ASSUME NEW s, s.pc \notin {"understand", "verify", "step", "act"},
           s.calls = 0, s.pass = "normal", s.left = 0
    PROVE  Path(s)
BY DEF Path

(* No call is under way before understanding, and no plan.                 *)
LEMMA NothingYet ==
    ASSUME NEW q, Path(q), q.pc \in Early, q.pc # "understand"
    PROVE  q.calls = 0 /\ q.pass = "normal" /\ q.left = 0
BY DEF Path

(* Replies keep the invariant.                                             *)
LEMMA ReplyKeeps ==
    ASSUME Inv, NEW r \in Request, NEW lost \in BOOLEAN, Reply(r, lost),
           UNCHANGED turn, RowsTyped', OneDefault'
    PROVE  Inv'
<1> DEFINE s == [Quiet EXCEPT !.pc = "answer", !.thread = req[r].thread, !.lost = lost]
<1>1. s \in RequestState /\ Path(s) /\ s.pc \notin Storing /\ s.at = 0
  BY AnswerState
<1>2. req' = [req EXCEPT ![r] = s]
  BY DEF Reply
<1> HIDE DEF s
<1> QED BY <1>1, <1>2, Moves

(* So does the end of a request.                                           *)
LEMMA EndKeeps ==
    ASSUME Inv, NEW r \in Request, End(r), UNCHANGED turn, RowsTyped', OneDefault'
    PROVE  Inv'
BY QuietState, Moves DEF End

(* A request goes on without a change of what its path depends on.         *)
LEMMA GoKeeps ==
    ASSUME Inv, NEW r \in Request,
           NEW pc \in {"resolve", "route", "load", "understand"},
           req[r].pc \in {"pending", "resolve", "route"}, Go(r, pc),
           UNCHANGED <<thread, turn, refs, world>>
    PROVE  Inv'
<1> DEFINE s == [req[r] EXCEPT !.pc = pc]
<1>1. req' = [req EXCEPT ![r] = s]
  BY DEF Go
<1>2. s \in RequestState
  BY Here DEF RequestState, Stage
<1>3. s.pc = pc /\ s.calls = 0 /\ s.pass = "normal" /\ s.left = 0 /\ s.at = 0
  BY Here, NothingYet DEF RequestState, Storing, Early
<1> HIDE DEF s
<1>4. Path(s) /\ s.pc \notin Storing
  BY <1>3 DEF Path, Storing
<1> QED BY <1>1, <1>2, <1>3, <1>4, Stays

(* A plan goes on with its next step, or the request to its answer.        *)
LEMMA AdvanceKeeps ==
    ASSUME Inv, NEW r \in Request, req[r].pc \in {"act", "remember", "insert"},
           Advance(r), UNCHANGED turn, RowsTyped', OneDefault'
    PROVE  Inv'
<1>1. CASE StepsLeft(r) = 0
  BY <1>1, ReplyKeeps DEF Advance
<1>2. CASE StepsLeft(r) # 0
  <2> DEFINE s == [req[r] EXCEPT !.pc = "step", !.left = StepsLeft(r), !.on = None]
  <2>1. req' = [req EXCEPT ![r] = s]
    BY <1>2 DEF Advance
  <2>2. req[r] \in RequestState /\ Path(req[r]) /\ req[r].at = 0
    BY Here DEF Storing
  <2>3. StepsLeft(r) \in Nat /\ StepsLeft(r) > 0 /\ req[r].left > 0
    BY <1>2, <2>2 DEF StepsLeft, IsPlan, RequestState
  <2>4. s \in RequestState /\ s.pc = "step" /\ s.at = 0
    BY <2>2, <2>3 DEF RequestState, Stage
  <2>5. Path(s)
    BY <2>2, <2>3 DEF Path, RequestState, Early
  <2> HIDE DEF s
  <2> QED BY <2>1, <2>4, <2>5, Moves DEF Storing
<1> QED BY <1>1, <1>2

(* An action is done: a record it touched is remembered first.             *)
LEMMA DoneKeeps ==
    ASSUME Inv, NEW r \in Request, req[r].pc = "act", NEW e, Done(r, e),
           UNCHANGED turn, RowsTyped', OneDefault'
    PROVE  Inv'
<1>1. CASE e = None
  BY <1>1, AdvanceKeeps DEF Done
<1>2. CASE e # None
  <2> DEFINE s == [req[r] EXCEPT !.pc = "remember", !.kind = "entity"]
  <2>1. req' = [req EXCEPT ![r] = s]
    BY <1>2 DEF Done
  <2>2. req[r] \in RequestState /\ Path(req[r]) /\ req[r].at = 0
    BY Here DEF Storing
  <2>3. s \in RequestState /\ s.pc = "remember" /\ s.at = 0
    BY <2>2 DEF RequestState, Stage, RefKind
  <2>4. Path(s)
    BY <2>2 DEF Path, RequestState, Early
  <2> HIDE DEF s
  <2> QED BY <2>1, <2>3, <2>4, Moves DEF Storing
<1> QED BY <1>1, <1>2

(* A reference has been written, or could not be.                          *)
LEMMA OnwardKeeps ==
    ASSUME Inv, NEW r \in Request, req[r].pc \in {"remember", "insert"},
           NEW lost \in BOOLEAN, Onward(r, lost),
           UNCHANGED turn, RowsTyped', OneDefault'
    PROVE  Inv'
<1>1. CASE req[r].kind = "prior"
  BY <1>1, EndKeeps DEF Onward
<1>2. CASE req[r].kind # "prior" /\ lost
  BY <1>2, ReplyKeeps DEF Onward
<1>3. CASE req[r].kind # "prior" /\ ~lost
  BY <1>3, AdvanceKeeps DEF Onward
<1> QED BY <1>1, <1>2, <1>3

-----------------------------------------------------------------------------
(* The steps of a request.                                                 *)

(* From the request to its stored question.                                *)
LEMMA ArriveKeeps ==
    ASSUME Inv, NEW r \in Request, Arrive(r)
    PROVE  Inv'
<1>0. req[r] \in RequestState /\ Path(req[r]) /\ (req[r].pc \notin Storing => req[r].at = 0)
  BY Here
<1>1. CASE AskFirst(r)
  <2>1. PICK asked \in BOOLEAN :
           req' = [req EXCEPT ![r] = [Quiet EXCEPT !.pc = "thread", !.asked = asked]]
    BY <1>1 DEF AskFirst
  <2> DEFINE s == [Quiet EXCEPT !.pc = "thread", !.asked = asked]
  <2>2. s \in RequestState /\ Path(s) /\ s.pc \notin Storing /\ s.at = 0
    <3>1. s \in RequestState
      BY QuietState DEF Quiet, RequestState, Stage
    <3>2. s.pc = "thread" /\ s.calls = 0 /\ s.pass = "normal" /\ s.left = 0 /\ s.at = 0
      BY DEF Quiet
    <3> HIDE DEF s
    <3> QED BY <3>1, <3>2, PlainPath DEF Storing
  <2> HIDE DEF s
  <2> QED BY <1>1, <2>1, <2>2, Stays DEF AskFirst, s
<1>2. CASE LoseDefault(r)
  <2>1. PICK t \in Default :
           req' = [req EXCEPT ![r].pc = "context", ![r].thread = t, ![r].lost = TRUE]
    BY <1>2 DEF LoseDefault
  <2> DEFINE s == [req[r] EXCEPT !.pc = "context", !.thread = t, !.lost = TRUE]
  <2>2. req' = [req EXCEPT ![r] = s]
    BY <2>1
  <2>3. t \in Thread /\ req[r].pc = "thread"
    BY <1>2 DEF LoseDefault, Default, At
  <2>4. s \in RequestState /\ Path(s) /\ s.pc \notin Storing /\ s.at = 0
    <3>1. s \in RequestState
      BY <1>0, <2>3 DEF RequestState, Stage
    <3>2. s.pc = "context" /\ s.calls = 0 /\ s.pass = "normal" /\ s.left = 0 /\ s.at = 0
      BY <1>0, <2>3, NothingYet DEF RequestState, Storing, Early
    <3> HIDE DEF s
    <3> QED BY <3>1, <3>2, PlainPath DEF Storing
  <2> HIDE DEF s
  <2> QED BY <1>2, <2>2, <2>4, Stays DEF LoseDefault
<1>3. CASE StoreQuestion(r)
  BY <1>3, Stores DEF StoreQuestion, At, Storing
<1>4. CASE LookForPlan(r)
  <2>1. RowsTyped' /\ OneDefault' /\ UNCHANGED <<thread, turn, refs, world>> /\ req[r].pc = "pending"
    BY <1>4, Untouched DEF LookForPlan, At
  <2>2. End(r) \/ Go(r, "resolve") \/ Reply(r, FALSE)
    BY <1>4 DEF LookForPlan
  <2> QED BY <2>1, <2>2, EndKeeps, GoKeeps, ReplyKeeps
<1>5. ASSUME NEW t \in Thread, Ask(r, t)
      PROVE  Inv'
  <2>1. PICK asked \in BOOLEAN :
           req' = [req EXCEPT ![r] = [Quiet EXCEPT !.pc = "context", !.thread = t, !.asked = asked]]
    BY <1>5 DEF Ask
  <2> DEFINE s == [Quiet EXCEPT !.pc = "context", !.thread = t, !.asked = asked]
  <2>2. s \in RequestState /\ Path(s) /\ s.pc \notin Storing /\ s.at = 0
    <3>1. s \in RequestState
      BY QuietState DEF Quiet, RequestState, Stage
    <3>2. s.pc = "context" /\ s.calls = 0 /\ s.pass = "normal" /\ s.left = 0 /\ s.at = 0
      BY DEF Quiet
    <3> HIDE DEF s
    <3> QED BY <3>1, <3>2, PlainPath DEF Storing
  <2> HIDE DEF s
  <2> QED BY <1>5, <2>1, <2>2, Stays DEF Ask, s
<1>6. ASSUME NEW t \in Thread, CreateDefault(r, t)
      PROVE  Inv'
  <2> DEFINE s == [req[r] EXCEPT !.pc = "context", !.thread = t]
  <2>1. req' = [req EXCEPT ![r] = s] /\ req[r].pc = "thread"
    BY <1>6 DEF CreateDefault, At
  <2>2. s \in RequestState /\ Path(s) /\ s.pc \notin Storing /\ s.at = 0
    <3>1. s \in RequestState
      BY <1>0, <2>1 DEF RequestState, Stage
    <3>2. s.pc = "context" /\ s.calls = 0 /\ s.pass = "normal" /\ s.left = 0 /\ s.at = 0
      BY <1>0, <2>1, NothingYet DEF RequestState, Storing, Early
    <3> HIDE DEF s
    <3> QED BY <3>1, <3>2, PlainPath DEF Storing
  <2> HIDE DEF s
  <2>3. /\ thread' = [thread EXCEPT ![t] = "default"] /\ Default = {}
        /\ UNCHANGED <<turn, refs, world>>
    BY <1>6 DEF CreateDefault
  <2>4. RowsTyped'
    BY <2>3 DEF Inv, TypeOK, RowsTyped
  <2>5. OneDefault'
    BY <2>3 DEF Inv, TypeOK, OneDefault, Default
  <2> QED BY <2>1, <2>2, <2>3, <2>4, <2>5, Moves
<1>7. ASSUME NEW n \in Turn, ReadContext(r, n)
      PROVE  Inv'
  BY <1>7, Takes DEF ReadContext, At, Storing
<1> QED BY <1>1, <1>2, <1>3, <1>4, <1>5, <1>6, <1>7 DEF Arrive

Source == {"none", "trusted", "retrieved"}
Pass == {"normal", "retrieved", "recovery"}

(* A call is counted.                                                      *)
LEMMA CalledTyped ==
    ASSUME NEW q \in RequestState, NEW calls \in Nat
    PROVE  [q EXCEPT !.calls = calls] \in RequestState
BY DEF RequestState

(* The pass that follows a clarification.                                  *)
LEMMA PassTyped ==
    ASSUME NEW q \in RequestState, NEW pass \in Pass
    PROVE  [q EXCEPT !.pass = pass] \in RequestState
BY DEF RequestState, Pass

(* The pass that has personal context.                                     *)
LEMMA RetrievedTyped ==
    ASSUME NEW q \in RequestState, NEW seen \in SUBSET Entity, NEW source \in Source,
           NEW pass \in Pass
    PROVE  [q EXCEPT !.seen = seen, !.source = source, !.pass = pass] \in RequestState
BY DEF RequestState, Source, Pass

(* A proposal.                                                             *)
LEMMA ProposalTyped ==
    ASSUME NEW q \in RequestState, NEW pc \in Stage, NEW acts \in SUBSET Act,
           NEW left \in Nat, NEW calls \in Nat, NEW pass \in Pass
    PROVE  [q EXCEPT !.pc = pc, !.acts = acts, !.left = left, !.calls = calls, !.pass = pass]
              \in RequestState
BY DEF RequestState, Pass

(* A grounded action.                                                      *)
LEMMA GroundedTyped ==
    ASSUME NEW q \in RequestState, NEW act \in Act, NEW on \in Entity \cup {None},
           NEW seen \in SUBSET Entity, NEW source \in Source, NEW pc \in Stage,
           NEW kind \in RefKind
    PROVE  [q EXCEPT !.act = act, !.on = on, !.seen = seen, !.source = source,
                     !.pc = pc, !.kind = kind] \in RequestState
BY DEF RequestState, Source

(* Routing and understanding: a call is counted, and none is made beyond   *)
(* one retrieval and one recovery.                                         *)
LEMMA ChooseKeeps ==
    ASSUME Inv, NEW r \in Request, Choose(r)
    PROVE  Inv'
<1>0. req[r] \in RequestState /\ Path(req[r]) /\ (req[r].pc \notin Storing => req[r].at = 0)
  BY Here
<1>u. UNCHANGED <<thread, turn, refs, world>>
  BY DEF Choose, Recognize, RecognizeReference, RecognizeNothing, LookUp, FollowUp, LookUpFails,
         Route, LoadWorld, Retrieve, Recover, ProviderAnswers, ProviderProposes, ProviderProposesPlan
<1>w. RowsTyped' /\ OneDefault' /\ UNCHANGED turn
  BY <1>u, Untouched
<1>1. CASE Recognize(r)
  <2>1. PICK act \in {"list", "create", "remember"} :
           req' = [req EXCEPT ![r].pc = "proposed", ![r].acts = {act}]
    BY <1>1 DEF Recognize
  <2> DEFINE s == [req[r] EXCEPT !.pc = "proposed", !.acts = {act}]
  <2>2. req' = [req EXCEPT ![r] = s] /\ req[r].pc = "resolve"
    BY <1>1, <2>1 DEF Recognize, At
  <2>3. s \in RequestState /\ Path(s) /\ s.pc \notin Storing /\ s.at = 0
    <3>1. s \in RequestState
      BY <1>0, <2>2 DEF RequestState, Stage, Act
    <3>2. s.pc = "proposed" /\ s.calls = 0 /\ s.pass = "normal" /\ s.left = 0 /\ s.at = 0
      BY <1>0, <2>2, NothingYet DEF RequestState, Storing, Early
    <3> HIDE DEF s
    <3> QED BY <3>1, <3>2, PlainPath DEF Storing
  <2> HIDE DEF s
  <2> QED BY <1>u, <2>2, <2>3, Stays
<1>2. CASE RecognizeReference(r)
  BY <1>2, <1>u, GoKeeps DEF RecognizeReference, At
<1>3. CASE RecognizeNothing(r)
  BY <1>3, <1>u, GoKeeps DEF RecognizeNothing, At
<1>4. ASSUME req[r].pc = "resolve", LookedUp(r)
      PROVE  Inv'
  <2> DEFINE s == [req[r] EXCEPT !.pc = "remember", !.kind = "live"]
  <2>1. req' = [req EXCEPT ![r] = s] /\ req[r].pc = "resolve"
    BY <1>4 DEF LookedUp
  <2>2. s \in RequestState /\ Path(s) /\ s.pc \notin Storing /\ s.at = 0
    <3>1. s \in RequestState
      BY <1>0, <2>1 DEF RequestState, Stage, RefKind
    <3>2. s.pc = "remember" /\ s.calls = 0 /\ s.pass = "normal" /\ s.left = 0 /\ s.at = 0
      BY <1>0, <2>1, NothingYet DEF RequestState, Storing, Early
    <3> HIDE DEF s
    <3> QED BY <3>1, <3>2, PlainPath DEF Storing
  <2> HIDE DEF s
  <2> QED BY <1>u, <2>1, <2>2, Stays
<1>a. CASE LookUp(r) \/ FollowUp(r)
  <2>1. req[r].pc = "resolve" /\ (LookedUp(r) \/ Reply(r, FALSE))
    BY <1>a DEF LookUp, FollowUp, At
  <2> QED BY <2>1, <1>4, <1>w, ReplyKeeps
<1>5. CASE LookUpFails(r) \/ ProviderAnswers(r)
  BY <1>5, <1>w, ReplyKeeps DEF LookUpFails, ProviderAnswers
<1>6. CASE Route(r)
  <2>1. req[r].pc = "route" /\ (Go(r, "understand") \/ Reply(r, FALSE))
    BY <1>6 DEF Route, At
  <2> QED BY <2>1, <1>u, <1>w, GoKeeps, ReplyKeeps
<1>7. CASE LoadWorld(r)
  <2> DEFINE loaded == [req[r] EXCEPT !.seen = Open, !.source = "trusted"]
  <2>0. loaded \in RequestState /\ loaded.source = "trusted" /\ loaded.at = 0 /\ loaded.calls = 0
        /\ loaded.pass = "normal" /\ loaded.left = 0 /\ req[r].pc = "load"
    BY <1>0, <1>7 DEF LoadWorld, At, RequestState, Path, Open, Storing, Early
  <2>1. CASE Reply(r, FALSE)
    BY <2>1, <1>w, ReplyKeeps
  <2>2. CASE req' = [req EXCEPT ![r] = [loaded EXCEPT !.pc = "understand"]]
    <3> HIDE DEF loaded
    <3> DEFINE s == [loaded EXCEPT !.pc = "understand"]
    <3>1. s \in RequestState /\ Path(s) /\ s.pc \notin Storing /\ s.at = 0
      BY <2>0 DEF RequestState, Stage, Path, Storing
    <3> HIDE DEF s
    <3> QED BY <1>u, <2>2, <3>1, Stays DEF s
  <2>3. ASSUME NEW e \in Entity \cup {None}, NEW act \in {"update", "archive", "create", "list"},
               req' = [req EXCEPT ![r] = [loaded EXCEPT !.pc = "act", !.act = act, !.on = e]]
        PROVE  Inv'
    <3> HIDE DEF loaded
    <3> DEFINE s == [loaded EXCEPT !.pc = "act", !.act = act, !.on = e]
    <3>1. s \in RequestState /\ s.pc = "act" /\ s.act = act /\ s.left = 0 /\ s.source = "trusted"
          /\ s.calls = 0 /\ s.pass = "normal" /\ s.at = 0
      BY <2>0 DEF RequestState, Stage, Act, Open
    <3>2. Path(s)
      BY <3>1 DEF Path, MemoryAct, Early
    <3> HIDE DEF s
    <3> QED BY <1>u, <2>3, <3>1, <3>2, Stays DEF s, Storing
  <2>4. \/ \E e \in Entity \cup {None}, act \in {"update", "archive", "create", "list"} :
              req' = [req EXCEPT ![r] = [loaded EXCEPT !.pc = "act", !.act = act, !.on = e]]
        \/ Reply(r, FALSE)
        \/ req' = [req EXCEPT ![r] = [loaded EXCEPT !.pc = "understand"]]
    <3>1. \A found \in Resolved :
             found.on \in Entity \cup {None} /\ found.act \in {"update", "archive", "create", "list"}
      BY DEF Resolved, Open
    <3>2. \/ \E found \in Resolved :
               req' = [req EXCEPT ![r] = [loaded EXCEPT !.pc = "act", !.act = found.act, !.on = found.on]]
          \/ Reply(r, FALSE)
          \/ req' = [req EXCEPT ![r] = [loaded EXCEPT !.pc = "understand"]]
      BY <1>7 DEF LoadWorld
    <3> HIDE DEF loaded
    <3> QED BY <3>1, <3>2
  <2> HIDE DEF loaded
  <2> QED BY <2>1, <2>2, <2>3, <2>4
<1>8. CASE Retrieve(r)
  <2>1. PICK some \in SUBSET Open :
           req' = [req EXCEPT ![r] = [Called(r) EXCEPT !.seen = some, !.source = "retrieved",
                                                      !.pass = "retrieved"]]
    BY <1>8 DEF Retrieve
  <2> DEFINE s == [Called(r) EXCEPT !.seen = some, !.source = "retrieved", !.pass = "retrieved"]
  <2>2. req[r].pc = "understand" /\ req[r].pass = "normal"
    BY <1>8 DEF Retrieve, At, CanRetrieve
  <2>3. s \in RequestState
    <3>1. Called(r) \in RequestState
      <4>1. req[r].calls + 1 \in Nat
        BY <1>0 DEF RequestState
      <4> QED BY <1>0, <4>1, CalledTyped DEF Called
    <3>2. some \in SUBSET Entity
      BY DEF Open
    <3> QED BY <3>1, <3>2, RetrievedTyped DEF Source, Pass
  <2>4. Path(s) /\ s.pc \notin Storing /\ s.at = 0
    BY <1>0, <2>2 DEF Called, RequestState, Path, Storing, Early
  <2> HIDE DEF s
  <2> QED BY <1>u, <2>1, <2>3, <2>4, Stays DEF s
<1>9. CASE Recover(r)
  <2> DEFINE s == [Called(r) EXCEPT !.pass = "recovery"]
  <2>1. req' = [req EXCEPT ![r] = s] /\ req[r].pc = "understand" /\ req[r].pass # "recovery"
    BY <1>9 DEF Recover, At, CanRecover
  <2>2. s \in RequestState
    <3>1. Called(r) \in RequestState
      <4>1. req[r].calls + 1 \in Nat
        BY <1>0 DEF RequestState
      <4> QED BY <1>0, <4>1, CalledTyped DEF Called
    <3> QED BY <3>1, PassTyped DEF Pass
  <2>3. Path(s) /\ s.pc \notin Storing /\ s.at = 0
    BY <1>0, <2>1 DEF Called, RequestState, Path, Storing, Early
  <2> HIDE DEF s
  <2> QED BY <1>u, <2>1, <2>2, <2>3, Stays
<1>10. ASSUME NEW acts \in SUBSET Act, NEW left \in {0, 2}, req[r].pc = "understand",
              req' = [req EXCEPT ![r] = Understood(r, acts, left)]
       PROVE  Inv'
  <2> DEFINE s == Understood(r, acts, left)
  <2>1. s \in RequestState
    <3>1. "proposed" \in Stage /\ "normal" \in Pass /\ 0 \in Nat /\ left \in Nat
      BY DEF Stage, Pass
    <3> QED BY <1>0, <3>1, ProposalTyped DEF Understood
  <2>2. Path(s) /\ s.pc \notin Storing /\ s.at = 0
    BY <1>0, <1>10 DEF Understood, RequestState, Path, Storing, Early
  <2> HIDE DEF s
  <2> QED BY <1>u, <1>10, <2>1, <2>2, Stays DEF s
<1>11. CASE ProviderProposes(r)
  <2>1. PICK act \in Act : req' = [req EXCEPT ![r] = Understood(r, {act}, 0)]
    BY <1>11 DEF ProviderProposes
  <2> QED BY <1>11, <2>1, <1>10 DEF ProviderProposes, At
<1>12. CASE ProviderProposesPlan(r)
  <2>1. PICK acts \in kSubset(2, Act \ {"status", "list"}) :
           req' = [req EXCEPT ![r] = Understood(r, acts, 2)]
    BY <1>12 DEF ProviderProposesPlan
  <2>2. acts \in SUBSET Act
    BY <2>1 DEF kSubset
  <2> QED BY <1>12, <2>1, <2>2, <1>10 DEF ProviderProposesPlan, At
<1> QED BY <1>1, <1>2, <1>3, <1>a, <1>5, <1>6, <1>7, <1>8, <1>9, <1>11, <1>12 DEF Choose

(* Gates and grounding: what they let through may run.                     *)
LEMMA DecideKeeps ==
    ASSUME Inv, NEW r \in Request, Decide(r)
    PROVE  Inv'
<1>0. req[r] \in RequestState /\ Path(req[r]) /\ (req[r].pc \notin Storing => req[r].at = 0)
  BY Here
<1>u. UNCHANGED <<thread, turn, refs, world>>
  BY DEF Decide, Deny, Ground, GroundNothing, Compile, Verify, Step, StepFails
<1>w. RowsTyped' /\ OneDefault' /\ UNCHANGED turn
  BY <1>u, Untouched
<1>1. CASE Deny(r) \/ GroundNothing(r) \/ StepFails(r)
  BY <1>1, <1>w, ReplyKeeps DEF Deny, GroundNothing, StepFails
<1>2. ASSUME req[r].pc = "proposed", ~Denied(r), ToVerify(r),
             IsPlan(r) \/ "forget" \in req[r].acts
      PROVE  Inv'
  <2> DEFINE s == [req[r] EXCEPT !.pc = "verify", !.seen = {}, !.source = "none"]
  <2>1. req' = [req EXCEPT ![r] = s]
    BY <1>2 DEF ToVerify
  <2>2. s \in RequestState
    BY <1>0 DEF RequestState, Stage
  <2>3. Path(s) /\ s.pc \notin Storing /\ s.at = 0
    BY <1>0, <1>2 DEF Path, Storing, Early, Denied, IsPlan
  <2> HIDE DEF s
  <2> QED BY <1>u, <2>1, <2>2, <2>3, Stays
<1>3. CASE Compile(r)
  BY <1>2, <1>3 DEF Compile, At
<1>4. CASE Ground(r)
  <2>0. req[r].pc = "proposed" /\ ~Denied(r) /\ ~IsPlan(r)
    BY <1>4 DEF Ground, At
  <2>1. PICK act \in req[r].acts :
          \/ act # "forget" /\ \E e \in Meant(r, act) : req' = [req EXCEPT ![r] = Grounded(r, act, e)]
          \/ act = "forget" /\ World(r, act) # {} /\ ToVerify(r)
    BY <1>4 DEF Ground
  <2>2. CASE act = "forget"
    BY <2>0, <2>1, <2>2, <1>2
  <2>3. CASE act # "forget"
    <3>1. PICK e \in Meant(r, act) : req' = [req EXCEPT ![r] = Grounded(r, act, e)]
      BY <2>1, <2>3
    <3> DEFINE s == Grounded(r, act, e)
    <3>2. act \in Act /\ req[r].seen \in SUBSET Entity
      BY <1>0 DEF RequestState
    <3>3. e \in Entity \cup {None} /\ (e # None => act \in Referring)
      BY <3>2 DEF Meant, World, Open
    <3>4. s \in RequestState
      <4>1. PICK source : source = IF Reads(r, act) THEN "trusted" ELSE req[r].source
        OBVIOUS
      <4>2. PICK pc : pc = IF act = "status" THEN "remember" ELSE "act"
        OBVIOUS
      <4>3. source \in Source /\ pc \in Stage /\ "entity" \in RefKind /\ {} \in SUBSET Entity
        BY <1>0, <4>1, <4>2 DEF RequestState, Source, Stage, RefKind
      <4>4. s = [req[r] EXCEPT !.act = act, !.on = e, !.seen = {}, !.source = source,
                               !.pc = pc, !.kind = "entity"]
        BY <1>0, <4>1, <4>2 DEF Grounded
      <4> HIDE DEF s
      <4> QED BY <1>0, <3>2, <3>3, <4>3, <4>4, GroundedTyped
    <3>5. /\ s.pc \in {"remember", "act"} /\ s.act = act /\ s.on = e /\ s.at = 0
          /\ s.left = req[r].left /\ s.calls = 0 /\ s.pass = "normal" /\ s.asked = req[r].asked
          /\ e # None => s.source = "trusted"
      BY <1>0, <2>0, <3>3 DEF Grounded, Reads, RequestState, Path, Storing, Referring
    <3>6. s.left = 0
      BY <1>0, <2>0, <3>5 DEF IsPlan, RequestState
    <3>7. act \in MemoryAct => req[r].asked
      BY <2>0, <2>1 DEF Denied
    <3> HIDE DEF s
    <3>8. Path(s)
      BY <2>3, <3>5, <3>6, <3>7 DEF Path, Early
    <3> QED BY <1>u, <3>1, <3>4, <3>5, <3>8, Stays DEF s, Storing
  <2> QED BY <2>2, <2>3
<1>5. CASE Verify(r)
  <2>1. CASE Reply(r, FALSE)
    BY <2>1, <1>w, ReplyKeeps
  <2>2. CASE ~NeedsConfirmation(r) /\ Go(r, "step")
    <3> DEFINE s == [req[r] EXCEPT !.pc = "step"]
    <3>1. req' = [req EXCEPT ![r] = s] /\ req[r].pc = "verify"
      BY <1>5, <2>2 DEF Go, Verify, At
    <3>2. req[r].acts \cap ToConfirm = {} /\ "forget" \notin req[r].acts
      BY <2>2 DEF NeedsConfirmation, ToConfirm
    <3>3. s \in RequestState
      BY <1>0 DEF RequestState, Stage
    <3>4. Path(s) /\ s.pc \notin Storing /\ s.at = 0
      BY <1>0, <3>1, <3>2 DEF Path, Storing, Early
    <3> HIDE DEF s
    <3> QED BY <1>u, <3>1, <3>3, <3>4, Stays
  <2> QED BY <1>5, <2>1, <2>2 DEF Verify
<1>6. CASE Step(r)
  <2>1. PICK act \in req[r].acts, e \in Entity \cup {None} :
           /\ e # None => act \in Referring
           /\ req' = [req EXCEPT ![r] = [@ EXCEPT !.pc = "act", !.act = act, !.on = e, !.seen = {},
                        !.source = IF act = "remember" THEN req[r].source ELSE "trusted", !.kind = "entity"]]
    BY <1>6 DEF Step, Open
  <2> DEFINE s == [req[r] EXCEPT !.pc = "act", !.act = act, !.on = e, !.seen = {},
                        !.source = IF act = "remember" THEN req[r].source ELSE "trusted", !.kind = "entity"]
  <2>2. req' = [req EXCEPT ![r] = s] /\ req[r].pc = "step"
    BY <1>6, <2>1 DEF Step, At
  <2>3. act \in Act
    BY <1>0 DEF RequestState
  <2>4. s \in RequestState
    <3>1. PICK source : source = IF act = "remember" THEN req[r].source ELSE "trusted"
      OBVIOUS
    <3>2. source \in Source /\ "act" \in Stage /\ "entity" \in RefKind /\ {} \in SUBSET Entity
      BY <1>0, <3>1 DEF RequestState, Source, Stage, RefKind
    <3>3. s = [req[r] EXCEPT !.act = act, !.on = e, !.seen = {}, !.source = source,
                             !.pc = "act", !.kind = "entity"]
      BY <1>0, <3>1
    <3> HIDE DEF s
    <3> QED BY <1>0, <2>3, <3>2, <3>3, GroundedTyped
  <2>5. /\ req[r].left > 0 /\ req[r].acts \cap ToConfirm = {} /\ act # "forget"
        /\ act \in MemoryAct => req[r].asked
    <3>1. req[r].left > 0 /\ req[r].acts \cap ToConfirm = {}
      BY <1>0, <2>2 DEF Path
    <3>2. req[r].acts \cap MemoryAct # {} => req[r].asked
      BY <1>0, <2>2, <3>1 DEF Path
    <3> QED BY <3>1, <3>2 DEF ToConfirm
  <2>6. e # None => s.source = "trusted"
    BY <1>0, <2>1 DEF RequestState, Referring
  <2>7. /\ s.pc = "act" /\ s.act = act /\ s.on = e /\ s.at = 0 /\ s.left = req[r].left
        /\ s.acts = req[r].acts /\ s.asked = req[r].asked /\ s.calls = 0 /\ s.pass = "normal"
    BY <1>0, <2>2 DEF RequestState, Path, Storing
  <2>8. req[r].acts \cap MemoryAct # {} => req[r].asked
    BY <1>0, <2>2, <2>5 DEF Path
  <2> HIDE DEF s
  <2>9. Path(s)
    BY <2>5, <2>6, <2>7, <2>8 DEF Path, Early
  <2> QED BY <1>u, <2>2, <2>4, <2>7, <2>9, Stays DEF Storing
<1> QED BY <1>1, <1>3, <1>4, <1>5, <1>6 DEF Decide

(* Acting, remembering and answering.                                      *)
LEMMA ConcludeKeeps ==
    ASSUME Inv, NEW r \in Request, Conclude(r)
    PROVE  Inv'
<1>1. CASE Change(r)
  <2>1. /\ req[r].pc = "act" /\ Done(r, req[r].on) /\ UNCHANGED <<thread, turn, refs>>
        /\ world' = [world EXCEPT ![req[r].on] = "closed"]
    BY <1>1 DEF Change, At
  <2>2. RowsTyped' /\ OneDefault'
    BY <2>1 DEF Inv, TypeOK, RowsTyped, OneDefault, Default
  <2> QED BY <2>1, <2>2, DoneKeeps
<1>2. CASE ChangeTooLate(r)
  <2>1. req[r].pc = "act" /\ UNCHANGED <<thread, turn, refs, world>>
    BY <1>2 DEF ChangeTooLate, At
  <2>2. Done(r, req[r].on) \/ Reply(r, FALSE) \/ End(r)
    BY <1>2 DEF ChangeTooLate
  <2>3. RowsTyped' /\ OneDefault'
    BY <2>1, Untouched
  <2> QED BY <2>1, <2>2, <2>3, DoneKeeps, ReplyKeeps, EndKeeps
<1>3. CASE Create(r)
  <2>1. /\ req[r].pc = "act" /\ UNCHANGED <<thread, turn, refs>>
        /\ \/ \E e \in Entity : world' = [world EXCEPT ![e] = "open"] /\ Done(r, e)
           \/ Done(r, None) /\ UNCHANGED world
    BY <1>3 DEF Create, At
  <2>2. OneDefault'
    BY <2>1 DEF Inv, OneDefault, Default
  <2>3. RowsTyped'
    BY <2>1 DEF Inv, TypeOK, RowsTyped
  <2> QED BY <2>1, <2>2, <2>3, DoneKeeps
<1>a. CASE CreateRefused(r)
  BY <1>a, Untouched, ReplyKeeps DEF CreateRefused
<1>4. CASE Show(r)
  <2>1. PICK e \in Entity \cup {None} : Done(r, e)
    BY <1>4 DEF Show, Open
  <2>a. req[r].pc = "act" /\ UNCHANGED <<thread, turn, refs, world>>
    BY <1>4 DEF Show, At
  <2>2. RowsTyped' /\ OneDefault'
    BY <2>a, Untouched
  <2> QED BY <2>1, <2>a, <2>2, DoneKeeps
<1>5. CASE Remember(r)
  <2>1. req[r].pc = "remember" /\ UNCHANGED <<thread, turn, refs, world>>
    BY <1>5 DEF Remember, At
  <2>2. RowsTyped' /\ OneDefault'
    BY <2>1, Untouched
  <2>3. CASE Onward(r, FALSE)
    BY <2>1, <2>2, <2>3, OnwardKeeps
  <2>4. CASE Go(r, "insert")
    <3> DEFINE s == [req[r] EXCEPT !.pc = "insert"]
    <3>1. req' = [req EXCEPT ![r] = s]
      BY <2>4 DEF Go
    <3>2. s \in RequestState
      BY Here DEF RequestState, Stage
    <3>3. Path(req[r]) /\ req[r].at = 0
      BY <2>1, Here DEF Storing
    <3>4. Path(s) /\ s.pc \notin Storing /\ s.at = 0
      BY <2>1, <3>3, Here DEF RequestState, Path, Storing, Early
    <3> HIDE DEF s
<3> QED BY <2>1, <3>1, <3>2, <3>4, Stays
  <2> QED BY <1>5, <2>3, <2>4 DEF Remember
<1>6. CASE InsertReference(r)
  <2>1. /\ req[r].pc = "insert" /\ Onward(r, FALSE) /\ UNCHANGED <<thread, turn, world>>
        /\ refs' = [refs EXCEPT ![req[r].thread] = @ \cup {req[r].kind}]
    BY <1>6 DEF InsertReference, At
  <2>2. OneDefault'
    BY <2>1 DEF Inv, OneDefault, Default
  <2>3. RowsTyped'
    <3>1. req[r].kind \in RefKind
      BY Here DEF RequestState
    <3> QED BY <2>1, <3>1 DEF Inv, TypeOK, RowsTyped
  <2> QED BY <2>1, <2>2, <2>3, OnwardKeeps
<1>7. CASE LoseInsert(r)
  <2>1. req[r].pc = "insert" /\ Onward(r, TRUE) /\ UNCHANGED <<thread, turn, refs, world>>
    BY <1>7 DEF LoseInsert, At
  <2>2. RowsTyped' /\ OneDefault'
    BY <2>1, Untouched
  <2> QED BY <2>1, <2>2, OnwardKeeps
<1>8. CASE AnswerIsLost(r)
  BY <1>8, Untouched, EndKeeps DEF AnswerIsLost
<1>9. CASE StoreAnswer(r)
  BY <1>9, Stores DEF StoreAnswer, At, Storing
<1>10. ASSUME NEW n \in Turn, Answer(r, n)
       PROVE  Inv'
  BY <1>10, Takes DEF Answer, At, Storing
<1> QED BY <1>1, <1>2, <1>3, <1>a, <1>4, <1>5, <1>6, <1>7, <1>8, <1>9, <1>10 DEF Conclude, Execute

-----------------------------------------------------------------------------
(* The invariant and what follows from it.                                 *)

(* It holds of a user without a conversation.                              *)
LEMMA InvInit == Init => Inv
<1> SUFFICES ASSUME Init PROVE Inv
  OBVIOUS
<1>1. TypeOK
  BY QuietState DEF Init, TypeOK
<1>2. Paths /\ Holdings
  BY QuietState DEF Init, Paths, Holdings, Holding
<1>3. \A t : Stored(t) = {} /\ Gone(t) = {}
  BY DEF Init, Stored, Gone
<1>4. Cardinality({}) = 0 /\ StoredTurns \in Nat
  BY FS_EmptySet, TurnAssumption
<1>5. Kept
  BY <1>3, <1>4 DEF Kept
<1>6. OneDefault
  BY DEF Init, OneDefault, Default
<1> QED BY <1>1, <1>2, <1>5, <1>6 DEF Inv

(* Every step keeps it.                                                    *)
LEMMA InvNext == Inv /\ [Next]_vars => Inv'
<1> SUFFICES ASSUME Inv, [Next]_vars PROVE Inv'
  OBVIOUS
<1>1. ASSUME NEW r \in Request, Arrive(r) \/ Choose(r) \/ Decide(r) \/ Conclude(r) \/ Die(r)
      PROVE  Inv'
  BY <1>1, ArriveKeeps, ChooseKeeps, DecideKeeps, ConcludeKeeps, Dies
<1>2. ASSUME UNCHANGED <<turn, req>>, RowsTyped', OneDefault'
      PROVE  Inv'
  <2>1. TypeOK' /\ Paths' /\ Holdings'
    BY <1>2 DEF Inv, TypeOK, RowsTyped, Paths, Holdings, Holding
  <2>2. Kept'
    BY <1>2 DEF Inv, Kept, Stored, Gone
  <2> QED BY <1>2, <2>1, <2>2 DEF Inv
<1>3. ASSUME NEW t \in Thread, CreateThread(t)
      PROVE  Inv'
  <2>1. RowsTyped' /\ OneDefault'
    BY <1>3 DEF CreateThread, Inv, TypeOK, RowsTyped, OneDefault, Default
  <2> QED BY <1>2, <1>3, <2>1 DEF CreateThread
<1>4. ASSUME NEW e \in Entity, Elsewhere(e)
      PROVE  Inv'
  <2>1. OneDefault' /\ UNCHANGED <<thread, turn, refs, req>>
    BY <1>4 DEF Elsewhere, Inv, OneDefault, Default
  <2>2. RowsTyped'
    BY <1>4 DEF Elsewhere, Inv, TypeOK, RowsTyped
  <2> QED BY <1>2, <2>1, <2>2
<1>5. CASE UNCHANGED vars
  BY <1>2, <1>5, Untouched DEF vars
<1> QED BY <1>1, <1>3, <1>4, <1>5 DEF Next

(* It is therefore an invariant.                                           *)
LEMMA InvAlways == Spec => []Inv
BY InvInit, InvNext, PTL DEF Spec

(* The rows of a conversation and the requests on it keep their types.     *)
THEOREM TypeCorrect == Spec => []TypeOK
<1>1. Inv => TypeOK
  BY DEF Inv
<1> QED BY <1>1, InvAlways, PTL

(* add_turn under concurrent turns: a thread holds the newest StoredTurns  *)
(* of all turns ever committed to it, and there is one default thread.     *)
THEOREM ConversationStays == Spec => []ConversationIsKept
<1>1. Inv => ConversationIsKept
  <2> SUFFICES ASSUME Inv PROVE ConversationIsKept
    OBVIOUS
  <2>1. Cardinality(Default) <= 1
    <3>1. CASE Default = {}
      BY <3>1, FS_EmptySet
    <3>2. CASE Default # {}
      <4>1. PICK t : Default = {t}
        BY <3>2 DEF Inv, OneDefault
      <4> QED BY <4>1, FS_Singleton
    <3> QED BY <3>1, <3>2
  <2> QED BY <2>1 DEF Inv, Kept, Gone, ConversationIsKept
<1> QED BY <1>1, InvAlways, PTL

(* The understanding loop: its budget of three passes is never exhausted.  *)
THEOREM PassesAreEnough == Spec => []PassesSuffice
<1>1. Inv => PassesSuffice
  <2> SUFFICES ASSUME Inv, NEW r \in Request
               PROVE  req[r].calls <= 3 /\ (At(r, "understand") => req[r].calls <= 2)
    BY DEF PassesSuffice
  <2>1. req[r].calls \in Nat /\ req[r].calls <= 2
    BY Here DEF RequestState, Path
  <2> QED BY <2>1
<1> QED BY <1>1, InvAlways, PTL

(* The gates of service.py: on every path to an action, what runs was      *)
(* asked for, needs no confirmation and means a record of the whole world. *)
THEOREM NothingIsUnasked == Spec => []NothingUnasked
<1>1. Inv => NothingUnasked
  <2> SUFFICES ASSUME Inv, NEW r \in Request, At(r, "act")
               PROVE  /\ req[r].act \in MemoryAct => req[r].asked
                      /\ req[r].act # "forget"
                      /\ IsPlan(r) => req[r].act \notin ToConfirm
                      /\ req[r].on # None => req[r].source = "trusted"
    BY DEF NothingUnasked
  <2>1. Path(req[r])
    BY Here
  <2>2. IsPlan(r) => req[r].act \in req[r].acts /\ req[r].acts \cap ToConfirm = {}
    BY <2>1 DEF Path, IsPlan, At
  <2> QED BY <2>1, <2>2 DEF Path, At
<1> QED BY <1>1, InvAlways, PTL

=============================================================================
