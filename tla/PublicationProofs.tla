---------------------------- MODULE PublicationProofs ----------------------------
(*****************************************************************************)
(* Proofs about Publication, for any accounts, requests, keys, contents and  *)
(* number of concurrent calls.  A submission and a matching transaction act  *)
(* on what they read steps before; the invariant says what the locks they    *)
(* hold keep true.                                                           *)
(*****************************************************************************)
EXTENDS Publication, FiniteSetTheorems, TLAPS

Locking(c) == call[c].phase \in {"ranked", "rechecked"}

\* A row that does not exist leaves nothing behind (ON DELETE CASCADE).
RowOK(r) ==
  /\ Exists(r) => author[r] \in Users /\ content[r] \in Contents
  /\ ~Exists(r) => /\ author[r] = None /\ content[r] = None
                   /\ r \notin fresh /\ r \notin summary /\ alerts[r] = {}
  /\ alerts[r] # {} => r \in summary

\* A stored key names its request and is what the client was answered.
KeyOK(a, k) ==
  /\ key[a][k] # Unbound =>
       /\ Exists(key[a][k].request)
       /\ author[key[a][k].request] = a
       /\ content[key[a][k].request] = key[a][k].hash
       /\ answered[a][k] = key[a][k].request
  /\ answered[a][k] # None =>
       /\ state[answered[a][k]] # "unused"
       /\ Exists(answered[a][k]) => key[a][k] # Unbound

\* What a transaction read under its locks is still true.
CallOK(c) ==
  Locking(c) =>
    /\ state[call[c].request] = "open"
    /\ standing[author[call[c].request]] # "outsider"
    /\ call[c].request \notin summary
    /\ Cardinality(call[c].chosen) <= TopMatches
    /\ author[call[c].request] \notin call[c].chosen
    /\ call[c].phase = "rechecked" =>
         \A u \in call[c].chosen :
           /\ standing[u] = "mentor"
           /\ {author[call[c].request], u} \in blocked => c \in overtaken

\* The row lock of a request has one holder.
Exclusive ==
  \A c, d \in Calls :
    Locking(c) /\ Locking(d) /\ call[c].request = call[d].request => c = d

\* What a submission found under its locks is still there: the request of its
\* key, or one with its content, or none.
DraftOK(c) ==
  draft[c] # NoDraft =>
    /\ call[c] = Idle
    /\ draft[c].request # None =>
         /\ Exists(draft[c].request)
         /\ author[draft[c].request] = draft[c].author
         /\ content[draft[c].request] = draft[c].content
    /\ draft[c].request = None => Coalescing(draft[c].author, draft[c].content) = {}
    /\ draft[c].bound => /\ draft[c].key # None /\ draft[c].request # None
                         /\ key[draft[c].author][draft[c].key].request = draft[c].request

\* The advisory lock of an author has one holder.
Serialized ==
  \A c, d \in Calls :
    draft[c] # NoDraft /\ draft[d] # NoDraft /\ draft[c].author = draft[d].author => c = d

RowsOK == \A r \in Requests : RowOK(r)
KeysOK == \A a \in Users, k \in Keys : KeyOK(a, k)
CallsOK == \A c \in Calls : CallOK(c)

DraftsOK == \A c \in Calls : DraftOK(c)

\* The inductive invariant, without and with the submissions under way.
Core == TypeOK /\ RowsOK /\ KeysOK /\ CallsOK /\ Exclusive /\ NoDuplicatePublication
IInv == Core /\ DraftsOK /\ Serialized

-----------------------------------------------------------------------------

\* The parts of a call.
LEMMA CallParts ==
  ASSUME TypeOK, NEW c \in Calls
  PROVE  /\ call[c] = Idle \/ call[c] \in Call
         /\ call[c] # Idle => /\ call[c].request \in Requests /\ call[c].phase \in Phase
                              /\ call[c].chosen \in SUBSET Users
         /\ call[c] = Idle => ~Locking(c)
         /\ Locking(c) => call[c] # Idle
         /\ call[c].phase \in Phase => call[c] # Idle
BY DEF TypeOK, Call, Idle, Locking, Phase

\* The parts of a submission under way.
LEMMA DraftParts ==
  ASSUME TypeOK, NEW c \in Calls
  PROVE  /\ draft[c] # NoDraft => /\ draft[c] \in Draft /\ draft[c].author \in Users
                                  /\ draft[c].key \in Keys \cup {None}
                                  /\ draft[c].content \in Contents
                                  /\ draft[c].request \in Requests \cup {None}
         /\ draft[c] = NoDraft => draft[c].author = None /\ draft[c].request = None
BY DEF TypeOK, Draft, NoDraft

\* A request that is not locked is in nobody's hands.
LEMMA LockedIs ==
  ASSUME NEW r, ~Locked(r), NEW c \in Calls
  PROVE  /\ ~(Locking(c) /\ call[c].request = r)
         /\ draft[c].request # r
BY DEF Locked, Locking

\* The parts of a binding.
LEMMA KeyParts ==
  ASSUME TypeOK, NEW a \in Users, NEW k \in Keys
  PROVE  /\ key[a][k] = Unbound \/ key[a][k] \in Binding
         /\ key[a][k] # Unbound => /\ key[a][k].request \in Requests
                                   /\ key[a][k].hash \in Contents
         /\ key[a][k] = Unbound => key[a][k].request = None
         /\ answered[a][k] \in Requests \cup {None}
BY DEF TypeOK, Binding, Unbound

LEMMA InitInv == Init => IInv
<1> SUFFICES ASSUME Init PROVE IInv
  OBVIOUS
<1>1. TypeOK
  BY DEF Init, TypeOK, Standing
<1>2. RowsOK
  BY DEF Init, RowsOK, RowOK, Exists
<1>3. KeysOK
  BY DEF Init, KeysOK, KeyOK
<1>4. CallsOK /\ Exclusive
  BY DEF Init, CallsOK, CallOK, Exclusive, Locking, Idle
<1>5. DraftsOK /\ Serialized
  BY DEF Init, DraftsOK, DraftOK, Serialized
<1> QED BY <1>1, <1>2, <1>3, <1>4, <1>5 DEF IInv, Core, Init, NoDuplicatePublication

\* A step that leaves the calls alone, and what they read, keeps CallsOK.
LEMMA CallsFrame ==
  ASSUME TypeOK, CallsOK, Exclusive, call' = call,
         \A c \in Calls : Locking(c) =>
           /\ state'[call[c].request] = state[call[c].request]
           /\ author'[call[c].request] = author[call[c].request]
           /\ standing'[author[call[c].request]] = standing[author[call[c].request]]
           /\ call[c].request \in summary' => call[c].request \in summary
           /\ call[c].phase = "rechecked" => \A u \in call[c].chosen :
                /\ standing'[u] = standing[u]
                /\ {author[call[c].request], u} \in blocked' /\ c \notin overtaken'
                     => {author[call[c].request], u} \in blocked /\ c \notin overtaken
  PROVE  CallsOK' /\ Exclusive'
<1>1. \A c \in Calls : (Locking(c))' <=> Locking(c)
  BY DEF Locking
<1>2. ASSUME NEW c \in Calls PROVE CallOK(c)'
  BY <1>1 DEF CallsOK, CallOK
<1>3. Exclusive'
  BY <1>1 DEF Exclusive
<1> QED BY <1>2, <1>3 DEF CallsOK

\* A call c is answered with r: it is committed and does not lock anything.
LEMMA AnswerCalls ==
  ASSUME TypeOK, CallsOK, Exclusive, NEW c \in Calls, call[c] = Idle,
         NEW r \in Requests, Answer(c, r),
         \A q \in Requests : state[q] # "unused" => state'[q] = state[q] /\ author'[q] = author[q]
  PROVE  /\ CallsOK' /\ Exclusive' /\ call' \in [Calls -> Call \cup {Idle}]
         /\ draft' \in [Calls -> Draft \cup {NoDraft}]
<1>1. /\ draft' = [draft EXCEPT ![c] = NoDraft]
      /\ call' = [call EXCEPT ![c] = [phase |-> "committed", request |-> r, chosen |-> {}]]
      /\ summary' = summary /\ standing' = standing /\ blocked' = blocked
      /\ overtaken' = overtaken
  BY DEF Answer, notifications, accounts
<1>2. call' \in [Calls -> Call \cup {Idle}]
  BY <1>1 DEF TypeOK, Call, Phase
<1>3. ~Locking(c) /\ ~Locking(c)'
  BY <1>1 DEF Locking, TypeOK, Idle
<1>4. \A d \in Calls \ {c} : call'[d] = call[d]
  BY <1>1 DEF TypeOK
<1>5. \A d \in Calls : Locking(d)' <=> Locking(d)
  BY <1>3, <1>4 DEF Locking
<1>6. ASSUME NEW d \in Calls PROVE CallOK(d)'
  <2>1. CASE d = c
    BY <1>3, <2>1 DEF CallOK
  <2>2. CASE d # c /\ Locking(d)
    <3>1. call[d].request \in Requests /\ state[call[d].request] # "unused"
      BY <2>2, CallParts DEF CallsOK, CallOK
    <3>2. /\ state'[call[d].request] = state[call[d].request]
          /\ author'[call[d].request] = author[call[d].request]
      BY <3>1
    <3>3. CallOK(d) /\ call'[d] = call[d]
      BY <1>4, <2>2 DEF CallsOK
    <3> QED BY <1>1, <2>2, <3>2, <3>3 DEF CallOK, Locking
  <2>3. CASE ~Locking(d)
    BY <1>5, <2>3 DEF CallOK
  <2> QED BY <2>1, <2>2, <2>3
<1>7. Exclusive'
  BY <1>3, <1>4, <1>5 DEF Exclusive
<1>8. draft' \in [Calls -> Draft \cup {NoDraft}]
  BY <1>1 DEF TypeOK
<1> QED BY <1>2, <1>6, <1>7, <1>8 DEF CallsOK

LEMMA ReplayInv ==
  ASSUME Core, NEW c \in Calls, DraftOK(c), Replay(c)
  PROVE  Core'
<1> DEFINE a == draft[c].author
           k == draft[c].key
           r == draft[c].request
<1>1. /\ draft[c] # NoDraft /\ draft[c].bound /\ Answer(c, r) /\ UNCHANGED rows
      /\ call[c] = Idle
  BY DEF Replay, DraftOK
<1>2. /\ a \in Users /\ k \in Keys /\ k # None /\ r \in Requests
      /\ key[a][k].request = r
  BY <1>1, DraftParts DEF Core, DraftOK
<1>a. answered' = [answered EXCEPT ![a][k] = r]
  BY <1>1, <1>2 DEF Answer
<1> HIDE DEF a, k, r
<1>3. answered' = answered
  <2>1. key[a][k] # Unbound
    BY <1>2, NoneAssumption DEF Unbound
  <2>2. answered[a][k] = r
    BY <1>2, <2>1 DEF Core, KeysOK, KeyOK
  <2>3. answered \in [Users -> [Keys -> Requests \cup {None}]]
    BY DEF Core, TypeOK
  <2>4. [answered[a] EXCEPT ![k] = r] = answered[a]
    BY <1>2, <2>2, <2>3
  <2> QED BY <1>2, <1>a, <2>3, <2>4
<1>4. /\ CallsOK' /\ Exclusive' /\ call' \in [Calls -> Call \cup {Idle}]
      /\ draft' \in [Calls -> Draft \cup {NoDraft}]
  BY <1>1, <1>2, AnswerCalls DEF Core, rows
<1>b. UNCHANGED <<rows, notifications, accounts, overtaken>>
  BY <1>1 DEF Answer
<1>5. TypeOK'
  BY <1>b, <1>3, <1>4 DEF Core, TypeOK, rows, notifications, accounts
<1>6. RowsOK' /\ KeysOK' /\ NoDuplicatePublication'
  BY <1>b, <1>3 DEF Core, RowsOK, RowOK, KeysOK, KeyOK, Exists, NoDuplicatePublication,
                    rows, notifications
<1> QED BY <1>4, <1>5, <1>6 DEF Core

\* The answer r for key k of a is stored under k.
LEMMA BoundKeys ==
  ASSUME TypeOK, KeysOK, NEW c \in Calls, NEW a \in Users, NEW k \in Keys \cup {None},
         NEW h \in Contents, NEW r \in Requests,
         a = draft[c].author, k = draft[c].key, h = draft[c].content,
         Bind(c, r), Answer(c, r),
         Exists(r)', author'[r] = a, content'[r] = h,
         \A q \in Requests \ {r} : /\ state'[q] = state[q] /\ author'[q] = author[q]
                                   /\ content'[q] = content[q],
         \A b \in Users, l \in Keys : key[b][l].request = r \/ answered[b][l] = r =>
            state'[r] = state[r] /\ author'[r] = author[r] /\ content'[r] = content[r]
  PROVE  /\ KeysOK'
         /\ key' \in [Users -> [Keys -> Binding \cup {Unbound}]]
         /\ answered' \in [Users -> [Keys -> Requests \cup {None}]]
<1> DEFINE B == [request |-> r, hash |-> h]
<1>1. B \in Binding /\ B # Unbound /\ B.request = r /\ B.hash = h
  <2>1. B \in Binding /\ B.request = r /\ B.hash = h
    BY DEF Binding
  <2>2. Unbound.request = None /\ None # r
    BY NoneAssumption DEF Unbound
  <2> QED BY <2>1, <2>2
<1> HIDE DEF B
<1>2. IF k = None THEN key' = key /\ answered' = answered
      ELSE key' = [key EXCEPT ![a][k] = B] /\ answered' = [answered EXCEPT ![a][k] = r]
  BY DEF Bind, Answer, B
<1>0. /\ key \in [Users -> [Keys -> Binding \cup {Unbound}]]
      /\ answered \in [Users -> [Keys -> Requests \cup {None}]]
  BY DEF TypeOK
<1>3. key' \in [Users -> [Keys -> Binding \cup {Unbound}]]
  <2>1. CASE k = None
    BY <1>0, <1>2, <2>1
  <2>2. CASE k # None
    <3>1. key' = [key EXCEPT ![a] = [key[a] EXCEPT ![k] = B]] /\ k \in Keys
      BY <1>0, <1>2, <2>2
    <3>2. [key[a] EXCEPT ![k] = B] \in [Keys -> Binding \cup {Unbound}]
      BY <1>0, <1>1, <3>1
    <3> QED BY <1>0, <3>1, <3>2
  <2> QED BY <2>1, <2>2
<1>4. answered' \in [Users -> [Keys -> Requests \cup {None}]]
  <2>1. CASE k = None
    BY <1>0, <1>2, <2>1
  <2>2. CASE k # None
    <3>1. answered' = [answered EXCEPT ![a] = [answered[a] EXCEPT ![k] = r]] /\ k \in Keys
      BY <1>0, <1>2, <2>2
    <3>2. [answered[a] EXCEPT ![k] = r] \in [Keys -> Requests \cup {None}]
      BY <1>0, <3>1
    <3> QED BY <1>0, <3>1, <3>2
  <2> QED BY <2>1, <2>2
<1>5. ASSUME NEW b \in Users, NEW l \in Keys PROVE KeyOK(b, l)'
  <2>1. CASE b = a /\ l = k
    <3>1. key'[b][l] = B /\ answered'[b][l] = r
      BY <1>2, <2>1, NoneAssumption DEF TypeOK
    <3> QED BY <1>1, <2>1, <3>1 DEF KeyOK, Exists
  <2>2. CASE ~(b = a /\ l = k)
    <3>1. key'[b][l] = key[b][l] /\ answered'[b][l] = answered[b][l]
      BY <1>2, <2>2 DEF TypeOK
    <3>2. KeyOK(b, l)
      BY DEF KeysOK
    <3>3. \A q \in Requests : q = key[b][l].request \/ q = answered[b][l] =>
            state'[q] = state[q] /\ author'[q] = author[q] /\ content'[q] = content[q]
      OBVIOUS
    <3> QED BY <3>1, <3>2, <3>3, KeyParts DEF KeyOK, Exists
  <2> QED BY <2>1, <2>2
<1> QED BY <1>3, <1>4, <1>5 DEF KeysOK

LEMMA CoalesceInv ==
  ASSUME Core, NEW c \in Calls, DraftOK(c), NEW a \in Users,
         NEW k \in Keys \cup {None}, NEW h \in Contents, NEW r \in Requests,
         a = draft[c].author, k = draft[c].key, h = draft[c].content,
         r = draft[c].request, Coalesce(c)
  PROVE  Core'
<1>1. /\ Bind(c, r) /\ Answer(c, r)
      /\ UNCHANGED <<state, author, content, fresh>>
      /\ Exists(r) /\ author[r] = a /\ content[r] = h /\ call[c] = Idle
  BY DEF Coalesce, DraftOK
<1>2. /\ CallsOK' /\ Exclusive' /\ call' \in [Calls -> Call \cup {Idle}]
      /\ draft' \in [Calls -> Draft \cup {NoDraft}]
  BY <1>1, AnswerCalls DEF Core
<1>3. /\ KeysOK' /\ key' \in [Users -> [Keys -> Binding \cup {Unbound}]]
      /\ answered' \in [Users -> [Keys -> Requests \cup {None}]]
  BY <1>1, BoundKeys DEF Core, Exists
<1>4. TypeOK'
  BY <1>1, <1>2, <1>3 DEF Core, TypeOK, Answer, notifications, accounts
<1>5. RowsOK' /\ NoDuplicatePublication'
  BY <1>1 DEF Core, RowsOK, RowOK, Exists, NoDuplicatePublication, Answer, notifications
<1> QED BY <1>2, <1>3, <1>4, <1>5 DEF Core

LEMMA InsertInv ==
  ASSUME Core, NEW c \in Calls, DraftOK(c), NEW a \in Users,
         NEW k \in Keys \cup {None}, NEW h \in Contents, NEW r \in Requests,
         a = draft[c].author, k = draft[c].key, h = draft[c].content, Insert(c, r)
  PROVE  Core'
<1>1. /\ Bind(c, r) /\ Answer(c, r) /\ Coalescing(a, h) = {} /\ call[c] = Idle
      /\ state[r] = "unused" /\ state' = [state EXCEPT ![r] = "open"]
      /\ author' = [author EXCEPT ![r] = a] /\ content' = [content EXCEPT ![r] = h]
      /\ fresh' = fresh \cup {r}
      /\ summary' = summary /\ alerts' = alerts
  BY DEF Insert, Answer, notifications, DraftOK
<1>2. /\ state'[r] = "open" /\ author'[r] = a /\ content'[r] = h
      /\ \A q \in Requests \ {r} : /\ state'[q] = state[q] /\ author'[q] = author[q]
                                   /\ content'[q] = content[q]
  BY <1>1 DEF Core, TypeOK
<1>3. /\ CallsOK' /\ Exclusive' /\ call' \in [Calls -> Call \cup {Idle}]
      /\ draft' \in [Calls -> Draft \cup {NoDraft}]
  BY <1>1, <1>2, AnswerCalls DEF Core
<1>4. \A b \in Users, l \in Keys : key[b][l].request # r /\ answered[b][l] # r
  <2> SUFFICES ASSUME NEW b \in Users, NEW l \in Keys
               PROVE  key[b][l].request # r /\ answered[b][l] # r
    OBVIOUS
  <2>1. KeyOK(b, l)
    BY DEF Core, KeysOK
  <2>2. answered[b][l] # r
    BY <1>1, <2>1, NoneAssumption DEF KeyOK
  <2>3. key[b][l].request # r
    BY <1>1, <2>1, KeyParts, NoneAssumption DEF Core, KeyOK, Exists
  <2> QED BY <2>2, <2>3
<1>5. /\ KeysOK' /\ key' \in [Users -> [Keys -> Binding \cup {Unbound}]]
      /\ answered' \in [Users -> [Keys -> Requests \cup {None}]]
  BY <1>1, <1>2, <1>4, BoundKeys DEF Core, Exists
<1>6. TypeOK'
  BY <1>1, <1>3, <1>5 DEF Core, TypeOK, Answer, notifications, accounts
<1>7. RowsOK'
  <2>1. ASSUME NEW q \in Requests PROVE RowOK(q)'
    <3>1. RowOK(q)
      BY DEF Core, RowsOK
    <3>2. CASE q = r
      BY <1>1, <1>2, <3>1, <3>2 DEF RowOK, Exists
    <3>3. CASE q # r
      BY <1>1, <1>2, <3>1, <3>3 DEF RowOK, Exists
    <3> QED BY <3>2, <3>3
  <2> QED BY <2>1 DEF RowsOK
<1>8. NoDuplicatePublication'
  <2>1. \A q \in fresh : q \in Requests /\ q # r /\ Exists(q)
                         /\ ~(author[q] = a /\ content[q] = h)
    <3> SUFFICES ASSUME NEW q \in fresh
                 PROVE  q \in Requests /\ q # r /\ Exists(q) /\ ~(author[q] = a /\ content[q] = h)
      OBVIOUS
    <3>1. q \in Requests /\ Exists(q)
      BY DEF Core, TypeOK, RowsOK, RowOK
    <3> QED BY <1>1, <3>1 DEF Exists, Coalescing
  <2> QED BY <1>1, <1>2, <2>1 DEF Core, NoDuplicatePublication
<1> QED BY <1>3, <1>5, <1>6, <1>7, <1>8 DEF Core

LEMMA CommitInv ==
  ASSUME Core, NEW c \in Calls, DraftOK(c), Commit(c)
  PROVE  Core'
<1>1. draft[c] # NoDraft
  BY DEF Commit, Replay, Coalesce, Insert
<1>2. /\ draft[c].author \in Users /\ draft[c].key \in Keys \cup {None}
      /\ draft[c].content \in Contents
      /\ draft[c].request \in Requests \cup {None}
  BY <1>1, DraftParts DEF Core
<1>3. CASE Replay(c)
  BY <1>3, ReplayInv
<1>4. CASE Coalesce(c)
  <2>1. draft[c].request \in Requests
    BY <1>2, <1>4 DEF Coalesce
  <2> QED BY <1>2, <1>4, <2>1, CoalesceInv
<1>5. ASSUME NEW r \in Requests, Insert(c, r) PROVE Core'
  BY <1>2, <1>5, InsertInv
<1> QED BY <1>3, <1>4, <1>5 DEF Commit

\* Submit and Rollback change nothing but the submissions under way.
LEMMA DraftOnly ==
  ASSUME Core, draft' \in [Calls -> Draft \cup {NoDraft}],
         UNCHANGED <<rows, notifications, accounts, call, answered, overtaken>>
  PROVE  Core'
<1>1. TypeOK'
  BY DEF Core, TypeOK, rows, notifications, accounts
<1>2. CallsOK' /\ Exclusive'
  BY DEF Core, CallsOK, CallOK, Locking, Exclusive, rows, notifications, accounts
<1>3. RowsOK' /\ KeysOK' /\ NoDuplicatePublication'
  BY DEF Core, RowsOK, RowOK, KeysOK, KeyOK, Exists, NoDuplicatePublication, rows, notifications
<1> QED BY <1>1, <1>2, <1>3 DEF Core

\* What a submission begins with.
LEMMA SubmitStep ==
  ASSUME TypeOK, NEW c \in Calls, NEW a \in Users, NEW k \in Keys \cup {None},
         NEW h \in Contents, Submit(c, a, k, h)
  PROVE  \E d \in Draft :
           /\ draft' = [draft EXCEPT ![c] = d] /\ draft[c] = NoDraft /\ call[c] = Idle
           /\ d.author = a /\ d.key = k /\ d.content = h /\ AuthorFree(a)
           /\ d.request \in Found(a, k, h) /\ d.bound = (BoundTo(a, k) # Unbound)
           /\ BoundTo(a, k) # Unbound => BoundTo(a, k).hash = h
           /\ UNCHANGED <<rows, notifications, accounts, call, answered, overtaken>>
<1>1. PICK r \in Found(a, k, h) :
        draft' = [draft EXCEPT ![c] = [author |-> a, key |-> k, content |-> h,
                    request |-> r, bound |-> BoundTo(a, k) # Unbound]]
  BY DEF Submit
<1>2. r \in Requests \cup {None}
  <2>1. CASE BoundTo(a, k) # Unbound
    <3>1. k \in Keys /\ key[a][k] # Unbound /\ r = key[a][k].request
      BY <1>1, <2>1 DEF BoundTo, Found
    <3> QED BY <3>1, KeyParts
  <2>2. CASE BoundTo(a, k) = Unbound
    BY <1>1, <2>2 DEF Found, Coalescing, TypeOK
  <2> QED BY <2>1, <2>2
<1> DEFINE d == [author |-> a, key |-> k, content |-> h,
                 request |-> r, bound |-> BoundTo(a, k) # Unbound]
<1>3. /\ d \in Draft /\ d.author = a /\ d.key = k /\ d.content = h
      /\ d.request = r /\ d.bound = (BoundTo(a, k) # Unbound)
  BY <1>2 DEF Draft
<1>4. draft' = [draft EXCEPT ![c] = d]
  BY <1>1
<1> HIDE DEF d
<1> QED BY <1>1, <1>3, <1>4 DEF Submit

LEMMA PublishInv ==
  ASSUME Core, DraftsOK, Publish
  PROVE  Core'
<1>1. ASSUME NEW c \in Calls, NEW a \in Users, NEW k \in Keys \cup {None},
             NEW h \in Contents, Submit(c, a, k, h)
      PROVE  Core'
  <2>1. PICK d \in Draft : draft' = [draft EXCEPT ![c] = d]
    BY <1>1, SubmitStep DEF Core
  <2>2. draft' \in [Calls -> Draft \cup {NoDraft}]
    BY <2>1 DEF Core, TypeOK
  <2> QED BY <1>1, <2>2, DraftOnly DEF Submit
<1>2. ASSUME NEW c \in Calls, Rollback(c) PROVE Core'
  BY <1>2, DraftOnly DEF Rollback, Core, TypeOK
<1> QED BY <1>1, <1>2, CommitInv DEF Publish, DraftsOK

LEMMA AgeInv ==
  ASSUME Core, NEW r \in Requests, Age(r)
  PROVE  Core'
<1>1. CallsOK' /\ Exclusive'
  BY CallsFrame DEF Core, Age, notifications, accounts
<1>2. TypeOK'
  BY DEF Core, TypeOK, Age, notifications, accounts
<1>3. RowsOK' /\ KeysOK' /\ NoDuplicatePublication'
  BY DEF Core, RowsOK, RowOK, KeysOK, KeyOK, Exists, NoDuplicatePublication, Age, notifications
<1> QED BY <1>1, <1>2, <1>3 DEF Core

\* A call ends: its locks are released.
LEMMA FinishCalls ==
  ASSUME TypeOK, NEW c \in Calls, Finish(c)
  PROVE  /\ call' \in [Calls -> Call \cup {Idle}] /\ overtaken' \subseteq Calls
         /\ ~Locking(c)'
         /\ \A d \in Calls \ {c} : /\ call'[d] = call[d]
                                   /\ Locking(d)' <=> Locking(d)
                                   /\ d \in overtaken => d \in overtaken'
BY DEF TypeOK, Finish, Locking, Idle

\* Skip and Fail.
LEMMA FinishInv ==
  ASSUME Core, NEW c \in Calls, Finish(c), UNCHANGED <<rows, notifications, accounts, draft, answered>>
  PROVE  Core'
<1>1. TypeOK'
  BY FinishCalls DEF Core, TypeOK, rows, notifications, accounts
<1>2. ASSUME NEW d \in Calls PROVE CallOK(d)'
  BY FinishCalls DEF Core, CallsOK, CallOK, rows, notifications, accounts
<1>3. Exclusive'
  BY FinishCalls DEF Core, Exclusive
<1>4. RowsOK' /\ KeysOK' /\ NoDuplicatePublication'
  BY DEF Core, RowsOK, RowOK, KeysOK, KeyOK, Exists, NoDuplicatePublication, rows, notifications
<1> QED BY <1>1, <1>2, <1>3, <1>4 DEF Core, CallsOK

LEMMA RankInv ==
  ASSUME Core, NEW c \in Calls, Rank(c)
  PROVE  Core'
<1> DEFINE r == call[c].request
<1>1. PICK S \in SUBSET Candidates(r) :
        /\ Cardinality(S) <= TopMatches
        /\ call' = [call EXCEPT ![c] = [@ EXCEPT !.phase = "ranked", !.chosen = S]]
  BY DEF Rank
<1>2. /\ call[c].phase = "committed" /\ ~Locked(r) /\ Matchable(r)
      /\ UNCHANGED <<rows, notifications, accounts, draft, answered, overtaken>>
  BY DEF Rank
<1>3. call[c] \in Call /\ r \in Requests /\ ~Locking(c)
  BY <1>2, CallParts DEF Core, Phase, Locking
<1>4. S \in SUBSET Users /\ author[r] \notin S
  BY DEF Candidates
<1>5. /\ call'[c] \in Call /\ call'[c].phase = "ranked" /\ call'[c].request = r
      /\ call'[c].chosen = S /\ \A d \in Calls \ {c} : call'[d] = call[d]
      /\ call' \in [Calls -> Call \cup {Idle}]
  <2> DEFINE new == [call[c] EXCEPT !.phase = "ranked", !.chosen = S]
  <2>1. new \in Call /\ new.phase = "ranked" /\ new.request = r /\ new.chosen = S
    BY <1>3, <1>4 DEF Call, Phase
  <2>2. call' = [call EXCEPT ![c] = new]
    BY <1>1
  <2> HIDE DEF new
  <2> QED BY <2>1, <2>2 DEF Core, TypeOK
<1> HIDE DEF r
<1>6. TypeOK'
  BY <1>2, <1>5 DEF Core, TypeOK, rows, notifications, accounts
<1>7. ASSUME NEW d \in Calls PROVE CallOK(d)'
  <2>1. CASE d = c
    BY <1>1, <1>2, <1>4, <1>5, <2>1 DEF CallOK, Matchable, rows, notifications, accounts
  <2>2. CASE d # c
    BY <1>2, <1>5, <2>2 DEF Core, CallsOK, CallOK, Locking, rows, notifications, accounts
  <2> QED BY <2>1, <2>2
<1>8. Exclusive'
  <2>1. \A d \in Calls \ {c} : Locking(d) => call[d].request # r
    BY <1>2, LockedIs
  <2>2. \A d \in Calls \ {c} : Locking(d)' <=> Locking(d)
    BY <1>5 DEF Locking
  <2> QED BY <1>5, <2>1, <2>2 DEF Core, Exclusive
<1>9. RowsOK' /\ KeysOK' /\ NoDuplicatePublication'
  BY <1>2 DEF Core, RowsOK, RowOK, KeysOK, KeyOK, Exists, NoDuplicatePublication, rows, notifications
<1> QED BY <1>6, <1>7, <1>8, <1>9 DEF Core, CallsOK

LEMMA RecheckInv ==
  ASSUME Core, NEW c \in Calls, Recheck(c)
  PROVE  Core'
<1> DEFINE r == call[c].request
           S == call[c].chosen \cap Candidates(r)
           new == [call[c] EXCEPT !.phase = "rechecked", !.chosen = S]
<1>1. /\ call[c].phase = "ranked" /\ call' = [call EXCEPT ![c] = new]
      /\ UNCHANGED <<rows, notifications, accounts, draft, answered, overtaken>>
  BY DEF Recheck
<1>2. call[c] \in Call /\ r \in Requests /\ Locking(c) /\ call[c].chosen \in SUBSET Users
  BY <1>1, CallParts DEF Core, Phase, Locking
<1>3. Cardinality(S) <= TopMatches
  <2>1. IsFiniteSet(call[c].chosen)
    BY <1>2, UsersAssumption, FS_Subset
  <2>2. /\ Cardinality(S) <= Cardinality(call[c].chosen)
        /\ Cardinality(S) \in Nat /\ Cardinality(call[c].chosen) \in Nat
    BY <2>1, FS_Subset, FS_CardinalityType
  <2>3. Cardinality(call[c].chosen) <= TopMatches
    BY <1>2 DEF Core, CallsOK, CallOK
  <2> QED BY <2>2, <2>3, TopMatchesAssumption
<1>4. S \in SUBSET Users /\ author[r] \notin S
      /\ \A u \in S : standing[u] = "mentor" /\ {author[r], u} \notin blocked
  BY DEF Candidates
<1>5. /\ call'[c] \in Call /\ call'[c].phase = "rechecked" /\ call'[c].request = r
      /\ call'[c].chosen = S /\ \A d \in Calls \ {c} : call'[d] = call[d]
      /\ call' \in [Calls -> Call \cup {Idle}]
  <2>1. new \in Call /\ new.phase = "rechecked" /\ new.request = r /\ new.chosen = S
    BY <1>2 DEF Call, Phase
  <2> HIDE DEF new, S
  <2> QED BY <1>1, <2>1 DEF Core, TypeOK
<1> HIDE DEF S, new
<1>6. TypeOK'
  BY <1>1, <1>5 DEF Core, TypeOK, rows, notifications, accounts
<1>7. ASSUME NEW d \in Calls PROVE CallOK(d)'
  <2>1. CASE d = c
    <3>1. CallOK(c)
      BY DEF Core, CallsOK
    <3> QED BY <1>1, <1>2, <1>3, <1>4, <1>5, <2>1, <3>1
            DEF CallOK, rows, notifications, accounts
  <2>2. CASE d # c
    BY <1>1, <1>5, <2>2 DEF Core, CallsOK, CallOK, Locking, rows, notifications, accounts
  <2> QED BY <2>1, <2>2
<1>8. Exclusive'
  <2>1. \A d \in Calls : Locking(d)' <=> Locking(d)
    BY <1>2, <1>5 DEF Locking
  <2>2. \A d \in Calls : call'[d].request = call[d].request
    BY <1>5
  <2> QED BY <2>1, <2>2 DEF Core, Exclusive
<1>9. RowsOK' /\ KeysOK' /\ NoDuplicatePublication'
  BY <1>1 DEF Core, RowsOK, RowOK, KeysOK, KeyOK, Exists, NoDuplicatePublication, rows, notifications
<1> QED BY <1>6, <1>7, <1>8, <1>9 DEF Core, CallsOK

\* What Deliver commits.
LEMMA DeliverStep ==
  ASSUME Core, NEW c \in Calls, Deliver(c), NEW r, r = call[c].request
  PROVE  /\ r \in Requests /\ CallOK(c) /\ Locking(c) /\ call[c].phase = "rechecked"
         /\ call[c].chosen \in SUBSET Users
         /\ alerts[r] = {} /\ alerts' = [alerts EXCEPT ![r] = call[c].chosen]
         /\ summary' = summary \cup {r} /\ Finish(c)
         /\ UNCHANGED <<rows, accounts, draft, answered>>
<1>1. /\ call[c].phase = "rechecked" /\ summary' = summary \cup {r} /\ Finish(c)
      /\ alerts' = [alerts EXCEPT ![r] = @ \cup call[c].chosen]
      /\ UNCHANGED <<rows, accounts, draft, answered>>
  BY DEF Deliver
<1>2. r \in Requests /\ Locking(c) /\ call[c].chosen \in SUBSET Users
  BY <1>1, CallParts DEF Core, Phase, Locking
<1>3. CallOK(c)
  BY DEF Core, CallsOK
<1>4. alerts[r] = {}
  BY <1>2, <1>3 DEF Core, RowsOK, RowOK, CallOK
<1> QED BY <1>1, <1>2, <1>3, <1>4 DEF Core, TypeOK

LEMMA DeliverInv ==
  ASSUME Core, NEW c \in Calls, Deliver(c)
  PROVE  Core'
<1> DEFINE r == call[c].request
<1>1. /\ r \in Requests /\ CallOK(c) /\ Locking(c)
      /\ call[c].chosen \in SUBSET Users
      /\ alerts' = [alerts EXCEPT ![r] = call[c].chosen]
      /\ summary' = summary \cup {r} /\ Finish(c)
      /\ UNCHANGED <<rows, accounts, draft, answered>>
  BY DeliverStep
<1> HIDE DEF r
<1>2. TypeOK'
  BY <1>1, FinishCalls DEF Core, TypeOK, rows, accounts
<1>3. ASSUME NEW d \in Calls PROVE CallOK(d)'
  <2>1. CASE d = c
    BY <1>1, <2>1, FinishCalls DEF Core, CallOK
  <2>2. CASE d # c
    <3>1. Locking(d) => call[d].request # r
      BY <1>1, <2>2 DEF Core, Exclusive, r
    <3> QED BY <1>1, <2>2, <3>1, FinishCalls DEF Core, CallsOK, CallOK, rows, accounts
  <2> QED BY <2>1, <2>2
<1>4. Exclusive'
  BY <1>1, FinishCalls DEF Core, Exclusive
<1>5. RowsOK'
  <2>1. state[r] = "open"
    BY <1>1 DEF CallOK, r
  <2> QED BY <1>1, <2>1 DEF Core, TypeOK, RowsOK, RowOK, Exists, rows
<1>6. KeysOK' /\ NoDuplicatePublication'
  BY <1>1 DEF Core, KeysOK, KeyOK, Exists, NoDuplicatePublication, rows
<1> QED BY <1>2, <1>3, <1>4, <1>5, <1>6 DEF Core, CallsOK

LEMMA SetStateInv ==
  ASSUME Core, NEW r \in Requests, NEW s \in {"open", "inactive"}, SetState(r, s)
  PROVE  Core'
<1>1. /\ Exists(r) /\ ~Locked(r) /\ state' = [state EXCEPT ![r] = s]
      /\ UNCHANGED <<author, content, fresh, key, notifications, accounts, draft, call, answered,
                     overtaken>>
  BY DEF SetState
<1>2. \A q \in Requests : /\ Exists(q)' <=> Exists(q)
                          /\ state[q] # "unused" => state'[q] # "unused"
                          /\ q # r => state'[q] = state[q]
  BY <1>1 DEF Core, TypeOK, Exists
<1>3. TypeOK'
  BY <1>1 DEF Core, TypeOK, notifications, accounts
<1>4. CallsOK' /\ Exclusive'
  <2>1. \A c \in Calls : Locking(c) => call[c].request \in Requests \ {r}
    BY <1>1, LockedIs, CallParts DEF Core
  <2> QED BY <1>1, <1>2, <2>1, CallsFrame DEF Core, notifications, accounts
<1>5. RowsOK'
  BY <1>1, <1>2 DEF Core, RowsOK, RowOK, notifications
<1>6. KeysOK'
  <2>1. ASSUME NEW a \in Users, NEW k \in Keys PROVE KeyOK(a, k)'
    BY <1>1, <1>2, KeyParts DEF Core, KeysOK, KeyOK
  <2> QED BY <2>1 DEF KeysOK
<1> QED BY <1>1, <1>3, <1>4, <1>5, <1>6 DEF Core, NoDuplicatePublication

\* What is left of the rows and keys when r is deleted.
LEMMA DeleteStep ==
  ASSUME TypeOK, NEW r \in Requests, Delete(r)
  PROVE  /\ state'[r] = "deleted" /\ author'[r] = None /\ content'[r] = None /\ alerts'[r] = {}
         /\ \A q \in Requests \ {r} : /\ state'[q] = state[q] /\ author'[q] = author[q]
                                      /\ content'[q] = content[q] /\ alerts'[q] = alerts[q]
         /\ fresh' = fresh \ {r} /\ summary' = summary \ {r}
         /\ \A a \in Users, k \in Keys :
              key'[a][k] = IF key[a][k].request = r THEN Unbound ELSE key[a][k]
         /\ UNCHANGED <<accounts, draft, call, answered, overtaken>>
BY DEF TypeOK, Delete

LEMMA DeleteInv ==
  ASSUME Core, NEW r \in Requests, Delete(r)
  PROVE  Core'
<1>0. TypeOK
  BY DEF Core
<1>1. TypeOK'
  <2>1. key' \in [Users -> [Keys -> Binding \cup {Unbound}]]
    BY <1>0 DEF TypeOK, Delete
  <2> QED BY <1>0, <2>1 DEF TypeOK, Delete, accounts
<1>2. CallsOK' /\ Exclusive'
  <2>1. \A c \in Calls : Locking(c) => call[c].request \in Requests \ {r}
    BY <1>0, LockedIs, CallParts DEF Delete
  <2> QED BY <1>0, <2>1, DeleteStep, CallsFrame DEF Core, accounts
<1>3. ASSUME NEW q \in Requests PROVE RowOK(q)'
  <2>1. CASE q = r
    BY <1>0, <2>1, DeleteStep DEF RowOK, Exists
  <2>2. CASE q # r
    BY <1>0, <2>2, DeleteStep DEF Core, RowsOK, RowOK, Exists
  <2> QED BY <2>1, <2>2
<1>4. ASSUME NEW a \in Users, NEW k \in Keys PROVE KeyOK(a, k)'
  <2>1. KeyOK(a, k) /\ answered' = answered
    BY <1>0, DeleteStep DEF Core, KeysOK
  <2>2. CASE key[a][k].request = r
    <3>1. key'[a][k] = Unbound /\ key[a][k] # Unbound /\ answered[a][k] = r
      BY <1>0, <2>1, <2>2, DeleteStep, KeyParts, NoneAssumption DEF KeyOK
    <3> QED BY <1>0, <2>1, <3>1, DeleteStep DEF KeyOK, Exists
  <2>3. CASE key[a][k].request # r
    <3>1. key'[a][k] = key[a][k]
      BY <1>0, <2>3, DeleteStep
    <3> QED BY <1>0, <2>1, <2>3, <3>1, DeleteStep, KeyParts DEF KeyOK, Exists
  <2> QED BY <2>2, <2>3
<1>5. NoDuplicatePublication'
  BY <1>0, DeleteStep DEF Core, TypeOK, NoDuplicatePublication
<1> QED BY <1>1, <1>2, <1>3, <1>4, <1>5 DEF Core, RowsOK, KeysOK

LEMMA SetStandingInv ==
  ASSUME Core, NEW u \in Users, NEW s \in Standing, SetStanding(u, s)
  PROVE  Core'
<1>1. /\ ~Shared(u) /\ standing' = [standing EXCEPT ![u] = s]
      /\ UNCHANGED <<rows, notifications, blocked, draft, call, answered, overtaken>>
  BY DEF SetStanding
<1>2. TypeOK'
  BY <1>1 DEF Core, TypeOK, rows, notifications
<1>3. \A v : v # u => standing'[v] = standing[v]
  BY <1>1 DEF Core, TypeOK
<1>4. CallsOK' /\ Exclusive'
  <2>1. \A c \in Calls : Locking(c) => author[call[c].request] # u
    BY <1>1 DEF Shared, Locking
  <2>2. \A c \in Calls : call[c].phase = "rechecked" => u \notin call[c].chosen
    BY <1>1 DEF Shared
  <2> QED BY <1>1, <1>3, <2>1, <2>2, CallsFrame DEF Core, rows, notifications
<1>5. RowsOK' /\ KeysOK' /\ NoDuplicatePublication'
  BY <1>1 DEF Core, RowsOK, RowOK, KeysOK, KeyOK, Exists, NoDuplicatePublication, rows, notifications
<1> QED BY <1>2, <1>4, <1>5 DEF Core

LEMMA BlockInv ==
  ASSUME Core, NEW a \in Users, NEW b \in Users, Block(a, b) \/ Unblock(a, b)
  PROVE  Core'
<1>1. /\ UNCHANGED <<rows, notifications, standing, draft, call, answered>>
      /\ overtaken \subseteq overtaken' /\ overtaken' \subseteq Calls
      /\ blocked' \subseteq {{x, y} : x, y \in Users} /\ \A u \in Users : {u} \notin blocked'
  <2>1. CASE Block(a, b)
    <3>1. a # b /\ blocked' = blocked \cup {{a, b}}
      BY <2>1 DEF Block
    <3>2. {a, b} \in {{x, y} : x, y \in Users} /\ \A u \in Users : {u} # {a, b}
      BY <3>1
    <3>3. blocked' \subseteq {{x, y} : x, y \in Users} /\ \A u \in Users : {u} \notin blocked'
      <4> DEFINE Pairs == {{x, y} : x, y \in Users}
      <4>1. {a, b} \in Pairs /\ blocked \subseteq Pairs /\ \A u \in Users : {u} \notin blocked
        BY <3>2 DEF Core, TypeOK
      <4> HIDE DEF Pairs
      <4>2. blocked' \subseteq Pairs
        BY <3>1, <4>1
      <4>3. \A u \in Users : {u} \notin blocked'
        BY <3>1, <3>2, <4>1
      <4> QED BY <4>2, <4>3 DEF Pairs
    <3>4. /\ UNCHANGED <<rows, notifications, standing, draft, call, answered>>
          /\ overtaken \subseteq overtaken' /\ overtaken' \subseteq Calls
      BY <2>1 DEF Core, TypeOK, Block
    <3> QED BY <3>3, <3>4
  <2>2. CASE Unblock(a, b)
    BY <2>2 DEF Core, TypeOK, Unblock
  <2> QED BY <2>1, <2>2
<1>2. TypeOK'
  BY <1>1 DEF Core, TypeOK, rows, notifications
<1>3. ASSUME NEW c \in Calls, call[c].phase = "rechecked", NEW u \in call[c].chosen,
             {author[call[c].request], u} \in blocked', c \notin overtaken'
      PROVE  {author[call[c].request], u} \in blocked /\ c \notin overtaken
  BY <1>1, <1>3 DEF Block, Unblock
<1>4. CallsOK' /\ Exclusive'
  BY <1>1, <1>3, CallsFrame DEF Core, rows, notifications
<1>5. RowsOK' /\ KeysOK' /\ NoDuplicatePublication'
  BY <1>1 DEF Core, RowsOK, RowOK, KeysOK, KeyOK, Exists, NoDuplicatePublication, rows, notifications
<1> QED BY <1>2, <1>4, <1>5 DEF Core

\* Apart from Submit, what the submissions under way have found stays.
LEMMA DraftsFrame ==
  ASSUME TypeOK, DraftsOK, Serialized,
         \A c \in Calls : draft'[c] = draft[c] \/ draft'[c] = NoDraft,
         \A c \in Calls : draft'[c] # NoDraft =>
           /\ call'[c] = Idle
           /\ \A r \in Requests : r = draft[c].request /\ Exists(r) =>
                Exists(r)' /\ author'[r] = author[r] /\ content'[r] = content[r]
           /\ \A k \in Keys : draft[c].bound /\ key[draft[c].author][k].request = draft[c].request
                => key'[draft[c].author][k] = key[draft[c].author][k]
           /\ \A q \in fresh' : Exists(q)' /\ author'[q] = draft[c].author =>
                q \in fresh /\ Exists(q) /\ author[q] = author'[q] /\ content[q] = content'[q]
  PROVE  DraftsOK' /\ Serialized'
<1>1. ASSUME NEW c \in Calls, draft'[c] # NoDraft PROVE DraftOK(c)'
  <2>1. draft'[c] = draft[c] /\ DraftOK(c) /\ draft[c] # NoDraft
    BY <1>1 DEF DraftsOK
  <2>2. draft[c].request # None =>
          /\ Exists(draft[c].request)' /\ author'[draft[c].request] = draft[c].author
          /\ content'[draft[c].request] = draft[c].content
    BY <1>1, <2>1, DraftParts DEF DraftOK
  <2>3. draft[c].bound => /\ draft[c].key # None /\ draft[c].request # None
                          /\ key'[draft[c].author][draft[c].key].request = draft[c].request
    BY <1>1, <2>1, DraftParts DEF DraftOK
  <2>4. draft[c].request = None => Coalescing(draft[c].author, draft[c].content)' = {}
    <3> SUFFICES ASSUME draft[c].request = None,
                        NEW q \in Coalescing(draft[c].author, draft[c].content)'
                 PROVE  FALSE
      BY <2>1
    <3>1. q \in fresh' /\ Exists(q)' /\ author'[q] = draft[c].author /\ content'[q] = draft[c].content
      BY <2>1 DEF Coalescing
    <3>2. q \in Coalescing(draft[c].author, draft[c].content)
      BY <1>1, <3>1 DEF Coalescing
    <3> QED BY <2>1, <3>2 DEF DraftOK
  <2> QED BY <1>1, <2>1, <2>2, <2>3, <2>4 DEF DraftOK
<1>2. DraftsOK'
  BY <1>1 DEF DraftsOK, DraftOK
<1>3. Serialized'
  BY DEF Serialized
<1> QED BY <1>2, <1>3

LEMMA SubmitDrafts ==
  ASSUME IInv, NEW c \in Calls, NEW a \in Users, NEW k \in Keys \cup {None},
         NEW h \in Contents, Submit(c, a, k, h)
  PROVE  DraftsOK' /\ Serialized'
<1>1. PICK d \in Draft :
        /\ draft' = [draft EXCEPT ![c] = d] /\ draft[c] = NoDraft /\ call[c] = Idle
        /\ d.author = a /\ d.key = k /\ d.content = h /\ AuthorFree(a)
        /\ d.request \in Found(a, k, h) /\ d.bound = (BoundTo(a, k) # Unbound)
        /\ BoundTo(a, k) # Unbound => BoundTo(a, k).hash = h
        /\ UNCHANGED <<rows, notifications, accounts, call, answered, overtaken>>
  BY SubmitStep DEF IInv, Core
<1>2. /\ draft'[c] = d /\ \A e \in Calls \ {c} : draft'[e] = draft[e]
      /\ UNCHANGED <<state, author, content, fresh, key, call>>
  BY <1>1 DEF IInv, Core, TypeOK, rows
<1>a. ASSUME /\ d.request # None => /\ Exists(d.request) /\ author[d.request] = a
                                    /\ content[d.request] = h
             /\ d.request = None => Coalescing(a, h) = {}
             /\ d.bound => k # None /\ d.request # None /\ key[a][k].request = d.request
      PROVE  DraftOK(c)'
  <2>1. /\ call'[c] = Idle /\ draft'[c].author = a /\ draft'[c].key = k
        /\ draft'[c].content = h /\ draft'[c].request = d.request /\ draft'[c].bound = d.bound
    BY <1>1, <1>2
  <2>2. Coalescing(draft[c].author, draft[c].content)' = Coalescing(a, h)
    BY <1>2, <2>1 DEF Coalescing, Exists
  <2>3. d.request # None => Exists(d.request)'
    BY <1>2, <1>a DEF Exists
  <2> QED BY <1>2, <1>a, <2>1, <2>2, <2>3 DEF DraftOK, Exists
<1>3. ASSUME NEW e \in Calls \ {c} PROVE DraftOK(e)'
  BY <1>1, <1>2 DEF IInv, DraftsOK, DraftOK, Coalescing, Exists, rows
<1>4. ASSUME BoundTo(a, k) # Unbound PROVE DraftOK(c)'
  <2>1. /\ k \in Keys /\ k # None /\ key[a][k] # Unbound
        /\ d.request = key[a][k].request /\ key[a][k].hash = h
    BY <1>1, <1>4 DEF BoundTo, Found
  <2>2. KeyOK(a, k) /\ key[a][k].request \in Requests
    BY <2>1, KeyParts DEF IInv, Core, KeysOK
  <2>3. d.request # None
    BY <2>1, <2>2, NoneAssumption
  <2> QED BY <1>a, <2>1, <2>2, <2>3 DEF KeyOK
<1>5. ASSUME BoundTo(a, k) = Unbound, Coalescing(a, h) = {} PROVE DraftOK(c)'
  <2>1. d.request = None /\ ~d.bound
    BY <1>1, <1>5 DEF Found
  <2> QED BY <1>a, <1>5, <2>1
<1>6. ASSUME BoundTo(a, k) = Unbound, Coalescing(a, h) # {} PROVE DraftOK(c)'
  <2>1. /\ d.request \in Requests /\ Exists(d.request)
        /\ author[d.request] = a /\ content[d.request] = h /\ ~d.bound
    <3>1. d.request \in Coalescing(a, h) /\ ~d.bound
      BY <1>1, <1>6 DEF Found
    <3> QED BY <3>1 DEF Coalescing, IInv, Core, TypeOK
  <2> QED BY <1>a, <2>1, NoneAssumption
<1>7. Serialized'
  BY <1>1, <1>2 DEF IInv, Serialized, AuthorFree
<1> QED BY <1>3, <1>4, <1>5, <1>6, <1>7 DEF DraftsOK

LEMMA CommitDrafts ==
  ASSUME IInv, NEW c \in Calls, Commit(c)
  PROVE  DraftsOK' /\ Serialized'
<1>1. PICK r : /\ draft[c] # NoDraft /\ Answer(c, r)
               /\ Replay(c) \/ Coalesce(c) \/ (r \in Requests /\ Insert(c, r))
  BY DEF Commit, Replay, Coalesce, Insert
<1>2. /\ \A d \in Calls : draft'[d] = IF d = c THEN NoDraft ELSE draft[d]
      /\ \A d \in Calls \ {c} : call'[d] = call[d]
  BY <1>1 DEF Answer, IInv, Core, TypeOK
<1>3. ASSUME NEW d \in Calls, draft'[d] # NoDraft
      PROVE  /\ d # c /\ draft[d] # NoDraft /\ draft[d].author # draft[c].author
             /\ DraftOK(d)
  BY <1>1, <1>2, <1>3 DEF IInv, Serialized, DraftsOK
<1>4. ASSUME NEW b \in Users, b # draft[c].author
      PROVE  key'[b] = key[b]
  <2>1. CASE key' = key
    BY <2>1
  <2>2. CASE \E q : Bind(c, q)
    BY <1>4, <2>2 DEF Bind, IInv, Core, TypeOK
  <2> QED BY <1>1, <2>1, <2>2 DEF Replay, Coalesce, Insert, rows
<1>5. CASE Replay(c) \/ Coalesce(c)
  <2>1. UNCHANGED <<state, author, content, fresh>>
    BY <1>5 DEF Replay, Coalesce, rows
  <2> QED BY <1>2, <1>3, <1>4, <2>1, DraftParts, DraftsFrame DEF IInv, Core, Exists, DraftOK
<1>6. CASE r \in Requests /\ Insert(c, r)
  <2>1. /\ state[r] = "unused" /\ ~Exists(r) /\ author'[r] = draft[c].author
        /\ fresh' = fresh \cup {r}
        /\ \A q : q # r => state'[q] = state[q] /\ author'[q] = author[q] /\ content'[q] = content[q]
    BY <1>6 DEF Insert, IInv, Core, TypeOK, Exists
  <2> QED BY <1>2, <1>3, <1>4, <2>1, DraftParts, DraftsFrame DEF IInv, Core, Exists, DraftOK
<1> QED BY <1>1, <1>5, <1>6

\* A step of auto_match_request is of a call that has no submission under way.
LEMMA MatchDrafts ==
  ASSUME IInv, NEW c \in Calls, Match(c) \/ Fail(c)
  PROVE  DraftsOK' /\ Serialized'
<1>1. UNCHANGED <<rows, draft>> /\ call[c] # Idle
  <2>1. UNCHANGED <<rows, draft>>
    BY DEF Match, Skip, Rank, Recheck, Deliver, Fail
  <2>2. call[c] # Idle
    <3>1. call[c].phase \in {"committed", "ranked", "rechecked"} \/ call[c] # Idle
      BY DEF Match, Skip, Rank, Recheck, Deliver, Fail
    <3>2. call[c] = Idle => call[c].phase = "idle"
      BY DEF Idle
    <3> QED BY <3>1, <3>2
  <2> QED BY <2>1, <2>2
<1>2. \A d \in Calls \ {c} : call'[d] = call[d]
  <2>1. call \in [Calls -> Call \cup {Idle}]
    BY DEF IInv, Core, TypeOK
  <2>2. CASE Finish(c)
    BY <2>1, <2>2 DEF Finish
  <2>3. CASE Rank(c)
    BY <2>1, <2>3 DEF Rank
  <2>4. CASE Recheck(c)
    BY <2>1, <2>4 DEF Recheck
  <2> QED BY <2>2, <2>3, <2>4 DEF Match, Skip, Deliver, Fail
<1>3. \A d \in Calls : draft[d] # NoDraft => call'[d] = Idle
  BY <1>1, <1>2 DEF IInv, DraftsOK, DraftOK
<1> QED BY <1>1, <1>3, DraftsFrame DEF IInv, Core, Exists, rows

\* What other handlers do leaves locked requests, and what is not there, alone.
LEMMA OthersDrafts ==
  ASSUME IInv,
         \/ \E r \in Requests : Age(r) \/ Delete(r)
         \/ \E r \in Requests, s \in {"open", "inactive"} : SetState(r, s)
         \/ \E u \in Users, s \in Standing : SetStanding(u, s)
         \/ \E a, b \in Users : Block(a, b) \/ Unblock(a, b)
  PROVE  DraftsOK' /\ Serialized'
<1>0. TypeOK /\ \A c \in Calls : draft[c] # NoDraft => call[c] = Idle
  BY DEF IInv, Core, DraftsOK, DraftOK
<1>1. ASSUME NEW r \in Requests, Age(r) PROVE DraftsOK' /\ Serialized'
  BY <1>0, <1>1, DraftsFrame DEF IInv, Age, Exists
<1>2. ASSUME NEW r \in Requests, Delete(r) PROVE DraftsOK' /\ Serialized'
  <2>1. \A c \in Calls : draft[c].request # r
    BY <1>2, LockedIs DEF Delete
  <2>2. UNCHANGED <<draft, call>>
    BY <1>0, <1>2, DeleteStep
  <2>3. ASSUME NEW q \in fresh', Exists(q)'
        PROVE  q \in fresh /\ q \in Requests \ {r}
    BY <1>0, <1>2, DeleteStep DEF TypeOK
  <2>4. \A q \in Requests \ {r} : Exists(q)' <=> Exists(q)
    BY <1>0, <1>2, DeleteStep DEF Exists
  <2>5. ASSUME NEW c \in Calls, draft[c] # NoDraft, NEW k \in Keys,
               key[draft[c].author][k].request = draft[c].request
        PROVE  key'[draft[c].author][k] = key[draft[c].author][k]
    <3>1. draft[c].author \in Users
      BY <1>0, <2>5, DraftParts
    <3> QED BY <1>0, <1>2, <2>1, <2>5, <3>1, DeleteStep
  <2> QED BY <1>0, <1>2, <2>1, <2>2, <2>3, <2>4, <2>5, DeleteStep, DraftsFrame DEF IInv
<1>3. ASSUME NEW r \in Requests, NEW s \in {"open", "inactive"}, SetState(r, s)
      PROVE  DraftsOK' /\ Serialized'
  <2>1. \A q : Exists(q)' <=> Exists(q)
    BY <1>0, <1>3 DEF SetState, Exists, TypeOK
  <2> QED BY <1>0, <1>3, <2>1, DraftsFrame DEF IInv, SetState
<1>4. ASSUME \/ \E u \in Users, s \in Standing : SetStanding(u, s)
             \/ \E a, b \in Users : Block(a, b) \/ Unblock(a, b)
      PROVE  DraftsOK' /\ Serialized'
  <2>1. UNCHANGED <<rows, draft, call>>
    BY <1>4 DEF SetStanding, Block, Unblock
  <2> QED BY <1>0, <2>1, DraftsFrame DEF IInv, Exists, rows
<1> QED BY <1>1, <1>2, <1>3, <1>4

LEMMA NextInv == IInv /\ [Next]_vars => IInv'
<1> SUFFICES ASSUME IInv, [Next]_vars PROVE IInv'
  OBVIOUS
<1>0. Core /\ DraftsOK /\ Serialized /\ TypeOK
  BY DEF IInv, Core
<1>1. CASE UNCHANGED vars
  <2>1. Core'
    BY <1>0, <1>1, DraftOnly DEF TypeOK, vars, rows, notifications, accounts
  <2>2. DraftsOK' /\ Serialized'
    BY <1>0, <1>1 DEF DraftsOK, DraftOK, Serialized, Coalescing, Exists, vars
  <2> QED BY <2>1, <2>2 DEF IInv
<1>2. CASE Publish
  <2>1. ASSUME NEW c \in Calls, Rollback(c) PROVE DraftsOK' /\ Serialized'
    <3>1. /\ \A d \in Calls : draft'[d] = IF d = c THEN NoDraft ELSE draft[d]
          /\ UNCHANGED <<rows, call>>
          /\ \A d \in Calls : draft[d] # NoDraft => call[d] = Idle
      BY <1>0, <2>1 DEF Rollback, TypeOK, DraftsOK, DraftOK
    <3> QED BY <1>0, <3>1, DraftsFrame DEF Exists, rows
  <2> QED BY <1>0, <1>2, <2>1, PublishInv, SubmitDrafts, CommitDrafts DEF Publish, IInv
<1>3. ASSUME NEW c \in Calls, Match(c) \/ Fail(c) PROVE IInv'
  <2>1. Core'
    BY <1>0, <1>3, FinishInv, RankInv, RecheckInv, DeliverInv DEF Match, Skip, Fail
  <2> QED BY <1>3, <2>1, MatchDrafts DEF IInv
<1>4. ASSUME NEW r \in Requests, Age(r) \/ Delete(r) PROVE IInv'
  BY <1>0, <1>4, AgeInv, DeleteInv, OthersDrafts DEF IInv
<1>5. ASSUME \/ \E r \in Requests, s \in {"open", "inactive"} : SetState(r, s)
             \/ \E u \in Users, s \in Standing : SetStanding(u, s)
             \/ \E a, b \in Users : Block(a, b) \/ Unblock(a, b)
      PROVE  IInv'
  BY <1>0, <1>5, SetStateInv, SetStandingInv, BlockInv, OthersDrafts DEF IInv
<1> QED BY <1>1, <1>2, <1>3, <1>4, <1>5 DEF Next

-----------------------------------------------------------------------------

\* The inductive invariant holds in every reachable state.
THEOREM Invariance == Spec => []IInv
BY InitInv, NextInv, PTL DEF Spec

\* Tables and running calls stay well typed.
THEOREM TypeCorrect == Spec => []TypeOK
<1>1. IInv => TypeOK
  BY DEF IInv, Core
<1> QED BY <1>1, Invariance, PTL

\* Equal content of the same five minutes is one request.
THEOREM NeverTwice == Spec => []NoDuplicatePublication
<1>1. IInv => NoDuplicatePublication
  BY DEF IInv, Core
<1> QED BY <1>1, Invariance, PTL

\* A stored key names a request that exists, by its author, with its content.
THEOREM KeysName == Spec => []KeyNamesItsRequest
<1>1. IInv => KeyNamesItsRequest
  BY DEF IInv, Core, KeysOK, KeyOK, KeyNamesItsRequest
<1> QED BY <1>1, Invariance, PTL

\* The alerts of a request and its author's summary are there both, or neither
\* is: a failure in the middle leaves none.
THEOREM AlertsWithSummary == Spec => []AlertsAreSummarised
<1>1. IInv => AlertsAreSummarised
  BY DEF IInv, Core, RowsOK, RowOK, AlertsAreSummarised
<1> QED BY <1>1, Invariance, PTL

\* New alerts come from a delivery, to those it had rechecked under their locks.
LEMMA NewAlerts ==
  ASSUME Core, [Next]_vars, NEW r \in Requests, NEW u \in alerts'[r] \ alerts[r]
  PROVE  \E c \in Calls : Deliver(c) /\ call[c].request = r /\ u \in call[c].chosen
<1>1. ASSUME \A c \in Calls : ~Deliver(c) PROVE alerts'[r] \subseteq alerts[r]
  <2>1. ASSUME NEW q \in Requests, Delete(q) PROVE alerts'[r] \subseteq alerts[r]
    BY <2>1, DeleteStep DEF Core
  <2>2. CASE Publish
    BY <2>2 DEF Publish, Submit, Rollback, Commit, Replay, Coalesce, Insert, Answer, notifications
  <2>3. ASSUME NEW c \in Calls, Match(c) \/ Fail(c) PROVE alerts' = alerts
    BY <1>1, <2>3 DEF Match, Skip, Rank, Recheck, Fail, notifications
  <2>4. ASSUME NEW q \in Requests, Age(q) \/ \E x \in {"open", "inactive"} : SetState(q, x)
        PROVE  alerts' = alerts
    BY <2>4 DEF Age, SetState, notifications
  <2>5. ASSUME \/ UNCHANGED vars
               \/ \E v \in Users, x \in Standing : SetStanding(v, x)
               \/ \E a, b \in Users : Block(a, b) \/ Unblock(a, b)
        PROVE  alerts' = alerts
    BY <2>5 DEF SetStanding, Block, Unblock, notifications, vars
  <2> QED BY <2>1, <2>2, <2>3, <2>4, <2>5 DEF Next
<1>2. PICK c \in Calls : Deliver(c)
  BY <1>1
<1>3. /\ call[c].request \in Requests
      /\ alerts' = [alerts EXCEPT ![call[c].request] = call[c].chosen]
  BY <1>2, DeliverStep
<1> QED BY <1>2, <1>3 DEF Core, TypeOK

\* An alert is committed only to a mentor in good standing, for an author in
\* good standing, although both were read steps before.
THEOREM OnlyMentorsAlerted == Spec => AlertsReachMentors
<1>1. IInv /\ [Next]_vars =>
        [\A r \in Requests : \A u \in alerts'[r] \ alerts[r] :
           /\ standing[u] = "mentor" /\ standing'[u] = "mentor"
           /\ standing[author[r]] # "outsider"]_vars
  <2> SUFFICES ASSUME IInv, [Next]_vars, NEW r \in Requests, NEW u \in alerts'[r] \ alerts[r]
               PROVE  /\ standing[u] = "mentor" /\ standing'[u] = "mentor"
                      /\ standing[author[r]] # "outsider"
    OBVIOUS
  <2>1. PICK c \in Calls : Deliver(c) /\ call[c].request = r /\ u \in call[c].chosen
    BY NewAlerts DEF IInv
  <2>2. CallOK(c) /\ Locking(c) /\ call[c].phase = "rechecked" /\ standing' = standing
    BY <2>1, DeliverStep DEF IInv, accounts
  <2> QED BY <2>1, <2>2 DEF CallOK
<1> QED BY <1>1, Invariance, PTL DEF Spec, AlertsReachMentors

\* No alert crosses a block that its call could have read.
THEOREM BlocksRespected == Spec => AlertsRespectBlocks
<1>1. IInv /\ [Next]_vars =>
        [\A r \in Requests : \A u \in alerts'[r] \ alerts[r] :
           {author[r], u} \in blocked => \E c \in overtaken : call[c].request = r]_vars
  <2> SUFFICES ASSUME IInv, [Next]_vars, NEW r \in Requests, NEW u \in alerts'[r] \ alerts[r],
                      {author[r], u} \in blocked
               PROVE  \E c \in overtaken : call[c].request = r
    OBVIOUS
  <2>1. PICK c \in Calls : Deliver(c) /\ call[c].request = r /\ u \in call[c].chosen
    BY NewAlerts DEF IInv
  <2>2. CallOK(c) /\ Locking(c) /\ call[c].phase = "rechecked"
    BY <2>1, DeliverStep DEF IInv
  <2> QED BY <2>1, <2>2 DEF CallOK
<1> QED BY <1>1, Invariance, PTL DEF Spec, AlertsRespectBlocks

-----------------------------------------------------------------------------
(* Publication implements OnceOnly.                                          *)

Meaning == [a \in Users |-> [k \in Keys |-> StillMeant(answered[a][k])]]
Stored  == [a \in Users |-> [k \in Keys |-> key[a][k].request]]

\* What a key means to the client is what is stored for it.
LEMMA MeaningIsStored ==
  ASSUME Core, NEW a \in Users, NEW k \in Keys
  PROVE  StillMeant(answered[a][k]) = key[a][k].request
<1>1. KeyOK(a, k) /\ TypeOK
  BY DEF Core, KeysOK
<1> QED BY <1>1, KeyParts, NoneAssumption DEF StillMeant, KeyOK

LEMMA RefinesInit == Init => Promise!Init
BY DEF Init, Promise!Init, StillMeant

\* What a commit stores for a key.
LEMMA BoundMeaning ==
  ASSUME Core, NEW c \in Calls, NEW a \in Users, NEW k \in Keys, NEW r \in Requests,
         a = draft[c].author, k = draft[c].key, Bind(c, r)
  PROVE  Stored' = [Stored EXCEPT ![a][k] = r] /\ Stored[a][k] = None
<1>1. k # None /\ key \in [Users -> [Keys -> Binding \cup {Unbound}]]
  BY NoneAssumption DEF Core, TypeOK
<1> DEFINE B == [request |-> r, hash |-> draft[c].content]
<1>2. B.request = r
  OBVIOUS
<1>3. key' = [key EXCEPT ![a][k] = B] /\ key[a][k] = Unbound
  BY <1>1 DEF Bind, BoundTo
<1> HIDE DEF B
<1>4. \A b \in Users, l \in Keys : key'[b][l] = IF b = a /\ l = k THEN B ELSE key[b][l]
  BY <1>1, <1>3
<1>5. \A b \in Users, l \in Keys :
        key'[b][l].request = IF b = a /\ l = k THEN r ELSE key[b][l].request
  BY <1>2, <1>4
<1>6. Stored[a][k] = None
  BY <1>3 DEF Unbound, Stored
<1>7. Stored' = [b \in Users |-> [l \in Keys |->
                   IF b = a /\ l = k THEN r ELSE key[b][l].request]]
  BY <1>5 DEF Stored
<1>8. [Stored EXCEPT ![a] = [Stored[a] EXCEPT ![k] = r]]
        = [b \in Users |-> [l \in Keys |-> IF b = a /\ l = k THEN r ELSE key[b][l].request]]
  BY DEF Stored
<1> QED BY <1>6, <1>7, <1>8

\* A submission without a key creates a request or nothing; one with a key
\* gives the key its meaning, or repeats it.
LEMMA RefinesCommit ==
  ASSUME Core, Core', NEW c \in Calls, Commit(c), DraftOK(c)
  PROVE  Promise!Next \/ UNCHANGED Promise!vars
<1>0. /\ draft[c] # NoDraft
      /\ draft[c].author \in Users /\ draft[c].key \in Keys \cup {None}
      /\ draft[c].request \in Requests \cup {None}
  <2>1. draft[c] # NoDraft
    BY DEF Commit, Replay, Coalesce, Insert
  <2> QED BY <2>1, DraftParts DEF Core
<1>b. PICK a \in Users, k \in Keys \cup {None} : a = draft[c].author /\ k = draft[c].key
  BY <1>0
<1>1. UNCHANGED <<alerts, summary>>
  BY DEF Commit, Replay, Coalesce, Insert, Answer, notifications
<1>2. \A b \in Users, l \in Keys : /\ StillMeant(answered[b][l]) = key[b][l].request
                                   /\ StillMeant(answered[b][l])' = key'[b][l].request
  <2>1. \A b \in Users, l \in Keys : StillMeant(answered[b][l]) = key[b][l].request
    BY MeaningIsStored
  <2>2. ASSUME NEW b \in Users, NEW l \in Keys
        PROVE StillMeant(answered[b][l])' = key'[b][l].request
    <3>1. KeyOK(b, l)' /\ TypeOK'
      BY DEF Core, KeysOK
    <3>2. /\ key'[b][l] # Unbound => key'[b][l].request \in Requests
          /\ key'[b][l] = Unbound => key'[b][l].request = None
      BY <3>1 DEF TypeOK, Binding, Unbound
    <3> QED BY <3>1, <3>2, NoneAssumption DEF StillMeant, KeyOK
  <2> QED BY <2>1, <2>2
<1>3. Meaning = Stored
  BY <1>2 DEF Meaning, Stored
<1>4. Meaning' = Stored'
  BY <1>2 DEF Meaning, Stored
<1>5. CASE Replay(c)
  <2>1. key' = key /\ author' = author
    BY <1>5 DEF Replay, rows
  <2> QED BY <1>1, <1>3, <1>4, <2>1 DEF Promise!vars, Meaning, Stored
<1>6. CASE Coalesce(c)
  <2> DEFINE r == draft[c].request
  <2>1. /\ author' = author /\ author[r] = a /\ Bind(c, r)
        /\ r \in Requests
    BY <1>0, <1>b, <1>6 DEF Coalesce, DraftOK
  <2> HIDE DEF r
  <2>2. CASE k = None
    <3>1. key' = key
      BY <1>b, <2>1, <2>2 DEF Bind
    <3> QED BY <1>1, <1>3, <1>4, <2>1, <3>1 DEF Promise!vars, Meaning, Stored
  <2>3. CASE k \in Keys /\ k # None
    <3>0. Stored' = [Stored EXCEPT ![a][k] = r] /\ Stored[a][k] = None
      BY <1>b, <2>1, <2>3, BoundMeaning
    <3>1. Meaning' = [Meaning EXCEPT ![a][k] = r] /\ Meaning[a][k] = None
      BY <1>3, <1>4, <3>0
    <3>2. Promise!SubmitAs(a, k, r)
      BY <1>1, <2>1, <3>1 DEF Promise!SubmitAs, Meaning
    <3> QED BY <1>0, <2>1, <2>3, <3>2 DEF Promise!Next
  <2> QED BY <1>0, <2>2, <2>3
<1>7. ASSUME NEW r \in Requests, Insert(c, r)
      PROVE Promise!Next \/ UNCHANGED Promise!vars
  <2>1. author' = [author EXCEPT ![r] = a] /\ Bind(c, r) /\ state[r] = "unused"
    BY <1>b, <1>7 DEF Insert
  <2>2. author[r] = None
    BY <2>1 DEF Core, RowsOK, RowOK, Exists
  <2>3. Promise!Create(a, r)
    BY <1>1, <2>1, <2>2 DEF Promise!Create
  <2>4. CASE k = None
    <3>1. key' = key
      BY <1>b, <2>1, <2>4 DEF Bind
    <3>2. Promise!SubmitOnce(a, r)
      BY <1>3, <1>4, <2>3, <3>1 DEF Promise!SubmitOnce, Meaning, Stored
    <3> QED BY <1>0, <3>2 DEF Promise!Next
  <2>5. CASE k \in Keys /\ k # None
    <3>0. Stored' = [Stored EXCEPT ![a][k] = r] /\ Stored[a][k] = None
      BY <1>b, <2>1, <2>5, BoundMeaning
    <3>1. Meaning' = [Meaning EXCEPT ![a][k] = r] /\ Meaning[a][k] = None
      BY <1>3, <1>4, <3>0
    <3>2. Promise!SubmitAs(a, k, r)
      BY <2>3, <3>1 DEF Promise!SubmitAs, Meaning
    <3> QED BY <1>0, <2>5, <3>2 DEF Promise!Next
  <2> QED BY <1>0, <2>4, <2>5
<1> QED BY <1>5, <1>6, <1>7 DEF Commit

\* Submit and Rollback, which only the submissions under way see.
LEMMA RefinesSubmit ==
  ASSUME UNCHANGED <<rows, notifications, answered>>
  PROVE  UNCHANGED Promise!vars
BY DEF Promise!vars, StillMeant, Exists, rows, notifications

LEMMA RefinesDeliver ==
  ASSUME Core, NEW c \in Calls, Deliver(c)
  PROVE  Promise!Next
<1> DEFINE r == call[c].request
           S == call[c].chosen
<1>1. /\ r \in Requests /\ CallOK(c) /\ Locking(c) /\ S \in SUBSET Users
      /\ alerts' = [alerts EXCEPT ![r] = S] /\ summary' = summary \cup {r}
      /\ UNCHANGED <<rows, accounts, draft, answered>>
  BY DeliverStep
<1>2. /\ r \notin summary /\ Cardinality(S) <= TopMatches /\ author[r] \notin S
      /\ state[r] = "open"
  BY <1>1 DEF CallOK
<1>3. author[r] # None
  BY <1>1, <1>2, NoneAssumption DEF Core, RowsOK, RowOK, Exists
<1>4. Meaning' = Meaning /\ author' = author
  BY <1>1 DEF Meaning, StillMeant, Exists, rows
<1> HIDE DEF r, S
<1>5. Promise!Announce(r, S)
  BY <1>1, <1>2, <1>3, <1>4 DEF Promise!Announce, Meaning
<1> QED BY <1>1, <1>2, <1>5 DEF Promise!Next

LEMMA RefinesDelete ==
  ASSUME Core, NEW r \in Requests, Delete(r)
  PROVE  Promise!Next
<1>0. TypeOK
  BY DEF Core
<1>1. ASSUME NEW a \in Users, NEW k \in Keys
      PROVE  StillMeant(answered[a][k])' = IF StillMeant(answered[a][k]) = r THEN None
                                           ELSE StillMeant(answered[a][k])
  <2>1. answered' = answered /\ answered[a][k] \in Requests \cup {None}
    BY <1>0, DeleteStep, KeyParts
  <2>2. CASE answered[a][k] = r
    BY <1>0, <2>1, <2>2, DeleteStep DEF StillMeant, Exists
  <2>3. CASE answered[a][k] # r
    BY <1>0, <2>1, <2>3, DeleteStep DEF StillMeant, Exists
  <2> QED BY <2>2, <2>3
<1>2. Promise!Forget(r)
  BY <1>1 DEF Delete, Promise!Forget
<1> QED BY <1>2 DEF Promise!Next

LEMMA RefinesStep == IInv /\ IInv' /\ [Next]_vars => [Promise!Next]_Promise!vars
<1> SUFFICES ASSUME IInv, IInv', [Next]_vars
             PROVE  Promise!Next \/ UNCHANGED Promise!vars
  OBVIOUS
<1>0. Core /\ Core' /\ DraftsOK
  BY DEF IInv
<1>1. CASE Publish
  <2>1. CASE \/ \E c \in Calls, a \in Users, k \in Keys \cup {None}, h \in Contents :
                  Submit(c, a, k, h)
             \/ \E c \in Calls : Rollback(c)
    BY <2>1, RefinesSubmit DEF Submit, Rollback
  <2>2. CASE \E c \in Calls : Commit(c)
    BY <1>0, <2>2, RefinesCommit DEF DraftsOK
  <2> QED BY <1>1, <2>1, <2>2 DEF Publish
<1>2. CASE \E c \in Calls : Deliver(c)
  BY <1>0, <1>2, RefinesDeliver
<1>3. CASE \E r \in Requests : Delete(r)
  BY <1>0, <1>3, RefinesDelete
<1>4. ASSUME \/ UNCHANGED vars
             \/ \E c \in Calls : Skip(c) \/ Rank(c) \/ Recheck(c) \/ Fail(c)
             \/ \E r \in Requests : Age(r)
             \/ \E u \in Users, s \in Standing : SetStanding(u, s)
             \/ \E a, b \in Users : Block(a, b) \/ Unblock(a, b)
      PROVE  UNCHANGED Promise!vars
  <2>1. UNCHANGED <<state, author, answered, alerts, summary>>
    BY <1>4 DEF Skip, Rank, Recheck, Fail, Age, SetStanding, Block, Unblock, rows, notifications, vars
  <2> QED BY <2>1 DEF Promise!vars, StillMeant, Exists
<1>5. ASSUME NEW r \in Requests, NEW s \in {"open", "inactive"}, SetState(r, s)
      PROVE  UNCHANGED Promise!vars
  <2>1. UNCHANGED <<author, answered, alerts, summary>>
    BY <1>5 DEF SetState, notifications
  <2>2. \A q \in Requests : Exists(q)' <=> Exists(q)
    BY <1>0, <1>5 DEF SetState, Exists, Core, TypeOK
  <2>3. \A a \in Users, k \in Keys : StillMeant(answered[a][k])' = StillMeant(answered[a][k])
    BY <1>0, <2>1, <2>2, KeyParts DEF StillMeant, Core
  <2> QED BY <2>1, <2>3 DEF Promise!vars
<1> QED BY <1>1, <1>2, <1>3, <1>4, <1>5 DEF Next, Match

\* Retries, aliases, concurrent calls and failures never give a key a second
\* request or a request a second announcement.
THEOREM Refinement == Spec => ImplementsOnceOnly
BY RefinesInit, RefinesStep, Invariance, PTL DEF Spec, ImplementsOnceOnly, Promise!Spec

=============================================================================
