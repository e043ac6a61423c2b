------------------------------ MODULE GatewayProofs ------------------------------
(*****************************************************************************)
(* Proofs about the gateway: the rate limiter by itself and under the HTTP   *)
(* handler, for any keys, limits, window, capacity and requests, and the     *)
(* WebSocket tunnel, for any connections, users and limits.                  *)
(*                                                                           *)
(* The limiter: the argument relates the table to the calls let in: a key's  *)
(* window starts at one of them, a limit of calls back from its start a      *)
(* whole window has passed, and a window is dropped only when that is        *)
(* already true of the present.  A refusal promises a time at which the      *)
(* table has room again, and nothing but a call let in takes that room.      *)
(*                                                                           *)
(* The tunnel: the set connections holds exactly the live handlers, and a    *)
(* handler knows its user only once its place is counted, so that cleanup()  *)
(* gives back what the admission took, whichever callback comes first.       *)
(*****************************************************************************)
EXTENDS WebSocketGateway, GatewayProxy, FiniteSetTheorems, SequenceTheorems,
        WellFoundedInduction, TLAPS

-----------------------------------------------------------------------------
(* The limiter.                                                              *)

\* The n times g at which a key was let in are in order, and not in the future.
Ordered(g, n, t) ==
  /\ \A i \in 1 .. n : g[i] \in Nat /\ g[i] <= t
  /\ \A i, j \in 1 .. n : i <= j => g[i] <= g[j]

\* A window that starts at s counts the last c calls, and a limit L of calls
\* before its first one it is a whole window back.
Started(g, n, c, s, L) ==
  /\ c \in 1 .. L
  /\ c <= n
  /\ g[n - c + 1] = s
  /\ \A i \in 1 .. n : i <= n - c + 1 - L => s - g[i] >= Window

\* A key without a window: what Started says of the start is true at t.
Rested(g, n, t, L) ==
  \A i \in 1 .. n : i <= n + 1 - L => t - g[i] >= Window

\* Twice the limit of calls take a window or longer.
Spaced(g, n, L) ==
  \A i, j \in 1 .. n : j = i + 2 * L - 1 => g[j] - g[i] >= Window

\* h continues g with a call at t.
Continues(h, g, n, t) ==
  /\ h[n + 1] = t
  /\ \A i \in 1 .. n : h[i] = g[i]

Windowed(table, k, g, t) ==
  /\ Ordered(g, Len(g), t)
  /\ Spaced(g, Len(g), Limit[k])
  /\ k \in DOMAIN table =>
       Started(g, Len(g), table[k].count, table[k].startedAt, Limit[k])
  /\ k \notin DOMAIN table => Rested(g, Len(g), t, Limit[k])

\* The table is a table of windows within its capacity.
Table(table) == DOMAIN table \subseteq Keys /\ table \in [DOMAIN table -> Entry]

Fits(table) ==
  /\ Table(table)
  /\ IsFiniteSet(DOMAIN table)
  /\ Cardinality(DOMAIN table) <= MaxEntries

\* Whoever was refused may come back when it was told to, if nobody is let in.
PromisesStand ==
  \A p \in promises :
    \A t \in Nat : t >= now /\ t >= p.at => Take(entries, p.key, t).allowed

\* The inductive invariant.
LimiterInv ==
  /\ LimiterTypeOK
  /\ Fits(entries)
  /\ setBack => \A k \in Keys : grants[k] = << >>
  /\ ~setBack => \A k \in Keys : Windowed(entries, k, grants[k], now)
  /\ PromisesStand

-----------------------------------------------------------------------------
(* The history of one key.                                                   *)

\* A call at the present keeps the times in order.
LEMMA OrderedStill ==
  ASSUME NEW g, NEW h, NEW n \in Nat, NEW t \in Nat,
         Continues(h, g, n, t), Ordered(g, n, t)
  PROVE  Ordered(h, n + 1, t)
<1>1. ASSUME NEW i \in 1 .. n + 1 PROVE h[i] \in Nat /\ h[i] <= t
  BY DEF Continues, Ordered
<1>2. ASSUME NEW i \in 1 .. n + 1, NEW j \in 1 .. n + 1, i <= j PROVE h[i] <= h[j]
  <2>1. CASE j = n + 1
    BY <1>1, <2>1 DEF Continues
  <2>2. CASE j # n + 1
    BY <1>2, <2>2 DEF Continues, Ordered
  <2> QED BY <2>1, <2>2
<1> QED BY <1>1, <1>2 DEF Ordered

\* One more call in the window the key has.
LEMMA CountedCall ==
  ASSUME NEW g, NEW h, NEW n \in Nat, NEW t \in Nat, NEW L \in Nat \ {0},
         NEW c \in Nat, NEW s \in Nat, Continues(h, g, n, t),
         Ordered(g, n, t), Spaced(g, n, L), Started(g, n, c, s, L), c < L
  PROVE  Spaced(h, n + 1, L) /\ Started(h, n + 1, c + 1, s, L)
<1>1. n - c + 1 \in 1 .. n /\ n + 1 - (c + 1) + 1 = n - c + 1 /\ s <= t
  BY DEF Started, Ordered
<1>2. Started(h, n + 1, c + 1, s, L)
  <2>1. h[n + 1 - (c + 1) + 1] = s
    BY <1>1 DEF Started, Continues
  <2>2. ASSUME NEW i \in 1 .. n + 1, i <= n + 1 - (c + 1) + 1 - L PROVE s - h[i] >= Window
    <3>1. i \in 1 .. n /\ i <= n - c + 1 - L
      BY <1>1, <2>2
    <3> QED BY <3>1 DEF Started, Continues
  <2> QED BY <2>1, <2>2 DEF Started
<1>3. Spaced(h, n + 1, L)
  <2> SUFFICES ASSUME NEW i \in 1 .. n + 1, NEW j \in 1 .. n + 1, j = i + 2 * L - 1
               PROVE  h[j] - h[i] >= Window
    BY DEF Spaced
  <2>1. i \in 1 .. n /\ h[i] = g[i] /\ g[i] \in Nat
    BY DEF Continues, Ordered
  <2>2. CASE j \in 1 .. n
    BY <2>1, <2>2 DEF Continues, Spaced
  <2>3. CASE j = n + 1
    <3>1. s - g[i] >= Window
      BY <2>1, <2>3 DEF Started
    <3> QED BY <1>1, <2>1, <2>3, <3>1, LimiterAssumption DEF Continues
  <2> QED BY <2>2, <2>3
<1> QED BY <1>2, <1>3

\* The first call of a new window.
LEMMA FirstCall ==
  ASSUME NEW g, NEW h, NEW n \in Nat, NEW t \in Nat, NEW L \in Nat \ {0},
         Continues(h, g, n, t), Ordered(g, n, t), Spaced(g, n, L), Rested(g, n, t, L)
  PROVE  Spaced(h, n + 1, L) /\ Started(h, n + 1, 1, t, L)
<1>1. Started(h, n + 1, 1, t, L)
  <2>1. h[n + 1 - 1 + 1] = t
    BY DEF Continues
  <2>2. ASSUME NEW i \in 1 .. n + 1, i <= n + 1 - 1 + 1 - L PROVE t - h[i] >= Window
    <3>1. i \in 1 .. n /\ i <= n + 1 - L
      BY <2>2
    <3> QED BY <3>1 DEF Rested, Continues
  <2> QED BY <2>1, <2>2 DEF Started
<1>2. Spaced(h, n + 1, L)
  <2> SUFFICES ASSUME NEW i \in 1 .. n + 1, NEW j \in 1 .. n + 1, j = i + 2 * L - 1
               PROVE  h[j] - h[i] >= Window
    BY DEF Spaced
  <2>1. i \in 1 .. n /\ h[i] = g[i]
    BY DEF Continues
  <2>2. CASE j \in 1 .. n
    BY <2>1, <2>2 DEF Continues, Spaced
  <2>3. CASE j = n + 1
    BY <2>1, <2>3 DEF Rested, Continues
  <2> QED BY <2>2, <2>3
<1> QED BY <1>1, <1>2

\* A window that is over may be forgotten.
LEMMA Forgotten ==
  ASSUME NEW g, NEW n \in Nat, NEW t \in Nat, NEW L \in Nat \ {0},
         NEW c \in Nat, NEW s \in Nat,
         Ordered(g, n, t), Started(g, n, c, s, L), t - s >= Window
  PROVE  Rested(g, n, t, L)
<1> SUFFICES ASSUME NEW i \in 1 .. n, i <= n + 1 - L
             PROVE  t - g[i] >= Window
  BY DEF Rested
<1>1. n - c + 1 \in 1 .. n /\ i <= n - c + 1
  BY DEF Started
<1>2. g[i] \in Nat /\ g[i] <= s
  BY <1>1 DEF Ordered, Started
<1> QED BY <1>2, LimiterAssumption

\* Time passes.
LEMMA LaterStill ==
  ASSUME NEW g, NEW n \in Nat, NEW t \in Nat, NEW u \in Nat, t <= u, NEW L \in Nat \ {0},
         Ordered(g, n, t)
  PROVE  /\ Ordered(g, n, u)
         /\ Rested(g, n, t, L) => Rested(g, n, u, L)
<1>1. Ordered(g, n, u)
  BY DEF Ordered
<1>2. ASSUME Rested(g, n, t, L) PROVE Rested(g, n, u, L)
  <2> SUFFICES ASSUME NEW i \in 1 .. n, i <= n + 1 - L
               PROVE  u - g[i] >= Window
    BY DEF Rested
  <2>1. g[i] \in Nat
    BY DEF Ordered
  <2>2. t - g[i] >= Window
    BY <1>2 DEF Rested
  <2> QED BY <2>1, <2>2, LimiterAssumption
<1> QED BY <1>1, <1>2

\* The times a key was let in, as a sequence.
LEMMA Appended ==
  ASSUME NEW g \in Seq(Nat), NEW t \in Nat
  PROVE  Len(g) \in Nat /\ Len(Append(g, t)) = Len(g) + 1 /\ Continues(Append(g, t), g, Len(g), t)
BY AppendProperties, LenProperties DEF Continues

-----------------------------------------------------------------------------
(* The table.                                                                *)

\* What is dropped from the table to make room, other than k, is over.
LEMMA RoomKeeps ==
  ASSUME NEW table, Table(table), NEW k \in Keys, NEW t \in Nat
  PROVE  /\ Table(Room(table, k, t))
         /\ k \notin DOMAIN Room(table, k, t)
         /\ DOMAIN Room(table, k, t) \subseteq DOMAIN table
         /\ \A j \in DOMAIN Room(table, k, t) : Room(table, k, t)[j] = table[j]
         /\ \A j \in DOMAIN table : j \in DOMAIN Room(table, k, t) \/ j = k \/ Expired(table[j], t)
BY DEF Table, Room, Only

\* What one call of take does to the table.
Taken(table, k, t, result) ==
  /\ Table(result.table)
  /\ DOMAIN result.table \subseteq DOMAIN table \cup {k}
  /\ \A j \in DOMAIN table \ {k} :
       IF j \in DOMAIN result.table THEN result.table[j] = table[j] ELSE Expired(table[j], t)
  /\ result.allowed \in BOOLEAN
  /\ IF result.allowed
     THEN /\ k \in DOMAIN result.table
          /\ \/ /\ k \in DOMAIN table /\ table[k].count < Limit[k]
                /\ result.table[k] = [table[k] EXCEPT !.count = @ + 1]
             \/ /\ ~Counts(table, k, t)
                /\ result.table[k] = [count |-> 1, startedAt |-> t]
     ELSE IF k \in DOMAIN result.table
          THEN k \in DOMAIN table /\ result.table[k] = table[k]
          ELSE ~Counts(table, k, t)

LEMMA TakeKeeps ==
  ASSUME NEW table, Table(table), NEW k \in Keys, NEW t \in Nat
  PROVE  Taken(table, k, t, Take(table, k, t))
<1> DEFINE room == Room(table, k, t)
<1>1. /\ Table(room) /\ k \notin DOMAIN room /\ DOMAIN room \subseteq DOMAIN table
      /\ \A j \in DOMAIN room : room[j] = table[j]
      /\ \A j \in DOMAIN table : j \in DOMAIN room \/ j = k \/ Expired(table[j], t)
  BY RoomKeeps
<1> HIDE DEF room
<1>2. Limit[k] \in Nat /\ (k \in DOMAIN table => table[k] \in Entry)
  BY LimiterAssumption DEF Table
<1>3. CASE Counts(table, k, t) /\ table[k].count >= Limit[k]
  <2>1. Take(table, k, t) = Refused(table, SecondsUntilReset(table[k].startedAt, t))
    BY <1>3 DEF Take
  <2> QED BY <1>3, <2>1 DEF Taken, Refused, Counts
<1>4. CASE Counts(table, k, t) /\ ~(table[k].count >= Limit[k])
  <2> DEFINE e == [table[k] EXCEPT !.count = @ + 1]
  <2>1. Take(table, k, t) = Granted(With(table, k, e))
    BY <1>4 DEF Take
  <2>2. k \in DOMAIN table /\ table[k].count < Limit[k] /\ e \in Entry
    BY <1>2, <1>4 DEF Counts, Entry
  <2> HIDE DEF e
  <2>3. /\ Table(With(table, k, e)) /\ DOMAIN With(table, k, e) = DOMAIN table
        /\ \A j \in DOMAIN table : With(table, k, e)[j] = IF j = k THEN e ELSE table[j]
    BY <2>2 DEF With, Table
  <2> QED BY <2>1, <2>2, <2>3 DEF Taken, Granted, e
<1>5. CASE ~Counts(table, k, t) /\ Cardinality(DOMAIN room) >= MaxEntries
  <2>1. Take(table, k, t) = Refused(room, FirstReset(room, t))
    BY <1>5 DEF Take, room
  <2> QED BY <1>1, <1>5, <2>1 DEF Taken, Refused
<1>6. CASE ~Counts(table, k, t) /\ ~(Cardinality(DOMAIN room) >= MaxEntries)
  <2> DEFINE e == [count |-> 1, startedAt |-> t]
  <2>1. Take(table, k, t) = Granted(With(room, k, e))
    BY <1>6 DEF Take, room
  <2>2. e \in Entry
    BY DEF Entry
  <2> HIDE DEF e
  <2>3. /\ Table(With(room, k, e)) /\ DOMAIN With(room, k, e) = DOMAIN room \cup {k}
        /\ \A j \in DOMAIN room \cup {k} : With(room, k, e)[j] = IF j = k THEN e ELSE room[j]
    BY <1>1, <2>2 DEF With, Table
  <2> QED BY <1>1, <1>6, <2>1, <2>3 DEF Taken, Granted, e
<1> QED BY <1>3, <1>4, <1>5, <1>6

\* A call never makes the table larger than its capacity.
LEMMA TakeBounded ==
  ASSUME NEW table, Fits(table), NEW k \in Keys, NEW t \in Nat
  PROVE  Fits(Take(table, k, t).table)
<1> DEFINE room == Room(table, k, t)
           e == [count |-> 1, startedAt |-> t]
           d == [table[k] EXCEPT !.count = @ + 1]
<1>0. Table(table) /\ IsFiniteSet(DOMAIN table) /\ Cardinality(DOMAIN table) <= MaxEntries
  BY DEF Fits
<1>1. DOMAIN room \subseteq DOMAIN table /\ k \notin DOMAIN room
  BY <1>0, RoomKeeps
<1>2. IsFiniteSet(DOMAIN room) /\ Cardinality(DOMAIN room) \in Nat
      /\ Cardinality(DOMAIN room) <= Cardinality(DOMAIN table) /\ Cardinality(DOMAIN table) \in Nat
  BY <1>0, <1>1, FS_Subset, FS_CardinalityType
<1> SUFFICES /\ IsFiniteSet(DOMAIN Take(table, k, t).table)
             /\ Cardinality(DOMAIN Take(table, k, t).table) <= MaxEntries
  BY <1>0, TakeKeeps DEF Taken, Fits
<1>3. CASE Counts(table, k, t)
  <2>1. DOMAIN Take(table, k, t).table = DOMAIN table
    BY <1>3 DEF Take, Counts, Granted, Refused, With
  <2> QED BY <1>0, <2>1
<1>4. CASE ~Counts(table, k, t) /\ Cardinality(DOMAIN room) >= MaxEntries
  <2>1. Take(table, k, t).table = room
    BY <1>4 DEF Take, Refused
  <2> QED BY <1>0, <1>2, <2>1, LimiterAssumption
<1>5. CASE ~Counts(table, k, t) /\ ~(Cardinality(DOMAIN room) >= MaxEntries)
  <2>1. DOMAIN Take(table, k, t).table = DOMAIN room \cup {k}
    BY <1>5 DEF Take, Granted, With
  <2>2. /\ IsFiniteSet(DOMAIN room \cup {k})
        /\ Cardinality(DOMAIN room \cup {k}) = Cardinality(DOMAIN room) + 1
    BY <1>1, <1>2, FS_AddElement
  <2> QED BY <1>2, <1>5, <2>1, <2>2, LimiterAssumption
<1> QED BY <1>3, <1>4, <1>5

\* A call of take keeps what the table says of the history of every key.
LEMMA TakeWindowed ==
  ASSUME NEW table, Table(table), NEW k \in Keys, NEW j \in Keys, NEW t \in Nat,
         NEW past \in Seq(Nat), Windowed(table, j, past, t),
         NEW result, result = Take(table, k, t)
  PROVE  Windowed(result.table, j, IF result.allowed /\ j = k THEN Append(past, t) ELSE past, t)
<1>2. Taken(table, k, t, result)
  BY TakeKeeps
<1>5. Limit[j] \in Nat \ {0} /\ (j \in DOMAIN table => table[j] \in Entry)
  BY LimiterAssumption DEF Table
<1>0. Len(past) \in Nat
  BY <1>5, LenProperties
<1>6. j \in DOMAIN table /\ Expired(table[j], t)
        => Rested(past, Len(past), t, Limit[j])
  BY <1>0, <1>5, Forgotten DEF Windowed, Expired, Entry
<1>7. ~Counts(table, j, t) => Rested(past, Len(past), t, Limit[j])
  <2>1. CASE j \notin DOMAIN table
    BY <2>1 DEF Windowed
  <2>2. CASE j \in DOMAIN table
    <3> DEFINE g == past  n == Len(g)  c == table[j].count  s == table[j].startedAt
    <3>1. Started(g, n, c, s, Limit[j]) /\ Ordered(g, n, t) /\ n \in Nat /\ c \in Nat
      BY <1>0, <1>5, <2>2 DEF Windowed, Entry
    <3>2. s <= t
      <4> HIDE DEF g, n, c, s
      <4>1. n - c + 1 \in 1 .. n /\ g[n - c + 1] = s
        BY <1>5, <3>1 DEF Started
      <4> QED BY <3>1, <4>1 DEF Ordered
    <3> QED BY <1>6, <2>2, <3>2 DEF Counts
  <2> QED BY <2>1, <2>2
<1>8. CASE j # k
  <2>1. j \in DOMAIN result.table => j \in DOMAIN table
    BY <1>2, <1>8 DEF Taken
  <2>2. j \in DOMAIN table =>
          IF j \in DOMAIN result.table THEN result.table[j] = table[j]
                                       ELSE Expired(table[j], t)
    BY <1>2, <1>8 DEF Taken
  <2> QED BY <1>6, <1>8, <2>1, <2>2 DEF Windowed
<1>9. CASE j = k /\ ~result.allowed
  <2>1. IF k \in DOMAIN result.table
        THEN k \in DOMAIN table /\ result.table[k] = table[k]
        ELSE ~Counts(table, k, t)
    BY <1>2, <1>9 DEF Taken
  <2> QED BY <1>7, <1>9, <2>1 DEF Windowed
<1>10. CASE j = k /\ result.allowed
  <2>1. /\ k \in DOMAIN result.table
        /\ \/ /\ k \in DOMAIN table /\ table[k].count < Limit[k]
              /\ result.table[k] = [table[k] EXCEPT !.count = @ + 1]
           \/ /\ ~Counts(table, k, t)
              /\ result.table[k] = [count |-> 1, startedAt |-> t]
    BY <1>2, <1>10 DEF Taken
  <2> DEFINE g == past  n == Len(g)  h == Append(g, t)  L == Limit[k]
  <2>2. Ordered(g, n, t) /\ Spaced(g, n, L) /\ n \in Nat /\ L \in Nat \ {0}
    BY <1>0, <1>5, <1>10 DEF Windowed
  <2>3. Len(h) = n + 1 /\ Continues(h, g, n, t)
    BY <1>5, <1>10, Appended
  <2>4. Ordered(h, n + 1, t)
    BY <2>2, <2>3, OrderedStill
  <2>5. /\ Spaced(h, n + 1, L)
        /\ Started(h, n + 1, result.table[k].count, result.table[k].startedAt, L)
    <3>1. CASE /\ k \in DOMAIN table /\ table[k].count < Limit[k]
               /\ result.table[k] = [table[k] EXCEPT !.count = @ + 1]
      <4> DEFINE c == table[k].count  s == table[k].startedAt
      <4>1. /\ c \in Nat /\ s \in Nat /\ c < L
            /\ result.table[k].count = c + 1 /\ result.table[k].startedAt = s
        BY <1>5, <1>10, <3>1 DEF Entry
      <4>2. Started(g, n, c, s, L)
        BY <1>10, <3>1 DEF Windowed
      <4> HIDE DEF g, n, h, L, c, s
      <4> QED BY <2>2, <2>3, <4>1, <4>2, CountedCall
    <3>2. CASE /\ ~Counts(table, k, t)
               /\ result.table[k] = [count |-> 1, startedAt |-> t]
      <4>1. Rested(g, n, t, L)
        BY <1>7, <1>10, <3>2
      <4>2. result.table[k].count = 1 /\ result.table[k].startedAt = t
        BY <3>2
      <4> HIDE DEF g, n, h, L
      <4> QED BY <2>2, <2>3, <4>1, <4>2, FirstCall
    <3> QED BY <2>1, <3>1, <3>2
  <2> HIDE DEF h, n, g, L
  <2>6. Windowed(result.table, k, h, t)
    BY <2>1, <2>3, <2>4, <2>5 DEF Windowed, L
  <2> QED BY <1>10, <2>6 DEF h, g
<1> QED BY <1>2, <1>8, <1>9, <1>10 DEF Taken

-----------------------------------------------------------------------------
(* What a refusal promises.                                                  *)

LEMMA LeastExists ==
  ASSUME NEW S \in SUBSET Nat, S # {}
  PROVE  \E m \in S : \A k \in S : m <= k
<1> DEFINE Less == {pair \in Nat \X Nat : pair[1] < pair[2]}
<1>1. IsWellFoundedOn(Less, Nat)
  BY NatLessThanWellFounded DEF OpToRel
<1>2. PICK m \in S : \A k \in S : ~ (<<k, m>> \in Less)
  BY <1>1, WFMin
<1>3. ASSUME NEW k \in S PROVE m <= k
  <2>1. k \in Nat /\ m \in Nat /\ <<k, m>> \in Nat \X Nat
    BY <1>2
  <2>2. ~ (k < m)
    BY <1>2, <2>1
  <2> QED BY <2>1, <2>2
<1> QED BY <1>3

LEMMA RoundedUp ==
  ASSUME NEW n \in Int, NEW s \in Nat \ {0}
  PROVE  /\ (n + s - 1) \div s \in Int
         /\ ((n + s - 1) \div s) * s >= n
         /\ ((n + s - 1) \div s) * s \in Int
<1> DEFINE m == n + s - 1  q == m \div s  r == m % s
<1>1. m \in Int
  OBVIOUS
<1> HIDE DEF m
<1>2. q \in Int /\ r \in 0 .. s - 1 /\ m = s * q + r
  BY <1>1
<1> HIDE DEF q, r
<1>3. s * q \in Int /\ q * s = s * q
  BY <1>2
<1>4. s * q >= n
  BY <1>2, <1>3 DEF m
<1> QED BY <1>2, <1>3, <1>4 DEF q, m

\* Seconds are rounded up: as many as told cover the rest of the window.
LEMMA SecondsSuffice ==
  ASSUME NEW start \in Nat, NEW t \in Nat
  PROVE  /\ SecondsUntilReset(start, t) \in Nat \ {0}
         /\ t + SecondsUntilReset(start, t) * Second >= start + Window
<1> DEFINE n == start + Window - t
           q == (start + Window - t + Second - 1) \div Second
<1>1. n \in Int /\ Second \in Nat \ {0}
  BY LimiterAssumption
<1>2. SecondsUntilReset(start, t) = IF q < 1 THEN 1 ELSE q
  BY DEF SecondsUntilReset
<1>3. q \in Int /\ q * Second >= n /\ q * Second \in Int
  BY <1>1, RoundedUp
<1> HIDE DEF n, q
<1>4. PICK w \in Nat \ {0} : SecondsUntilReset(start, t) = w /\ w * Second >= n
  <2>1. CASE q < 1
    <3>1. q * Second <= 0
      BY <1>1, <1>3, <2>1
    <3>2. 1 * Second >= n
      BY <1>1, <1>3, <3>1
    <3> QED BY <1>2, <2>1, <3>2
  <2>2. CASE ~ (q < 1)
    BY <1>2, <1>3, <2>2
  <2> QED BY <2>1, <2>2
<1>5. w * Second \in Int /\ Window \in Nat
  BY LimiterAssumption
<1>6. t + w * Second >= start + Window
  BY <1>4, <1>5 DEF n
<1> QED BY <1>4, <1>6

\* In a full table some window is over when FirstReset says so.
LEMMA FirstResetEnds ==
  ASSUME NEW table, Table(table), NEW t \in Nat, DOMAIN table # {},
         \A j \in DOMAIN table : table[j].startedAt <= t
  PROVE  /\ FirstReset(table, t) \in Nat
         /\ \E j \in DOMAIN table :
              t + FirstReset(table, t) * Second >= table[j].startedAt + Window
<1> DEFINE ends == {SecondsUntilReset(table[j].startedAt, t) : j \in DOMAIN table}
                     \cup {SecondsUntilReset(t, t)}
           first == FirstReset(table, t)
<1>1. \A j \in DOMAIN table : table[j].startedAt \in Nat
  BY DEF Table, Entry
<1>2. ends \in SUBSET Nat /\ ends # {}
  BY <1>1, SecondsSuffice
<1>3. first \in ends
  <2>1. \E s \in ends : \A e \in ends : s <= e
    BY <1>2, LeastExists
  <2>2. first = CHOOSE s \in ends : \A e \in ends : s <= e
    BY DEF FirstReset
  <2> HIDE DEF first, ends
  <2> QED BY <2>1, <2>2
<1> HIDE DEF first
<1>4. CASE \E j \in DOMAIN table : first = SecondsUntilReset(table[j].startedAt, t)
  BY <1>1, <1>4, SecondsSuffice DEF first
<1>5. CASE first = SecondsUntilReset(t, t)
  <2>1. t + first * Second >= t + Window /\ first \in Nat
    BY <1>5, SecondsSuffice
  <2>2. PICK j \in DOMAIN table : table[j].startedAt \in Nat /\ table[j].startedAt <= t
    BY <1>1
  <2>3. first * Second \in Int /\ Window \in Nat
    BY <2>1, LimiterAssumption
  <2> QED BY <2>1, <2>2, <2>3 DEF first
<1> QED BY <1>3, <1>4, <1>5

\* A proper part of a table that fits leaves room.
LEMMA PartLeavesRoom ==
  ASSUME NEW table, Fits(table), NEW S \in SUBSET DOMAIN table, S # DOMAIN table
  PROVE  Cardinality(S) < MaxEntries
<1>1. /\ IsFiniteSet(S) /\ Cardinality(S) <= Cardinality(DOMAIN table)
      /\ Cardinality(S) # Cardinality(DOMAIN table)
  BY FS_Subset DEF Fits
<1>2. Cardinality(S) \in Nat /\ Cardinality(DOMAIN table) \in Nat
  BY <1>1, FS_CardinalityType DEF Fits
<1> QED BY <1>1, <1>2, LimiterAssumption DEF Fits

\* There is room for k when k had an entry, or when some window is over.
LEMMA RoomForOne ==
  ASSUME NEW table, Fits(table), NEW k \in Keys, NEW t \in Nat,
         \/ k \in DOMAIN table
         \/ \E j \in DOMAIN table : Expired(table[j], t)
  PROVE  Cardinality(DOMAIN Room(table, k, t)) < MaxEntries
<1> DEFINE rest == Only(table, Keys \ {k})
           pruned == Only(rest, {j \in DOMAIN rest : ~Expired(rest[j], t)})
<1>1. /\ DOMAIN rest = DOMAIN table \ {k}
      /\ \A j \in DOMAIN rest : rest[j] = table[j]
      /\ DOMAIN pruned = {j \in DOMAIN rest : ~Expired(rest[j], t)}
  BY DEF Only, Fits, Table
<1>2. Room(table, k, t) = IF Cardinality(DOMAIN rest) >= MaxEntries THEN pruned ELSE rest
  BY DEF Room
<1> HIDE DEF rest, pruned
<1>3. IsFiniteSet(DOMAIN rest) /\ Cardinality(DOMAIN rest) \in Nat
  BY <1>1, FS_Subset, FS_CardinalityType DEF Fits
<1>4. CASE ~ (Cardinality(DOMAIN rest) >= MaxEntries)
  BY <1>2, <1>3, <1>4, LimiterAssumption
<1>5. CASE Cardinality(DOMAIN rest) >= MaxEntries
  <2>1. k \notin DOMAIN table
    BY <1>1, <1>3, <1>5, PartLeavesRoom, LimiterAssumption
  <2>2. DOMAIN pruned \in SUBSET DOMAIN table /\ DOMAIN pruned # DOMAIN table
    BY <1>1, <2>1
  <2> QED BY <1>2, <1>5, <2>2, PartLeavesRoom
<1> QED BY <1>4, <1>5

LEMMA RoomAdmits ==
  ASSUME NEW table, NEW k \in Keys, NEW t \in Nat, ~Counts(table, k, t),
         Cardinality(DOMAIN Room(table, k, t)) < MaxEntries,
         IsFiniteSet(DOMAIN Room(table, k, t))
  PROVE  Take(table, k, t).allowed
<1>1. ~ (Cardinality(DOMAIN Room(table, k, t)) >= MaxEntries)
  BY FS_CardinalityType, LimiterAssumption
<1> QED BY <1>1 DEF Take, Granted

\* A refused caller that waits as long as it was told is let in, if the table
\* stays as the refusal left it and none of its windows starts in the future.
LEMMA WaitIsEnough ==
  ASSUME NEW table, Fits(table), NEW k \in Keys, NEW t \in Nat,
         \A j \in DOMAIN table : table[j].startedAt <= t,
         NEW result, result = Take(table, k, t), ~result.allowed
  PROVE  /\ result.retryAfter \in Nat
         /\ \A u \in Nat : u >= t + result.retryAfter * Second =>
              Take(result.table, k, u).allowed
<1> DEFINE room == Room(table, k, t)
<1>1. Fits(result.table)
  BY TakeBounded
<1>2. Table(table) /\ Table(result.table) /\ IsFiniteSet(DOMAIN result.table)
  BY <1>1 DEF Fits
<1>3. ASSUME NEW u \in Nat
      PROVE  IsFiniteSet(DOMAIN Room(result.table, k, u))
  BY <1>2, RoomKeeps, FS_Subset
<1>4. CASE Counts(table, k, t)
  <2> DEFINE start == table[k].startedAt
  <2>1. /\ result = Refused(table, SecondsUntilReset(start, t))
        /\ k \in DOMAIN table
    BY <1>4 DEF Take, Granted, Counts
  <2>2. result.table = table /\ result.retryAfter = SecondsUntilReset(start, t)
    BY <2>1 DEF Refused
  <2>3. start \in Nat /\ Window \in Nat
    BY <1>2, <2>1, LimiterAssumption DEF Table, Entry
  <2> HIDE DEF start
  <2>4. result.retryAfter \in Nat /\ t + result.retryAfter * Second >= start + Window
    BY <2>2, <2>3, SecondsSuffice
  <2>5. ASSUME NEW u \in Nat, u >= t + result.retryAfter * Second
        PROVE  Take(result.table, k, u).allowed
    <3>1. result.retryAfter * Second \in Int
      BY <2>4, LimiterAssumption
    <3>2. u - start >= Window
      BY <2>3, <2>4, <2>5, <3>1
    <3>3. ~Counts(table, k, u)
      BY <3>2 DEF Counts, Expired, start
    <3>4. Cardinality(DOMAIN Room(table, k, u)) < MaxEntries
      BY <2>1, RoomForOne
    <3> QED BY <1>3, <2>2, <3>3, <3>4, RoomAdmits
  <2> QED BY <2>4, <2>5
<1>5. CASE ~Counts(table, k, t)
  <2>1. /\ Cardinality(DOMAIN room) >= MaxEntries
        /\ result = Refused(room, FirstReset(room, t))
    BY <1>5 DEF Take, Granted
  <2>2. result.table = room /\ result.retryAfter = FirstReset(room, t)
    BY <2>1 DEF Refused
  <2>3. /\ Table(room) /\ k \notin DOMAIN room /\ DOMAIN room \subseteq DOMAIN table
        /\ \A j \in DOMAIN room : room[j] = table[j]
    BY <1>2, RoomKeeps
  <2>4. DOMAIN room # {}
    <3>1. Cardinality({}) = 0 /\ MaxEntries \in Nat \ {0}
      BY FS_EmptySet, LimiterAssumption
    <3> QED BY <2>1, <3>1
  <2> HIDE DEF room
  <2>5. \A j \in DOMAIN room : room[j].startedAt <= t
    BY <2>3
  <2>6. PICK j \in DOMAIN room :
          t + result.retryAfter * Second >= room[j].startedAt + Window
    BY <2>2, <2>3, <2>4, <2>5, FirstResetEnds
  <2>7. result.retryAfter \in Nat /\ room[j].startedAt \in Nat /\ Window \in Nat
    BY <2>2, <2>3, <2>4, <2>5, FirstResetEnds, LimiterAssumption DEF Table, Entry
  <2>8. ASSUME NEW u \in Nat, u >= t + result.retryAfter * Second
        PROVE  Take(result.table, k, u).allowed
    <3>1. result.retryAfter * Second \in Int
      BY <2>7, LimiterAssumption
    <3>2. u - room[j].startedAt >= Window
      BY <2>6, <2>7, <2>8, <3>1
    <3>3. Expired(room[j], u) /\ ~Counts(room, k, u)
      BY <2>3, <3>2 DEF Counts, Expired
    <3>4. Cardinality(DOMAIN Room(room, k, u)) < MaxEntries
      BY <1>1, <2>2, <3>3, RoomForOne
    <3> QED BY <1>3, <2>2, <3>3, <3>4, RoomAdmits
  <2> QED BY <2>7, <2>8
<1> QED BY <1>4, <1>5

-----------------------------------------------------------------------------
(* Calls, one or several at a time.                                          *)

\* The history of j once the calls for the keys taken are written down.
PastWith(j, taken) == IF j \in taken THEN Append(grants[j], now) ELSE grants[j]

\* The table agrees with that history, and no new window starts in the future.
InStep(table, taken) ==
  /\ Fits(table)
  /\ ~setBack => \A j \in Keys : Windowed(table, j, PastWith(j, taken), now)
  /\ (\A j \in DOMAIN entries : entries[j].startedAt <= now)
       => \A j \in DOMAIN table : table[j].startedAt <= now

LEMMA NothingTaken == LimiterInv => InStep(entries, {})
BY DEF LimiterInv, InStep, PastWith

\* One more call keeps them in step.
LEMMA TakeInStep ==
  ASSUME LimiterTypeOK, NEW table, NEW taken \in SUBSET Keys, InStep(table, taken),
         NEW k \in Keys \ taken, NEW result, result = Take(table, k, now)
  PROVE  /\ result.allowed \in BOOLEAN
         /\ InStep(result.table, IF result.allowed THEN taken \cup {k} ELSE taken)
<1> DEFINE more == IF result.allowed THEN taken \cup {k} ELSE taken
<1>1. Table(table) /\ now \in Nat /\ grants \in [Keys -> Seq(Nat)]
  BY DEF InStep, Fits, LimiterTypeOK
<1>2. Taken(table, k, now, result) /\ Fits(result.table)
  BY <1>1, TakeKeeps, TakeBounded DEF InStep
<1>3. ASSUME ~setBack, NEW j \in Keys
      PROVE  Windowed(result.table, j, PastWith(j, more), now)
  <2>1. PastWith(j, taken) \in Seq(Nat)
    BY <1>1, AppendProperties DEF PastWith
  <2>2. Windowed(table, j, PastWith(j, taken), now)
    BY <1>3 DEF InStep
  <2>3. Windowed(result.table, j,
          IF result.allowed /\ j = k THEN Append(PastWith(j, taken), now) ELSE PastWith(j, taken),
          now)
    BY <1>1, <2>1, <2>2, TakeWindowed
  <2>4. PastWith(j, more) =
          IF result.allowed /\ j = k THEN Append(PastWith(j, taken), now) ELSE PastWith(j, taken)
    BY DEF PastWith
  <2> QED BY <2>3, <2>4
<1>4. ASSUME \A j \in DOMAIN table : table[j].startedAt <= now, NEW j \in DOMAIN result.table
      PROVE  result.table[j].startedAt <= now
  <2>1. CASE j # k
    BY <1>2, <1>4, <2>1 DEF Taken
  <2>2. CASE j = k
    <3>1. \/ k \in DOMAIN table /\ result.table[k].startedAt = table[k].startedAt
          \/ result.table[k].startedAt = now
      <4>1. k \in DOMAIN table => table[k] \in Entry
        BY <1>1 DEF Table
      <4> QED BY <1>2, <2>2, <4>1 DEF Taken, Entry
    <3> QED BY <1>1, <1>4, <2>2, <3>1
  <2> QED BY <2>1, <2>2
<1> QED BY <1>2, <1>3, <1>4 DEF InStep, Taken

\* A result of calls for the keys taken, that says why k was refused if it was.
Answers(taken, k, result) ==
  /\ taken \subseteq Keys
  /\ InStep(result.table, taken)
  /\ ~result.allowed /\ (\A j \in DOMAIN entries : entries[j].startedAt <= now) =>
       /\ result.retryAfter \in Nat
       /\ \A t \in Nat : t >= now + result.retryAfter * Second => Take(result.table, k, t).allowed

\* Writing it down keeps the invariant.
LEMMA AnswerInv ==
  ASSUME LimiterInv, NEW taken, NEW k, NEW result, Answers(taken, k, result),
         entries' = result.table, Remember(taken, k, result), UNCHANGED <<now, setBack>>
  PROVE  LimiterInv'
<1>1. now \in Nat /\ setBack \in BOOLEAN /\ grants \in [Keys -> Seq(Nat)]
  BY DEF LimiterInv, LimiterTypeOK
<1>2. Fits(entries') /\ Table(entries')
  BY DEF Answers, InStep, Fits
<1>3. grants' \in [Keys -> Seq(Nat)] /\ (setBack => grants' = grants)
  BY <1>1, AppendProperties DEF Remember
<1>4. LimiterTypeOK'
  BY <1>1, <1>2, <1>3 DEF LimiterTypeOK, Table
<1>5. ASSUME ~setBack, NEW j \in Keys PROVE Windowed(entries', j, grants'[j], now)
  <2>1. grants'[j] = PastWith(j, taken)
    BY <1>5 DEF Remember, PastWith
  <2> QED BY <1>5, <2>1 DEF Answers, InStep
<1>6. PromisesStand'
  <2> SUFFICES ASSUME NEW p \in promises', NEW t \in Nat, t >= now, t >= p.at
               PROVE  Take(entries', p.key, t).allowed
    BY DEF PromisesStand
  <2>1. /\ ~result.allowed /\ ~ \E j \in DOMAIN entries : entries[j].startedAt > now
        /\ p.key = k /\ p.at = now + result.retryAfter * Second
    BY DEF Remember
  <2>2. \A j \in DOMAIN entries : entries[j].startedAt <= now
    <3>1. \A j \in DOMAIN entries : entries[j].startedAt \in Nat
      BY DEF LimiterInv, LimiterTypeOK, Entry
    <3> QED BY <1>1, <2>1, <3>1
  <2> QED BY <2>1, <2>2 DEF Answers
<1> QED BY <1>2, <1>3, <1>4, <1>5, <1>6 DEF LimiterInv, Fits

-----------------------------------------------------------------------------
(* The steps of the limiter.                                                 *)

LEMMA InitLimiter == LimiterInit => LimiterInv
<1> SUFFICES ASSUME LimiterInit PROVE LimiterInv
  OBVIOUS
<1>1. DOMAIN entries = {}
  BY DEF LimiterInit
<1>2. Table(entries)
  BY <1>1 DEF LimiterInit, Table
<1>3. LimiterTypeOK
  <2>1. grants \in [Keys -> Seq(Nat)]
    BY EmptySeq DEF LimiterInit
  <2> QED BY <1>2, <2>1 DEF LimiterInit, LimiterTypeOK, Table
<1>4. Fits(entries)
  BY <1>1, <1>2, FS_EmptySet, LimiterAssumption DEF Fits
<1>5. ASSUME NEW k \in Keys PROVE Windowed(entries, k, grants[k], now)
  <2>1. Len(grants[k]) = 0 /\ k \notin DOMAIN entries
    BY <1>1 DEF LimiterInit
  <2> QED BY <2>1 DEF Windowed, Ordered, Rested, Spaced
<1> QED BY <1>3, <1>4, <1>5 DEF LimiterInv, LimiterInit, PromisesStand

LEMMA CallInv ==
  ASSUME LimiterInv, NEW k \in Keys, Call(k)
  PROVE  LimiterInv'
<1> DEFINE result == Take(entries, k, now)
           taken == IF result.allowed THEN {k} ELSE {}
<1>1. LimiterTypeOK /\ now \in Nat /\ Fits(entries)
  BY DEF LimiterInv, LimiterTypeOK
<1>2. InStep(result.table, taken)
  <2>1. InStep(entries, {}) /\ {} \in SUBSET Keys /\ k \in Keys \ {}
    BY NothingTaken
  <2>2. InStep(result.table, IF result.allowed THEN {} \cup {k} ELSE {})
    BY <1>1, <2>1, TakeInStep
  <2>3. {} \cup {k} = {k}
    OBVIOUS
  <2> QED BY <2>2, <2>3
<1>3. Answers(taken, k, result)
  BY <1>1, <1>2, WaitIsEnough DEF Answers
<1>4. entries' = result.table /\ Remember(taken, k, result) /\ UNCHANGED <<now, setBack>>
  BY DEF Call
<1> HIDE DEF result, taken
<1> QED BY <1>3, <1>4, AnswerInv

LEMMA TickInv ==
  ASSUME LimiterInv, Tick
  PROVE  LimiterInv'
<1>1. /\ now' = now + 1 /\ UNCHANGED <<entries, grants, setBack, promises>>
      /\ now \in Nat /\ grants \in [Keys -> Seq(Nat)]
  BY DEF LimiterInv, Tick, LimiterTypeOK
<1>2. ASSUME NEW k \in Keys, ~setBack PROVE Windowed(entries', k, grants'[k], now')
  <2>1. Windowed(entries, k, grants[k], now)
    BY <1>2 DEF LimiterInv
  <2> DEFINE g == grants[k]  n == Len(g)
  <2>2. n \in Nat
    BY <1>1, LenProperties
  <2>3. Limit[k] \in Nat \ {0}
    BY LimiterAssumption
  <2>4. now <= now' /\ now' \in Nat
    BY <1>1
  <2> QED BY <1>1, <2>1, <2>2, <2>3, <2>4, LaterStill DEF Windowed
<1>3. PromisesStand'
  <2>1. \A t \in Nat : t >= now' => t >= now
    BY <1>1
  <2> QED BY <1>1, <2>1 DEF LimiterInv, PromisesStand
<1> QED BY <1>1, <1>2, <1>3 DEF LimiterInv, LimiterTypeOK, Fits

LEMMA SetClockBackInv ==
  ASSUME LimiterInv, SetClockBack
  PROVE  LimiterInv'
<1>1. /\ now' \in Nat /\ entries' = entries /\ setBack' = TRUE /\ promises' = {}
      /\ grants' = [k \in Keys |-> << >>]
  BY DEF LimiterInv, SetClockBack, LimiterTypeOK
<1> QED BY <1>1, EmptySeq DEF LimiterInv, LimiterTypeOK, Fits, PromisesStand

LEMMA SameLimiter == LimiterInv /\ UNCHANGED limiterVars => LimiterInv'
BY DEF LimiterInv, LimiterTypeOK, PromisesStand, limiterVars

LEMMA NextLimiter == LimiterInv /\ [LimiterNext]_limiterVars => LimiterInv'
BY SameLimiter, CallInv, TickInv, SetClockBackInv DEF LimiterNext

\* What the invariant says of the three properties.
LEMMA LimiterKeeps == LimiterInv => TableBounded /\ SlidingBudget /\ RetryAfterHonest
<1> SUFFICES ASSUME LimiterInv PROVE TableBounded /\ SlidingBudget /\ RetryAfterHonest
  OBVIOUS
<1>1. TableBounded
  BY DEF LimiterInv, Fits, TableBounded
<1>2. SlidingBudget
  <2> SUFFICES ASSUME NEW k \in Keys, NEW i \in 1 .. Len(grants[k]),
                      i + 2 * Limit[k] - 1 <= Len(grants[k])
               PROVE  grants[k][i + 2 * Limit[k] - 1] - grants[k][i] >= Window
    BY DEF SlidingBudget
  <2>1. grants[k] \in Seq(Nat) /\ Len(grants[k]) \in Nat /\ Limit[k] \in Nat \ {0} /\ setBack \in BOOLEAN
    BY LenProperties, LimiterAssumption DEF LimiterInv, LimiterTypeOK
  <2>2. CASE setBack
    BY <2>1, <2>2 DEF LimiterInv
  <2>3. CASE ~setBack
    <3>1. Spaced(grants[k], Len(grants[k]), Limit[k])
      BY <2>3 DEF LimiterInv, Windowed
    <3>2. i + 2 * Limit[k] - 1 \in 1 .. Len(grants[k])
      BY <2>1
    <3> QED BY <3>1, <3>2 DEF Spaced
  <2> QED BY <2>1, <2>2, <2>3
<1>3. RetryAfterHonest
  <2>1. now \in Nat /\ now >= now
    BY DEF LimiterInv, LimiterTypeOK
  <2> QED BY <2>1 DEF LimiterInv, PromisesStand, RetryAfterHonest
<1> QED BY <1>1, <1>2, <1>3

\* The table, the history and the promises agree in every reachable state.
THEOREM LimiterInvariance == LimiterSpec => []LimiterInv
BY InitLimiter, NextLimiter, PTL DEF LimiterSpec

\* The table never outgrows its capacity, for any keys and any clock.
THEOREM CapacityKept == LimiterSpec => []TableBounded
BY LimiterInvariance, LimiterKeeps, PTL

\* No span as long as a window holds twice a key's limit of calls, for any
\* limits and capacity, as long as the clock is not set back.
THEOREM BudgetKept == LimiterSpec => []SlidingBudget
BY LimiterInvariance, LimiterKeeps, PTL

\* Whoever waits as long as Retry-After says, while nobody is let in, is let in.
THEOREM RetryAfterKept == LimiterSpec => []RetryAfterHonest
BY LimiterInvariance, LimiterKeeps, PTL

-----------------------------------------------------------------------------
(* The HTTP handler, which charges several classes at once.                  *)

Stages    == {"idle"} \cup Waiting \cup Ended
Forwarded == {"none", "asked", "performed"}

\* What a request knows in each stage, and how far a forwarded call got: only a
\* request whose call went out can be past its body, fail, be answered or left.
RequestOK(r) ==
  /\ stage[r] \in Waiting => route[r] \in Routes /\ caller[r] \in Accounts
  /\ backend[r] # "none" => stage[r] \in {"fetching", "failed", "answered", "left"}

\* The inductive invariant.
ProxyInv ==
  /\ LimiterInv
  /\ stage \in [Requests -> Stages]
  /\ route \in [Requests -> Routes \cup {"none"}]
  /\ caller \in [Requests -> Accounts \cup {Nobody}]
  /\ backend \in [Requests -> Forwarded]
  /\ \A r \in Requests : RequestOK(r)

\* A call is counted in at most two classes, and never twice in one.
LEMMA ClassesAreFew ==
  ASSUME NEW x, NEW classes \in {SessionClasses(x), BodyClasses(x)}
  PROVE  /\ Len(classes) \in 0 .. 2 /\ DOMAIN classes = 1 .. Len(classes)
         /\ classes = << >> <=> Len(classes) = 0
         /\ Len(classes) = 2 => classes[1] # classes[2]
BY DEF SessionClasses, BodyClasses

LEMMA UnchargedAnswers ==
  ASSUME LimiterInv, NEW u
  PROVE  Answers({}, Uncharged(u).last, Uncharged(u))
BY NothingTaken DEF Uncharged, Answers

LEMMA NextAnswers ==
  ASSUME LimiterInv, NEW sofar, sofar.allowed \in BOOLEAN,
         Answers(sofar.taken, sofar.last, sofar),
         NEW class, NEW u, KeyOf(class, u) \in Keys \ sofar.taken,
         NEW next, next = TakeNext(sofar, class, u)
  PROVE  /\ next.allowed \in BOOLEAN
         /\ Answers(next.taken, next.last, next)
         /\ next.taken \subseteq sofar.taken \cup {KeyOf(class, u)}
<1> DEFINE k == KeyOf(class, u)
           result == Take(sofar.table, k, now)
<1>1. CASE ~sofar.allowed
  BY <1>1 DEF TakeNext
<1>2. CASE sofar.allowed
  <2>1. LimiterTypeOK /\ now \in Nat
    BY DEF LimiterInv, LimiterTypeOK
  <2>2. sofar.taken \in SUBSET Keys /\ InStep(sofar.table, sofar.taken) /\ Fits(sofar.table)
    BY DEF Answers, InStep
  <2> HIDE DEF k
  <2>3. /\ result.allowed \in BOOLEAN
        /\ InStep(result.table, IF result.allowed THEN sofar.taken \cup {k} ELSE sofar.taken)
    BY <2>1, <2>2, TakeInStep DEF k
  <2>4. ~result.allowed /\ (\A j \in DOMAIN entries : entries[j].startedAt <= now) =>
          /\ result.retryAfter \in Nat
          /\ \A t \in Nat : t >= now + result.retryAfter * Second => Take(result.table, k, t).allowed
    <3>1. k \in Keys
      BY DEF k
    <3> QED BY <2>1, <2>2, <3>1, WaitIsEnough DEF InStep
  <2>5. next = [allowed |-> result.allowed, retryAfter |-> result.retryAfter,
                table |-> result.table, last |-> k,
                taken |-> IF result.allowed THEN sofar.taken \cup {k} ELSE sofar.taken]
    BY <1>2 DEF TakeNext, k
  <2> HIDE DEF result
  <2>6. /\ next.allowed = result.allowed /\ next.retryAfter = result.retryAfter
        /\ next.table = result.table /\ next.last = k
        /\ next.taken = IF result.allowed THEN sofar.taken \cup {k} ELSE sofar.taken
    BY <2>5
  <2>7. next.taken \subseteq Keys
    BY <2>2, <2>6 DEF k
  <2> QED BY <2>3, <2>4, <2>6, <2>7 DEF Answers, k
<1> QED BY <1>1, <1>2

LEMMA AllAnswer ==
  ASSUME LimiterInv, NEW x \in Routes, NEW u \in Accounts,
         NEW classes \in {SessionClasses(x), BodyClasses(x)}, classes # << >>,
         NEW result, result = TakeAll(classes, u)
  PROVE  result.allowed \in BOOLEAN /\ Answers(result.taken, result.last, result)
<1> DEFINE one == TakeNext(Uncharged(u), classes[1], u)
           two == TakeNext(one, classes[2], u)
<1>1. /\ Len(classes) \in {1, 2} /\ (Len(classes) = 2 => classes[1] # classes[2])
      /\ \A i \in 1 .. Len(classes) : KeyOf(classes[i], u) \in Keys
  <2>1. /\ Len(classes) \in 0 .. 2 /\ DOMAIN classes = 1 .. Len(classes)
        /\ Len(classes) # 0
        /\ Len(classes) = 2 => classes[1] # classes[2]
    BY ClassesAreFew
  <2>2. \A i \in DOMAIN classes : KeyOf(classes[i], u) \in Keys
    BY KeysAssumption
  <2> QED BY <2>1, <2>2
<1>2. Uncharged(u).allowed \in BOOLEAN /\ Uncharged(u).taken = {}
  BY DEF Uncharged
<1>3. Answers(Uncharged(u).taken, Uncharged(u).last, Uncharged(u))
  BY <1>2, UnchargedAnswers
<1>4. /\ one.allowed \in BOOLEAN /\ Answers(one.taken, one.last, one)
      /\ one.taken \subseteq {KeyOf(classes[1], u)}
  <2>1. KeyOf(classes[1], u) \in Keys \ Uncharged(u).taken
    BY <1>1, <1>2
  <2>2. Uncharged(u).allowed \in BOOLEAN
    BY <1>2
  <2>3. /\ one.allowed \in BOOLEAN /\ Answers(one.taken, one.last, one)
        /\ one.taken \subseteq Uncharged(u).taken \cup {KeyOf(classes[1], u)}
    BY <1>3, <2>1, <2>2, NextAnswers
  <2> QED BY <1>2, <2>3
<1>5. CASE Len(classes) = 1
  BY <1>4, <1>5 DEF TakeAll
<1>6. CASE Len(classes) = 2
  <2>1. KeyOf(classes[2], u) \in Keys /\ KeyOf(classes[2], u) # KeyOf(classes[1], u)
    BY <1>1, <1>6 DEF KeyOf
  <2>2. result = two
    BY <1>6 DEF TakeAll
  <2> HIDE DEF one
  <2>3. two.allowed \in BOOLEAN /\ Answers(two.taken, two.last, two)
    BY <1>4, <2>1, NextAnswers
  <2> QED BY <2>2, <2>3
<1> QED BY <1>1, <1>5, <1>6

\* Charging the classes of a call, or none, keeps the limiter's invariant.
LEMMA ChargeInv ==
  ASSUME LimiterInv, NEW x \in Routes, NEW u \in Accounts,
         NEW classes \in {SessionClasses(x), BodyClasses(x)}, classes # << >>,
         Charge(TakeAll(classes, u))
  PROVE  LimiterInv'
<1> DEFINE result == TakeAll(classes, u)
<1>1. Answers(result.taken, result.last, result)
  BY AllAnswer
<1>2. /\ entries' = result.table /\ Remember(result.taken, result.last, result)
      /\ UNCHANGED <<now, setBack>>
  BY DEF Charge
<1> HIDE DEF result
<1> QED BY <1>1, <1>2, AnswerInv

\* A request moves on, or ends.
LEMMA RequestInv ==
  ASSUME ProxyInv, LimiterInv', NEW r \in Requests,
         NEW s \in Stages, NEW x \in Routes \cup {"none"}, NEW u \in Accounts \cup {Nobody},
         NEW b \in Forwarded,
         stage' = [stage EXCEPT ![r] = s], route' = [route EXCEPT ![r] = x],
         caller' = [caller EXCEPT ![r] = u], backend' = [backend EXCEPT ![r] = b],
         s \in Waiting => x \in Routes /\ u \in Accounts,
         b # "none" => s \in {"fetching", "failed", "answered", "left"}
  PROVE  ProxyInv'
<1>1. ASSUME NEW q \in Requests PROVE RequestOK(q)'
  <2>1. RequestOK(q)
    BY DEF ProxyInv
  <2>2. CASE q = r
    BY <2>2 DEF ProxyInv, RequestOK
  <2>3. CASE q # r
    BY <2>1, <2>3 DEF ProxyInv, RequestOK
  <2> QED BY <2>2, <2>3
<1> QED BY <1>1 DEF ProxyInv

LEMMA InitProxy == ProxyInit => ProxyInv
<1> SUFFICES ASSUME ProxyInit PROVE ProxyInv
  OBVIOUS
<1>1. LimiterInv
  BY InitLimiter DEF ProxyInit
<1>2. \A r \in Requests : RequestOK(r)
  BY DEF ProxyInit, RequestOK, Waiting
<1> QED BY <1>1, <1>2 DEF ProxyInit, ProxyInv, Stages, Forwarded

\* What ends a request leaves the limiter and the forwarded call alone.
LEMMA EndRequestInv ==
  ASSUME ProxyInv, LimiterInv', NEW r \in Requests, NEW o \in Ended,
         EndRequest(r, o), UNCHANGED backend,
         backend[r] # "none" => o # "refused"
  PROVE  ProxyInv'
<1>1. backend[r] \in Forwarded /\ backend' = [backend EXCEPT ![r] = backend[r]]
  BY DEF ProxyInv
<1>2. o \in Stages /\ o \notin Waiting /\ (o # "refused" => o \in {"failed", "answered", "left"})
  BY DEF Stages, Ended, Waiting
<1>3. /\ stage' = [stage EXCEPT ![r] = o] /\ route' = [route EXCEPT ![r] = "none"]
      /\ caller' = [caller EXCEPT ![r] = Nobody]
  BY DEF EndRequest
<1> QED BY <1>1, <1>2, <1>3, RequestInv

LEMMA ArriveInv ==
  ASSUME ProxyInv, NEW r \in Requests, NEW x \in Routes, NEW u \in Accounts, Arrive(r, x, u)
  PROVE  ProxyInv'
<1>1. LimiterInv' /\ backend' = [backend EXCEPT ![r] = "none"] /\ "none" \in Forwarded
  BY SameLimiter DEF ProxyInv, Arrive, Forwarded
<1>2. CASE EndRequest(r, "refused")
  <2>1. "refused" \in Stages /\ "refused" \notin Waiting
    BY DEF Stages, Ended, Waiting
  <2> QED BY <1>1, <1>2, <2>1, RequestInv DEF EndRequest
<1>3. CASE ~EndRequest(r, "refused")
  <2> DEFINE s == IF NeedsSession(x) THEN "verifying" ELSE "reading"
  <2>1. s \in Stages
    BY DEF Stages, Waiting
  <2>2. /\ stage' = [stage EXCEPT ![r] = s] /\ route' = [route EXCEPT ![r] = x]
        /\ caller' = [caller EXCEPT ![r] = u]
    BY <1>3 DEF Arrive
  <2> HIDE DEF s
  <2> QED BY <1>1, <2>1, <2>2, RequestInv
<1> QED BY <1>2, <1>3

\* A request moves on with its route and its caller.
LEMMA GotoInv ==
  ASSUME ProxyInv, LimiterInv', NEW r \in Requests, NEW s \in Waiting, NEW b \in Forwarded,
         stage[r] \in Waiting, Goto(r, s), backend' = [backend EXCEPT ![r] = b],
         b # "none" => s = "fetching"
  PROVE  ProxyInv'
<1>1. route[r] \in Routes /\ caller[r] \in Accounts
  BY DEF ProxyInv, RequestOK
<1>2. /\ route' = [route EXCEPT ![r] = route[r]] /\ caller' = [caller EXCEPT ![r] = caller[r]]
      /\ stage' = [stage EXCEPT ![r] = s] /\ s \in Stages
  BY DEF ProxyInv, Goto, Stages
<1> QED BY <1>1, <1>2, RequestInv

LEMMA SessionKnownInv ==
  ASSUME ProxyInv, NEW r \in Requests, NEW standing, NEW own, SessionKnown(r, standing, own)
  PROVE  ProxyInv'
<1> DEFINE classes == SessionClasses(route[r])
           charged == TakeAll(classes, caller[r])
<1>1. /\ LimiterInv /\ stage[r] = "verifying" /\ "verifying" \in Waiting
      /\ route[r] \in Routes /\ caller[r] \in Accounts /\ backend[r] = "none"
      /\ UNCHANGED backend
  BY DEF ProxyInv, RequestOK, SessionKnown, Waiting, Forwarded
<1>2. UNCHANGED limiterVars => LimiterInv'
  BY <1>1, SameLimiter
<1>3. classes # << >> /\ Charge(charged) => LimiterInv'
  BY <1>1, ChargeInv
<1>4. ~charged.allowed => classes # << >>
  BY DEF TakeAll, Uncharged
<1>5. \/ EndRequest(r, "refused") /\ LimiterInv'
      \/ Goto(r, "reading") /\ LimiterInv'
  BY <1>2, <1>3, <1>4 DEF SessionKnown
<1>6. "refused" \in Ended /\ "reading" \in Waiting /\ "none" \in Forwarded
  BY DEF Ended, Waiting, Forwarded
<1>7. backend' = [backend EXCEPT ![r] = "none"]
  BY <1>1 DEF ProxyInv
<1> QED BY <1>1, <1>5, <1>6, <1>7, EndRequestInv, GotoInv

LEMMA BodyReadInv ==
  ASSUME ProxyInv, NEW r \in Requests, BodyRead(r)
  PROVE  ProxyInv'
<1> DEFINE classes == BodyClasses(route[r])
           charged == TakeAll(classes, caller[r])
<1>1. /\ LimiterInv /\ stage[r] = "reading" /\ "reading" \in Waiting
      /\ route[r] \in Routes /\ caller[r] \in Accounts /\ backend[r] = "none"
  BY DEF ProxyInv, RequestOK, BodyRead, Waiting, Forwarded
<1>2. LimiterInv'
  BY <1>1, SameLimiter, ChargeInv DEF BodyRead
<1>3. /\ "refused" \in Ended /\ "fetching" \in Waiting /\ "asked" \in Forwarded
  BY DEF Ended, Waiting, Forwarded
<1>4. \/ Goto(r, "fetching") /\ backend' = [backend EXCEPT ![r] = "asked"]
      \/ EndRequest(r, "refused") /\ UNCHANGED backend
  BY DEF BodyRead
<1> QED BY <1>1, <1>2, <1>3, <1>4, EndRequestInv, GotoInv

\* The steps that end a request without looking at the limiter.
LEMMA EndingRequestInv ==
  ASSUME ProxyInv, NEW r \in Requests,
         \/ SessionUnknown(r) \/ SessionCheckFails(r) \/ BodyRefused(r) \/ BodyTimeout(r)
         \/ Answer(r) \/ FetchFails(r) \/ Leave(r)
  PROVE  ProxyInv'
<1>1. LimiterInv' /\ UNCHANGED backend
  BY SameLimiter DEF ProxyInv, SessionUnknown, SessionCheckFails, BodyRefused, BodyTimeout,
                     Answer, FetchFails, Leave
<1>2. PICK o \in Ended : EndRequest(r, o) /\ (o = "refused" => stage[r] \in {"verifying", "reading"})
  BY DEF SessionUnknown, SessionCheckFails, BodyRefused, BodyTimeout, Answer, FetchFails, Leave, Ended
<1>3. stage[r] \in {"verifying", "reading"} => backend[r] = "none"
  BY DEF ProxyInv, RequestOK
<1> QED BY <1>1, <1>2, <1>3, EndRequestInv

LEMMA PerformInv ==
  ASSUME ProxyInv, NEW r \in Requests, Perform(r)
  PROVE  ProxyInv'
<1>1. LimiterInv'
  BY SameLimiter DEF ProxyInv, Perform
<1>2. backend' \in [Requests -> Forwarded]
  BY DEF ProxyInv, Perform, Forwarded
<1>3. \A q \in Requests : RequestOK(q)'
  BY DEF ProxyInv, Perform, RequestOK
<1> QED BY <1>1, <1>2, <1>3 DEF ProxyInv, Perform

LEMMA NextProxy == ProxyInv /\ [ProxyNext]_proxyVars => ProxyInv'
<1> SUFFICES ASSUME ProxyInv, [ProxyNext]_proxyVars PROVE ProxyInv'
  OBVIOUS
<1>1. LimiterInv
  BY DEF ProxyInv
<1>2. ASSUME UNCHANGED requestVars, LimiterInv' PROVE ProxyInv'
  BY <1>2 DEF ProxyInv, RequestOK, requestVars
<1>3. CASE UNCHANGED proxyVars
  <2>1. UNCHANGED limiterVars /\ UNCHANGED requestVars
    BY <1>3 DEF proxyVars
  <2> QED BY <1>1, <1>2, <2>1, SameLimiter
<1>4. CASE (Tick \/ SetClockBack) /\ UNCHANGED requestVars
  BY <1>1, <1>2, <1>4, TickInv, SetClockBackInv
<1>5. ASSUME NEW r \in Requests,
             \/ \E x \in Routes, u \in Accounts : Arrive(r, x, u)
             \/ \E s \in Standing, own \in BOOLEAN : SessionKnown(r, s, own)
             \/ SessionUnknown(r) \/ SessionCheckFails(r)
             \/ BodyRead(r) \/ BodyRefused(r) \/ BodyTimeout(r)
             \/ Perform(r) \/ Answer(r) \/ FetchFails(r) \/ Leave(r)
      PROVE  ProxyInv'
  BY <1>5, ArriveInv, SessionKnownInv, BodyReadInv, EndingRequestInv, PerformInv
<1> QED BY <1>3, <1>4, <1>5 DEF ProxyNext

\* The handler's invariant, with that of the limiter it shares, always holds.
THEOREM ProxyInvariance == ProxySpec => []ProxyInv
BY InitProxy, NextProxy, PTL DEF ProxySpec

\* The budget of every key holds as handleRequest charges it: in two classes
\* at once, a later one refusing what the earlier one took.
THEOREM ProxyBudgetKept == ProxySpec => []SlidingBudget
<1>1. ProxyInv => SlidingBudget
  BY LimiterKeeps DEF ProxyInv
<1> QED BY <1>1, ProxyInvariance, PTL

\* So does the promise of a 429, whichever of the classes refused.
THEOREM ProxyRetryAfterKept == ProxySpec => []RetryAfterHonest
<1>1. ProxyInv => RetryAfterHonest
  BY LimiterKeeps DEF ProxyInv
<1> QED BY <1>1, ProxyInvariance, PTL

\* What the gateway refused was never forwarded.
THEOREM RefusedWasNotSent == ProxySpec => []RefusedIsUnsent
<1>1. ProxyInv => RefusedIsUnsent
  BY DEF ProxyInv, RequestOK, RefusedIsUnsent
<1> QED BY <1>1, ProxyInvariance, PTL

-----------------------------------------------------------------------------
(* The WebSocket tunnel.                                                     *)

\* What each phase of a handler says about its other variables.
HandlerOK(c) ==
  /\ phase[c] \in {"new", "authenticating"} => user[c] = NoUser /\ upstream[c] = "none"
  /\ phase[c] = "ended" => upstream[c] \in {"none", "destroyed"}
  /\ phase[c] \in Live <=> timer[c] # "none"

\* The set connections holds the live handlers, and only so many.
OpenOK ==
  /\ open = {c \in Connections : phase[c] \in Live}
  /\ IsFiniteSet(open)
  /\ Cardinality(open) <= MaxOpen

\* The map users counts them.
HeldOK == \A u \in Users : held[u] = Cardinality(Counted(u)) /\ held[u] <= MaxPerUser

\* The inductive invariant.
TunnelInv ==
  /\ TypeOK
  /\ OpenOK
  /\ HeldOK
  /\ \A c \in Connections : HandlerOK(c)
  /\ DrainedIsEmpty

-----------------------------------------------------------------------------

LEMMA InitTunnel == Init => TunnelInv
<1> SUFFICES ASSUME Init PROVE TunnelInv
  OBVIOUS
<1>1. TypeOK
  <2>1. early \in [Connections -> 0 .. EarlyLimit]
    BY LimitsAssumption DEF Init
  <2>2. phase \in [Connections -> Phase] /\ user \in [Connections -> Users \cup {NoUser}]
    BY DEF Init, Phase
  <2> QED BY <2>1, <2>2 DEF Init, TypeOK
<1>2. (\A c \in Connections : HandlerOK(c)) /\ DrainedIsEmpty
  BY DEF Init, Live, HandlerOK, DrainedIsEmpty
<1>3. OpenOK
  BY FS_EmptySet, LimitsAssumption DEF Init, OpenOK, Live
<1>4. HeldOK
  <2>1. \A u \in Users : Counted(u) = {}
    BY DEF Init, Counted
  <2> QED BY <2>1, FS_EmptySet, LimitsAssumption DEF Init, HeldOK
<1> QED BY <1>1, <1>2, <1>3, <1>4 DEF TunnelInv

\* A user's connections are finitely many, and their number is a number.
LEMMA CountedIsFinite ==
  ASSUME IsFiniteSet(open), NEW u \in Users
  PROVE  IsFiniteSet(Counted(u)) /\ Cardinality(Counted(u)) \in Nat
<1>1. Counted(u) \in SUBSET open
  BY DEF Counted
<1>2. IsFiniteSet(Counted(u))
  BY <1>1, FS_Subset
<1> QED BY <1>2, FS_CardinalityType

\* cleanup() gives back exactly the places its handlers held.
LEMMA ReleasedIsCounted ==
  ASSUME TunnelInv, NEW S \in SUBSET open, open' = open \ S, user' = user, held' = Released(S)
  PROVE  held' \in [Users -> Nat] /\ HeldOK'
<1>1. IsFiniteSet(open) /\ IsFiniteSet(open')
  BY FS_Difference DEF TunnelInv, OpenOK
<1>2. ASSUME NEW u \in Users
      PROVE  /\ held'[u] = Cardinality(Counted(u)') /\ held'[u] \in Nat
             /\ held'[u] <= MaxPerUser
  <2> DEFINE T == {c \in S : user[c] = u}
  <2>1. Counted(u)' = Counted(u) \ T /\ Counted(u) \cap T = T
    BY DEF Counted
  <2>2. IsFiniteSet(Counted(u)) /\ Cardinality(Counted(u)) \in Nat
    BY <1>1, CountedIsFinite
  <2>3. Cardinality(Counted(u)') = Cardinality(Counted(u)) - Cardinality(T)
    BY <2>1, <2>2, FS_Difference
  <2>4. IsFiniteSet(T) /\ IsFiniteSet(Counted(u)')
    <3>1. T \in SUBSET Counted(u) /\ Counted(u)' \in SUBSET Counted(u)
      BY <2>1
    <3> QED BY <2>2, <3>1, FS_Subset
  <2>5. Cardinality(T) \in Nat /\ Cardinality(Counted(u)') \in Nat
    BY <2>4, FS_CardinalityType
  <2>6. held[u] = Cardinality(Counted(u)) /\ held[u] <= MaxPerUser
    BY DEF TunnelInv, HeldOK
  <2>7. held'[u] = held[u] - Cardinality(T)
    BY DEF Released
  <2> HIDE DEF T
  <2> QED BY <2>2, <2>3, <2>5, <2>6, <2>7, LimitsAssumption
<1>3. held' = [u \in Users |-> held'[u]]
  BY DEF Released
<1> QED BY <1>2, <1>3 DEF HeldOK

\* Ending some of the live handlers, one or all of them, keeps the invariant.
LEMMA CleanupInv ==
  ASSUME TunnelInv, NEW S \in SUBSET open, Cleanup(S), user' = user,
         session' \in [Connections -> {"none", "pending", "settled"}],
         draining' \in BOOLEAN, draining' => draining \/ S = open
  PROVE  TunnelInv'
<1>1. open \subseteq Connections /\ \A c \in Connections : c \in open <=> phase[c] \in Live
  BY DEF TunnelInv, OpenOK
<1>2. held' \in [Users -> Nat] /\ HeldOK'
  BY ReleasedIsCounted DEF Cleanup
<1>3. TypeOK'
  <2>1. early' \in [Connections -> 0 .. EarlyLimit]
    BY LimitsAssumption DEF TunnelInv, TypeOK, Cleanup
  <2>2. phase' \in [Connections -> Phase]
    BY DEF TunnelInv, TypeOK, Cleanup, Phase
  <2> QED BY <1>1, <1>2, <2>1, <2>2 DEF TunnelInv, TypeOK, Cleanup
<1>4. OpenOK'
  <2>1. open' = {c \in Connections : phase'[c] \in Live}
    BY <1>1 DEF Cleanup, Live
  <2>2. IsFiniteSet(open') /\ Cardinality(open') <= Cardinality(open)
    BY FS_Subset DEF TunnelInv, OpenOK, Cleanup
  <2>3. Cardinality(open) \in Nat /\ Cardinality(open') \in Nat
    BY <2>2, FS_CardinalityType DEF TunnelInv, OpenOK
  <2> QED BY <2>1, <2>2, <2>3, LimitsAssumption DEF TunnelInv, OpenOK
<1>5. \A c \in Connections : HandlerOK(c)'
  <2> SUFFICES ASSUME NEW c \in Connections PROVE HandlerOK(c)'
    OBVIOUS
  <2>1. HandlerOK(c)
    BY DEF TunnelInv
  <2>2. CASE c \in S
    <3>1. phase'[c] = "ended" /\ timer'[c] = "none" /\ upstream'[c] \in {"none", "destroyed"}
      BY <2>2 DEF Cleanup
    <3> QED BY <3>1 DEF HandlerOK, Live
  <2>3. CASE c \notin S
    <3>1. /\ phase'[c] = phase[c] /\ timer'[c] = timer[c] /\ upstream'[c] = upstream[c]
          /\ user'[c] = user[c]
      BY <2>3 DEF Cleanup
    <3> QED BY <2>1, <3>1 DEF HandlerOK
  <2> QED BY <2>2, <2>3
<1>6. DrainedIsEmpty'
  BY DEF TunnelInv, DrainedIsEmpty, Cleanup
<1> QED BY <1>2, <1>3, <1>4, <1>5, <1>6 DEF TunnelInv

\* A step that only moves handlers between live phases, with the timer running,
\* leaves the two collections as they were.
LEMMA SameOpenInv ==
  ASSUME TunnelInv, TypeOK', UNCHANGED <<open, held, user, draining>>,
         \A c \in Connections : phase'[c] \in Live <=> phase[c] \in Live,
         \A c \in Connections : HandlerOK(c)'
  PROVE  TunnelInv'
<1>1. OpenOK'
  BY DEF TunnelInv, OpenOK
<1>2. HeldOK' /\ DrainedIsEmpty'
  BY DEF TunnelInv, HeldOK, Counted, DrainedIsEmpty
<1> QED BY <1>1, <1>2 DEF TunnelInv

LEMMA RefuseInv ==
  ASSUME TunnelInv, NEW c \in Connections, Refuse(c)
  PROVE  TunnelInv'
<1>1. TypeOK'
  BY DEF TunnelInv, TypeOK, Refuse, Phase
<1>2. \A d \in Connections : phase'[d] \in Live <=> phase[d] \in Live
  BY DEF TunnelInv, TypeOK, Refuse, Live
<1>3. \A d \in Connections : HandlerOK(d)'
  BY DEF TunnelInv, TypeOK, Refuse, HandlerOK, Live
<1> QED BY <1>1, <1>2, <1>3, SameOpenInv DEF Refuse

LEMMA UpgradeInv ==
  ASSUME TunnelInv, NEW c \in Connections, Upgrade(c)
  PROVE  TunnelInv'
<1>1. phase[c] = "new" /\ c \notin open /\ user[c] = NoUser
  BY DEF Upgrade, TunnelInv, OpenOK, Live, HandlerOK
<1>2. TypeOK'
  BY DEF TunnelInv, TypeOK, Upgrade, Phase, Live
<1>3. OpenOK'
  <2>1. open' = {d \in Connections : phase'[d] \in Live}
    BY DEF TunnelInv, TypeOK, OpenOK, Upgrade, Live
  <2>2. IsFiniteSet(open') /\ Cardinality(open') = Cardinality(open) + 1
    BY <1>1, FS_AddElement DEF Upgrade, TunnelInv, OpenOK
  <2>3. Cardinality(open) \in Nat /\ Cardinality(open) < MaxOpen
    BY FS_CardinalityType DEF Upgrade, TunnelInv, OpenOK
  <2> QED BY <2>1, <2>2, <2>3, LimitsAssumption DEF OpenOK
<1>4. HeldOK'
  <2>1. \A u \in Users : Counted(u)' = Counted(u)
    BY <1>1, NoUserAssumption DEF Counted, Upgrade
  <2> QED BY <2>1 DEF TunnelInv, HeldOK, Upgrade
<1>5. \A d \in Connections : HandlerOK(d)'
  BY DEF TunnelInv, TypeOK, Upgrade, HandlerOK, Live
<1>6. DrainedIsEmpty'
  BY DEF Upgrade, DrainedIsEmpty
<1> QED BY <1>2, <1>3, <1>4, <1>5, <1>6 DEF TunnelInv

LEMMA VerifiedInv ==
  ASSUME TunnelInv, NEW c \in Connections, NEW u \in Users, Verified(c, u)
  PROVE  TunnelInv'
<1>1. phase[c] = "authenticating" /\ c \in open /\ user[c] = NoUser
  BY DEF Verified, TunnelInv, OpenOK, Live, HandlerOK
<1>2. held[u] \in Nat /\ held[u] < MaxPerUser
  BY DEF Verified, Seat, TunnelInv, TypeOK
<1>3. TypeOK'
  BY <1>2 DEF TunnelInv, TypeOK, Verified, Phase, Live
<1>4. OpenOK'
  BY DEF TunnelInv, TypeOK, OpenOK, Verified, Live
<1>5. HeldOK'
  <2> SUFFICES ASSUME NEW v \in Users
               PROVE  held'[v] = Cardinality(Counted(v)') /\ held'[v] <= MaxPerUser
    BY DEF HeldOK
  <2>1. held[v] = Cardinality(Counted(v)) /\ held[v] <= MaxPerUser
    BY DEF TunnelInv, HeldOK
  <2>2. CASE v = u
    <3>1. c \notin Counted(v) /\ Counted(v)' = Counted(v) \cup {c}
      BY <1>1, <2>2, NoUserAssumption DEF Counted, Verified, TunnelInv, TypeOK
    <3>2. IsFiniteSet(Counted(v))
      BY CountedIsFinite DEF TunnelInv, OpenOK
    <3>3. Cardinality(Counted(v)') = Cardinality(Counted(v)) + 1
      BY <3>1, <3>2, FS_AddElement
    <3>4. held'[v] = held[v] + 1
      BY <2>2 DEF Verified, TunnelInv, TypeOK
    <3> QED BY <1>2, <2>1, <2>2, <3>3, <3>4, LimitsAssumption
  <2>3. CASE v # u
    <3>1. Counted(v)' = Counted(v)
      BY <1>1, <2>3, NoUserAssumption DEF Counted, Verified, TunnelInv, TypeOK
    <3>2. held'[v] = held[v]
      BY <2>3 DEF Verified, TunnelInv, TypeOK
    <3> QED BY <2>1, <3>1, <3>2
  <2> QED BY <2>2, <2>3
<1>6. \A d \in Connections : HandlerOK(d)'
  BY DEF TunnelInv, TypeOK, Verified, HandlerOK, Live
<1>7. DrainedIsEmpty'
  BY DEF TunnelInv, Verified, DrainedIsEmpty
<1> QED BY <1>3, <1>4, <1>5, <1>6, <1>7 DEF TunnelInv

\* Steps of live handlers that end none: early bytes, the upgrade, the flush.
LEMMA OnwardInv ==
  ASSUME TunnelInv, NEW c \in Connections,
         \/ EarlyBytes(c) /\ early[c] < EarlyLimit /\ ~Cleanup({c})
         \/ Upgraded(c) \/ UpstreamEnds(c) \/ SettledLate(c)
  PROVE  TunnelInv'
<1>1. TypeOK'
  <2>1. CASE EarlyBytes(c) /\ ~Cleanup({c})
    <3>1. early[c] < EarlyLimit /\ early' = [early EXCEPT ![c] = @ + 1]
      BY <2>1 DEF EarlyBytes
    <3>2. early' \in [Connections -> 0 .. EarlyLimit]
      BY <3>1, LimitsAssumption DEF TunnelInv, TypeOK
    <3> QED BY <2>1, <3>2 DEF TunnelInv, TypeOK, EarlyBytes
  <2>2. CASE Upgraded(c) \/ UpstreamEnds(c) \/ SettledLate(c)
    BY <2>2, LimitsAssumption DEF TunnelInv, TypeOK, Upgraded, UpstreamEnds, SettledLate, Phase, Live
  <2> QED BY <2>1, <2>2
<1>2. UNCHANGED <<open, held, user, draining>>
  BY DEF EarlyBytes, Upgraded, UpstreamEnds, SettledLate
<1>3. \A d \in Connections : phase'[d] \in Live <=> phase[d] \in Live
  BY DEF TunnelInv, TypeOK, EarlyBytes, Upgraded, UpstreamEnds, SettledLate, Live
<1>4. \A d \in Connections : HandlerOK(d)'
  <2> SUFFICES ASSUME NEW d \in Connections PROVE HandlerOK(d)'
    OBVIOUS
  <2>1. HandlerOK(d)
    BY DEF TunnelInv
  <2>2. CASE UNCHANGED <<phase, timer, upstream, user>>
    BY <2>1, <2>2 DEF HandlerOK
  <2>3. CASE Upgraded(c) \/ UpstreamEnds(c)
    BY <2>1, <2>3 DEF HandlerOK, TunnelInv, TypeOK, Upgraded, UpstreamEnds, Live
  <2> QED BY <2>2, <2>3 DEF EarlyBytes, SettledLate
<1> QED BY <1>1, <1>2, <1>3, <1>4, SameOpenInv

\* The callbacks that end handlers.
LEMMA EndingInv ==
  ASSUME TunnelInv,
         \/ CloseWebSockets
         \/ \E c \in Connections : \/ NotAdmitted(c) \/ End(c) \/ Expire(c)
                                   \/ EarlyBytes(c) /\ Cleanup({c})
  PROVE  TunnelInv'
<1>1. CASE CloseWebSockets
  BY <1>1, CleanupInv DEF CloseWebSockets, TunnelInv, TypeOK
<1>2. ASSUME NEW c \in Connections,
             \/ NotAdmitted(c) \/ End(c) \/ Expire(c)
             \/ EarlyBytes(c) /\ Cleanup({c})
      PROVE  TunnelInv'
  <2>1. Cleanup({c}) /\ UNCHANGED <<user, draining>>
    BY <1>2 DEF NotAdmitted, End, Expire, EarlyBytes
  <2>2. {c} \in SUBSET open
    <3>1. HandlerOK(c) /\ (phase[c] \in Live \/ timer[c] # "none")
      BY <1>2 DEF NotAdmitted, End, Expire, EarlyBytes, Live, TunnelInv
    <3> QED BY <3>1 DEF TunnelInv, OpenOK, HandlerOK
  <2>3. session' \in [Connections -> {"none", "pending", "settled"}]
    BY <1>2 DEF NotAdmitted, End, Expire, EarlyBytes, TunnelInv, TypeOK
  <2> QED BY <2>1, <2>2, <2>3, CleanupInv DEF TunnelInv, TypeOK
<1> QED BY <1>1, <1>2

LEMMA NextTunnel == TunnelInv /\ [Next]_vars => TunnelInv'
<1> SUFFICES ASSUME TunnelInv, [Next]_vars PROVE TunnelInv'
  OBVIOUS
<1>1. CASE UNCHANGED vars
  BY <1>1 DEF TunnelInv, TypeOK, OpenOK, HeldOK, Counted, HandlerOK, DrainedIsEmpty, vars
<1>2. ASSUME NEW c \in Connections, EarlyBytes(c) PROVE TunnelInv'
  <2>1. CASE Cleanup({c})
    BY <1>2, <2>1, EndingInv
  <2>2. CASE ~Cleanup({c})
    <3>1. early[c] < EarlyLimit
      BY <1>2, <2>2 DEF EarlyBytes
    <3> QED BY <1>2, <2>2, <3>1, OnwardInv
  <2> QED BY <2>1, <2>2
<1>3. ASSUME NEW c \in Connections,
             \/ Refuse(c) \/ Upgrade(c) \/ \E u \in Users : Verified(c, u)
             \/ SettledLate(c) \/ Upgraded(c) \/ UpstreamEnds(c)
      PROVE  TunnelInv'
  BY <1>3, RefuseInv, UpgradeInv, VerifiedInv, OnwardInv
<1>4. CASE CloseWebSockets \/ \E c \in Connections : NotAdmitted(c) \/ End(c) \/ Expire(c)
  BY <1>4, EndingInv
<1> QED BY <1>1, <1>2, <1>3, <1>4 DEF Next

-----------------------------------------------------------------------------

\* The inductive invariant holds in every reachable state.
THEOREM TunnelInvariance == Spec => []TunnelInv
BY InitTunnel, NextTunnel, PTL DEF Spec

\* The handlers' variables and the two collections stay well typed.
THEOREM TunnelTypeCorrect == Spec => []TypeOK
<1>1. TunnelInv => TypeOK
  BY DEF TunnelInv
<1> QED BY <1>1, TunnelInvariance, PTL

\* The map users counts the open connections exactly, and every cap holds, for
\* any number of connections, users and places.
THEOREM CountsAreExact == Spec => []CountsAndCaps
<1>1. TunnelInv => CountsAndCaps
  <2> SUFFICES ASSUME TunnelInv PROVE CountsAndCaps
    OBVIOUS
  <2>1. \A c \in Connections : early[c] <= EarlyLimit
    BY LimitsAssumption DEF TunnelInv, TypeOK
  <2> QED BY <2>1 DEF TunnelInv, CountsAndCaps, HeldOK, OpenOK
<1> QED BY <1>1, TunnelInvariance, PTL

\* What has ended holds neither a place nor an upstream, and what is open has a
\* timer that will end it.
THEOREM NothingLeft == Spec => []NothingLeaks
<1>1. TunnelInv => NothingLeaks
  BY DEF TunnelInv, NothingLeaks, OpenOK, HandlerOK, Live
<1> QED BY <1>1, TunnelInvariance, PTL

\* After the drain no connection opens again.
THEOREM StaysDrained == Spec => []DrainedIsEmpty
<1>1. TunnelInv => DrainedIsEmpty
  BY DEF TunnelInv
<1> QED BY <1>1, TunnelInvariance, PTL

=============================================================================
