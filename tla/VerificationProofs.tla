--------------------------- MODULE VerificationProofs ---------------------------
(*****************************************************************************)
(* Proofs about Verification, for any number of accounts and calls under     *)
(* way, any limits and any number of links: a stored link was mailed to the  *)
(* account it verifies, and it verifies once.                                *)
(*****************************************************************************)
EXTENDS Verification, FiniteSetTheorems, TLAPS

\* The call of a request that has not ended.
Requesting(c) == call[c] # Idle /\ call[c].kind = "request"

\* Mailboxes hold drawn links only, and never the same one.
MailIsOwn ==
  /\ \A a \in Accounts : newest[a] <= drawn /\ \A l \in mailbox[a] : l <= drawn
  /\ \A a, b \in Accounts : mailbox[a] \cap mailbox[b] # {} => a = b

\* The link of an open request is its own: nobody else was sent it, it is not
\* stored, was not the newest of anyone and verified nobody.
RequestIsFresh ==
  /\ \A c \in Calls : Requesting(c) =>
       /\ call[c].link <= drawn
       /\ \A r \in tokens : r.link # call[c].link
       /\ \A a \in Accounts : uses[a][call[c].link] = 0 /\ newest[a] # call[c].link
       /\ \A a \in Accounts : call[c].link \in mailbox[a] => a = call[c].account
       /\ call[c].at = "accepted" => call[c].link \in mailbox[call[c].account]
  /\ \A c, d \in Calls :
       Requesting(c) /\ Requesting(d) /\ call[c].link = call[d].link => c = d

\* A stored link has not been used, a used one was mailed to its user.
StoredIsUnused == \A r \in tokens : \A a \in Accounts : uses[a][r.link] = 0
UsedOnce ==
  /\ \A a \in Accounts, l \in Links :
       uses[a][l] > 0 => uses[a][l] = 1 /\ l \in mailbox[a]
  /\ \A a \in verified : \E l \in Links : uses[a][l] > 0

\* The inductive invariant.
Inv == TypeOK /\ StoredLinkWasMailed /\ MailIsOwn /\ RequestIsFresh
       /\ StoredIsUnused /\ UsedOnce
-----------------------------------------------------------------------------

LEMMA InitInv == Init => Inv
<1> SUFFICES ASSUME Init PROVE Inv
  OBVIOUS
<1>1. TypeOK
  BY FS_EmptySet, TimesAssumption DEF Init, TypeOK, Links, NoLink
<1>2. StoredLinkWasMailed /\ MailIsOwn /\ StoredIsUnused
  BY DEF Init, StoredLinkWasMailed, MailIsOwn, StoredIsUnused, NoLink
<1>3. RequestIsFresh
  BY DEF Init, RequestIsFresh, Requesting
<1>4. UsedOnce
  BY DEF Init, UsedOnce
<1> QED BY <1>1, <1>2, <1>3, <1>4 DEF Inv

\* The row a commit adds is well typed, and keeps the history finite.
LEMMA RecordTyped ==
  ASSUME TypeOK, NEW c \in Calls, call[c] # Idle, Record(c)
  PROVE  /\ attempts' \in [Accounts -> SUBSET Attempt]
         /\ answered' \in [Accounts -> SUBSET Attempt]
         /\ \A a \in Accounts : IsFiniteSet(answered'[a])
<1> DEFINE a == call[c].account
<1>1. call[c] \in Open /\ a \in Accounts
  BY DEF TypeOK, Open
<1>2. Cardinality(Twins(a, call[c].kind, call[c].start)) \in Nat
  <2>1. Twins(a, call[c].kind, call[c].start) \in SUBSET answered[a]
    BY DEF Twins
  <2> QED BY <1>1, <2>1, FS_Subset, FS_CardinalityType DEF TypeOK
<1>3. NewRow(c) \in Attempt
  BY <1>1, <1>2 DEF NewRow, Attempt, Open
<1>4. Kept(a, call[c].start) \subseteq Attempt
  BY <1>1 DEF Kept, TypeOK
<1>5. /\ attempts' = [attempts EXCEPT ![a] = Kept(a, call[c].start) \cup {NewRow(c)}]
      /\ answered' = [answered EXCEPT ![a] = answered[a] \cup {NewRow(c)}]
  BY DEF Record
<1>6. IsFiniteSet(answered[a] \cup {NewRow(c)})
  BY <1>1, FS_AddElement DEF TypeOK
<1> HIDE DEF a
<1> QED BY <1>1, <1>3, <1>4, <1>5, <1>6 DEF TypeOK

LEMMA BeginRequestInv ==
  ASSUME Inv, NEW c \in Calls, NEW a \in Accounts, BeginRequest(c, a)
  PROVE  Inv'
<1> DEFINE new == [at |-> "waiting", kind |-> "request", account |-> a,
                   link |-> drawn + 1, start |-> now]
<1>1. drawn + 1 \in Links /\ drawn \in Nat
  BY TimesAssumption DEF Inv, TypeOK, BeginRequest, Links
<1>2. new \in Open
  BY <1>1 DEF Open, Kinds, Inv, TypeOK
<1>3. /\ call' = [call EXCEPT ![c] = new] /\ drawn' = drawn + 1
      /\ UNCHANGED <<now, tokens, attempts, verified, mailbox, newest, uses, answered>>
  BY DEF BeginRequest, Begin
<1>4. TypeOK'
  BY <1>1, <1>2, <1>3, TimesAssumption DEF Inv, TypeOK, Links
<1>5. (StoredLinkWasMailed /\ MailIsOwn /\ StoredIsUnused /\ UsedOnce)'
  <2>1. MailIsOwn'
    BY <1>1, <1>3 DEF Inv, TypeOK, MailIsOwn, Links, NoLink
  <2> QED BY <2>1, <1>3 DEF Inv, StoredLinkWasMailed, StoredIsUnused, UsedOnce
<1>6. \A b \in Accounts : /\ drawn + 1 \notin mailbox[b] /\ uses[b][drawn + 1] = 0
                          /\ newest[b] # drawn + 1
  <2> TAKE b \in Accounts
  <2>1. drawn + 1 \notin mailbox[b]
    BY <1>1 DEF Inv, MailIsOwn
  <2>2. uses[b][drawn + 1] \in Nat
    BY <1>1 DEF Inv, TypeOK
  <2>3. newest[b] # drawn + 1
    BY <1>1 DEF Inv, MailIsOwn
  <2> QED BY <2>1, <2>2, <2>3, <1>1 DEF Inv, UsedOnce
<1>7. \A r \in tokens : r.link # drawn + 1
  BY <1>6 DEF Inv, StoredLinkWasMailed, TypeOK, Row
<1>8. RequestIsFresh'
  <2>1. ASSUME NEW d \in Calls, Requesting(d)'
        PROVE  /\ call'[d].link <= drawn'
               /\ \A r \in tokens' : r.link # call'[d].link
               /\ \A b \in Accounts : uses'[b][call'[d].link] = 0 /\ newest'[b] # call'[d].link
               /\ \A b \in Accounts : call'[d].link \in mailbox'[b] => b = call'[d].account
               /\ call'[d].at = "accepted" => call'[d].link \in mailbox'[call'[d].account]
    <3>1. CASE d = c
      <4>1. call'[d] = new
        BY <3>1, <1>3 DEF Inv, TypeOK
      <4> QED BY <4>1, <1>1, <1>3, <1>6, <1>7
    <3>2. CASE d # c
      <4>1. call'[d] = call[d] /\ Requesting(d)
        BY <3>2, <2>1, <1>3 DEF Inv, TypeOK, Requesting
      <4>2. call[d].link \in Nat
        BY <4>1 DEF Inv, TypeOK, Requesting, Links
      <4> QED BY <4>1, <4>2, <1>1, <1>3 DEF Inv, RequestIsFresh
    <3> QED BY <3>1, <3>2
  <2>2. ASSUME NEW d \in Calls, NEW e \in Calls, Requesting(d)', Requesting(e)',
               call'[d].link = call'[e].link
        PROVE  d = e
    <3>1. \A f \in Calls : f # c => call'[f] = call[f]
      BY <1>3 DEF Inv, TypeOK
    <3>2. call'[c].link = drawn + 1
      BY <1>3 DEF Inv, TypeOK
    <3>3. \A f \in Calls : f # c /\ Requesting(f)' => call'[f].link # drawn + 1
      BY <3>1, <1>1 DEF Inv, RequestIsFresh, Requesting, TypeOK, Links
    <3>4. CASE d # c /\ e # c
      BY <3>1, <3>4, <2>2 DEF Inv, RequestIsFresh, Requesting
    <3> QED BY <3>2, <3>3, <3>4, <2>2
  <2> QED BY <2>1, <2>2 DEF RequestIsFresh
<1> QED BY <1>4, <1>5, <1>8 DEF Inv

\* A step that only moves calls on keeps what is known of tables and mail, as
\* long as a request keeps its link and is accepted only once it is mailed.
LEMMA CallsMove ==
  ASSUME Inv, TypeOK', UNCHANGED <<tokens, verified, mailbox, drawn, newest, uses>>,
         \A d \in Calls : Requesting(d)' =>
           /\ Requesting(d) /\ call'[d].link = call[d].link
           /\ call'[d].account = call[d].account
           /\ call'[d].at = "accepted" => call[d].at = "accepted"
  PROVE  Inv'
<1>1. (StoredLinkWasMailed /\ MailIsOwn /\ StoredIsUnused /\ UsedOnce)'
  BY DEF Inv, StoredLinkWasMailed, MailIsOwn, StoredIsUnused, UsedOnce
<1>2. RequestIsFresh'
  BY DEF Inv, RequestIsFresh
<1> QED BY <1>1, <1>2 DEF Inv

LEMMA BeginConfirmInv ==
  ASSUME Inv, NEW c \in Calls, NEW a \in Accounts, NEW l \in Links \cup {NoLink},
         BeginConfirm(c, a, l)
  PROVE  Inv'
<1> DEFINE new == [at |-> "waiting", kind |-> "confirm", account |-> a,
                   link |-> l, start |-> now]
<1>1. new \in Open
  BY DEF Open, Kinds, Inv, TypeOK
<1>2. /\ call' = [call EXCEPT ![c] = new]
      /\ UNCHANGED <<now, tokens, attempts, verified, mailbox, drawn, newest,
                     uses, answered>>
  BY DEF BeginConfirm, Begin
<1>3. TypeOK'
  BY <1>1, <1>2 DEF Inv, TypeOK
<1>4. \A d \in Calls : Requesting(d)' => call'[d] = call[d] /\ Requesting(d)
  BY <1>2 DEF Requesting, Inv, TypeOK
<1> QED BY <1>2, <1>3, <1>4, CallsMove

LEMMA AdmitInv == ASSUME Inv, NEW c \in Calls, Admit(c) PROVE Inv'
<1>1. call[c] \in Open
  BY DEF Inv, TypeOK, Admit, Idle
<1>2. /\ call' = [call EXCEPT ![c] = [call[c] EXCEPT !.at = "locked"]]
      /\ UNCHANGED <<now, tokens, attempts, verified, mailbox, drawn, newest,
                     uses, answered>>
  BY DEF Admit
<1>3. [call[c] EXCEPT !.at = "locked"] \in Open
  BY <1>1 DEF Open
<1>4. TypeOK'
  BY <1>1, <1>2, <1>3 DEF Inv, TypeOK, Open, Idle
<1>5. \A d \in Calls : Requesting(d)' =>
        /\ Requesting(d) /\ call'[d].link = call[d].link
        /\ call'[d].account = call[d].account
        /\ call'[d].at = "accepted" => call[d].at = "accepted"
  BY <1>1, <1>2 DEF Requesting, Inv, TypeOK, Open, Idle
<1> QED BY <1>2, <1>4, <1>5, CallsMove

\* A call that ends without touching tokens or mail.
LEMMA EndInv ==
  ASSUME Inv, NEW c \in Calls, End(c),
         UNCHANGED <<now, tokens, verified, mailbox, drawn, newest, uses>>,
         attempts' \in [Accounts -> SUBSET Attempt],
         answered' \in [Accounts -> SUBSET Attempt],
         \A a \in Accounts : IsFiniteSet(answered'[a])
  PROVE  Inv'
<1>1. TypeOK'
  BY DEF Inv, TypeOK, End, Idle
<1>2. \A d \in Calls : Requesting(d)' => call'[d] = call[d] /\ Requesting(d)
  BY DEF Requesting, Inv, TypeOK, End
<1> QED BY <1>1, <1>2, CallsMove

LEMMA RefuseInv == ASSUME Inv, NEW c \in Calls, Refuse(c) PROVE Inv'
BY EndInv DEF Refuse, Inv, TypeOK

LEMMA RollbackInv == ASSUME Inv, NEW c \in Calls, Rollback(c) PROVE Inv'
BY EndInv DEF Rollback, Inv, TypeOK

LEMMA ApologizeInv == ASSUME Inv, NEW c \in Calls, Apologize(c) PROVE Inv'
<1>1. call[c] # Idle /\ Record(c) /\ TypeOK
  BY DEF Apologize, Idle, Inv
<1> QED BY <1>1, RecordTyped, EndInv DEF Apologize

LEMMA RejectInv == ASSUME Inv, NEW c \in Calls, Reject(c) PROVE Inv'
<1>1. call[c] # Idle /\ Record(c) /\ TypeOK
  BY DEF Reject, Idle, Inv
<1> QED BY <1>1, RecordTyped, EndInv DEF Reject

LEMMA TickInv == ASSUME Inv, Tick PROVE Inv'
<1>1. TypeOK'
  BY DEF Inv, TypeOK, Tick
<1>2. \A d \in Calls : Requesting(d)' => call'[d] = call[d] /\ Requesting(d)
  BY DEF Requesting, Tick
<1> QED BY <1>1, <1>2, CallsMove DEF Tick

-----------------------------------------------------------------------------

\* The provider's answer, whether or not the mail went out.
LEMMA SendInv ==
  ASSUME Inv, NEW c \in Calls, NEW x \in {"accepted", "unavailable"}, Sending(c),
         call' = [call EXCEPT ![c].at = x],
         Mailed(c) \/ (UNCHANGED mailbox /\ x = "unavailable")
  PROVE  Inv'
<1> DEFINE a == call[c].account
           l == call[c].link
<1>1. /\ call[c] \in Open /\ Requesting(c) /\ a \in Accounts /\ l \in Links
      /\ call[c].kind = "request"
  BY DEF Inv, TypeOK, Sending, Idle, Open, Requesting
<1>2. UNCHANGED <<now, tokens, attempts, verified, drawn, newest, uses, answered>>
  BY DEF Sending
<1>3. call' = [call EXCEPT ![c] = [call[c] EXCEPT !.at = x]]
  OBVIOUS
<1>4. [call[c] EXCEPT !.at = x] \in Open
  BY <1>1 DEF Open
<1>5. /\ mailbox' \in [Accounts -> SUBSET Links]
      /\ \A b \in Accounts : mailbox[b] \subseteq mailbox'[b]
      /\ \A b \in Accounts : \A k \in mailbox'[b] :
           k \in mailbox[b] \/ (b = a /\ k = l)
      /\ x = "accepted" => l \in mailbox'[a]
  <2> HIDE DEF a, l
  <2>1. mailbox \in [Accounts -> SUBSET Links]
    BY DEF Inv, TypeOK
  <2>2. CASE mailbox' = [mailbox EXCEPT ![a] = mailbox[a] \cup {l}]
    BY <1>1, <2>1, <2>2
  <2>3. CASE mailbox' = mailbox /\ x = "unavailable"
    BY <2>1, <2>3
  <2> QED BY <2>2, <2>3 DEF Mailed, a, l
<1>6. /\ \A d \in Calls : Requesting(d)' =>
           /\ Requesting(d) /\ call'[d].link = call[d].link
           /\ call'[d].account = call[d].account
           /\ d # c => call'[d] = call[d]
      /\ call'[c].at = x /\ call'[c].link = l /\ call'[c].account = a
  BY <1>1, <1>3 DEF Requesting, Inv, TypeOK, Open
<1> HIDE DEF a, l
<1>7. TypeOK'
  <2>1. \A d \in Calls : call'[d] # Idle =>
          /\ call'[d].kind = "request" => call'[d].link \in Links
          /\ call'[d].at \in {"accepted", "unavailable"} => call'[d].kind = "request"
    <3> TAKE d \in Calls
    <3>1. d # c => call'[d] = call[d]
      BY <1>3 DEF Inv, TypeOK
    <3>2. call'[c].kind = "request" /\ call'[c].link \in Links
      BY <1>1, <1>3 DEF Inv, TypeOK, Open, l
    <3> QED BY <3>1, <3>2 DEF Inv, TypeOK
  <2>2. call' \in [Calls -> Open \cup {Idle}]
    BY <1>3, <1>4 DEF Inv, TypeOK
  <2> QED BY <2>1, <2>2, <1>2, <1>5 DEF Inv, TypeOK
<1>8. StoredLinkWasMailed'
  BY <1>2, <1>5 DEF Inv, TypeOK, Row, StoredLinkWasMailed
<1>9. \A b \in Accounts : l \in mailbox[b] => b = a
  BY <1>1 DEF Inv, RequestIsFresh, a, l
<1>10. MailIsOwn'
  <2>1. l <= drawn
    BY <1>1 DEF Inv, RequestIsFresh, l
  <2>2. \A b \in Accounts : newest'[b] <= drawn' /\ \A k \in mailbox'[b] : k <= drawn'
    BY <2>1, <1>2, <1>5 DEF Inv, MailIsOwn
  <2>3. ASSUME NEW b \in Accounts, NEW e \in Accounts, NEW k \in mailbox'[b],
               k \in mailbox'[e]
        PROVE  b = e
    <3>1. CASE k = l
      BY <3>1, <2>3, <1>5, <1>9
    <3>2. CASE k # l
      BY <3>2, <2>3, <1>5 DEF Inv, MailIsOwn
    <3> QED BY <3>1, <3>2
  <2>4. \A b, e \in Accounts : mailbox'[b] \cap mailbox'[e] # {} => b = e
    BY <2>3
  <2> QED BY <2>2, <2>4 DEF MailIsOwn
<1>11. (StoredIsUnused /\ UsedOnce)'
  BY <1>2, <1>5 DEF Inv, TypeOK, StoredIsUnused, UsedOnce
<1>12. RequestIsFresh'
  <2>1. ASSUME NEW d \in Calls, Requesting(d)'
        PROVE  /\ call'[d].link <= drawn'
               /\ \A r \in tokens' : r.link # call'[d].link
               /\ \A b \in Accounts : uses'[b][call'[d].link] = 0 /\ newest'[b] # call'[d].link
    BY <2>1, <1>2, <1>6 DEF Inv, RequestIsFresh
  <2>2. ASSUME NEW d \in Calls, Requesting(d)', NEW b \in Accounts,
               call'[d].link \in mailbox'[b]
        PROVE  b = call'[d].account
    <3>1. CASE call[d].link \in mailbox[b]
      BY <3>1, <2>2, <1>6 DEF Inv, RequestIsFresh
    <3>2. CASE b = a /\ call[d].link = l
      <4>1. d = c
        BY <3>2, <2>2, <1>1, <1>6 DEF Inv, RequestIsFresh, l
      <4> QED BY <4>1, <3>2, <1>6
    <3> QED BY <3>1, <3>2, <2>2, <1>5, <1>6
  <2>3. ASSUME NEW d \in Calls, Requesting(d)', call'[d].at = "accepted"
        PROVE  call'[d].link \in mailbox'[call'[d].account]
    <3>1. CASE d = c
      BY <3>1, <2>3, <1>5, <1>6
    <3>2. CASE d # c
      <4>1. call[d].link \in mailbox[call[d].account] /\ call[d].account \in Accounts
        BY <3>2, <2>3, <1>6 DEF Inv, RequestIsFresh, TypeOK, Requesting, Open
      <4> QED BY <4>1, <3>2, <2>3, <1>5, <1>6
    <3> QED BY <3>1, <3>2
  <2>4. \A d, e \in Calls :
          Requesting(d)' /\ Requesting(e)' /\ call'[d].link = call'[e].link => d = e
    BY <1>6 DEF Inv, RequestIsFresh
  <2> QED BY <2>1, <2>2, <2>3, <2>4 DEF RequestIsFresh
<1> QED BY <1>7, <1>8, <1>10, <1>11, <1>12 DEF Inv

LEMMA AcceptInv == ASSUME Inv, NEW c \in Calls, Accept(c) PROVE Inv'
BY SendInv DEF Accept

LEMMA FailInv == ASSUME Inv, NEW c \in Calls, Fail(c) PROVE Inv'
BY SendInv DEF Fail

LEMMA StoreInv == ASSUME Inv, NEW c \in Calls, Store(c) PROVE Inv'
<1> DEFINE a   == call[c].account
           l   == call[c].link
           row == [account |-> a, link |-> l, expires |-> call[c].start + Life]
<1>1. /\ call[c] \in Open /\ Requesting(c) /\ a \in Accounts /\ l \in Links
      /\ call[c].start \in Nat /\ call[c].at = "accepted"
  BY DEF Inv, TypeOK, Store, Idle, Open, Requesting
<1>2. row \in Row
  BY <1>1, TimesAssumption DEF Row
<1>3. /\ tokens' = {r \in tokens : r.account # a} \cup {row}
      /\ call' = [call EXCEPT ![c] = Idle]
      /\ newest' = [newest EXCEPT ![a] = l]
      /\ UNCHANGED <<now, verified, mailbox, drawn, uses>>
  BY DEF Store, End
<1>4. row.account = a /\ row.link = l
  OBVIOUS
<1>5. /\ l \in mailbox[a]
      /\ \A b \in Accounts : uses[b][l] = 0
      /\ \A d \in Calls : Requesting(d) /\ call[d].link = l => d = c
  BY <1>1 DEF Inv, RequestIsFresh
<1>6. /\ attempts' \in [Accounts -> SUBSET Attempt]
      /\ answered' \in [Accounts -> SUBSET Attempt]
      /\ \A b \in Accounts : IsFiniteSet(answered'[b])
  BY <1>1, RecordTyped DEF Store, Requesting, Inv
<1>7. \A d \in Calls : Requesting(d)' => d # c /\ call'[d] = call[d] /\ Requesting(d)
  BY <1>3 DEF Requesting, Inv, TypeOK
<1> HIDE DEF a, l, row
<1>8. TypeOK'
  BY <1>1, <1>2, <1>3, <1>6 DEF Inv, TypeOK, Idle
<1>9. StoredLinkWasMailed'
  BY <1>3, <1>4, <1>5 DEF Inv, StoredLinkWasMailed
<1>10. (MailIsOwn /\ StoredIsUnused /\ UsedOnce)'
  BY <1>1, <1>3, <1>4, <1>5 DEF Inv, TypeOK, MailIsOwn, StoredIsUnused, UsedOnce
<1>11. RequestIsFresh'
  <2>1. \A b \in Accounts : newest'[b] = IF b = a THEN l ELSE newest[b]
    BY <1>1, <1>3 DEF Inv, TypeOK
  <2> QED BY <2>1, <1>3, <1>4, <1>5, <1>7 DEF Inv, RequestIsFresh
<1> QED BY <1>8, <1>9, <1>10, <1>11 DEF Inv

LEMMA VerifyInv == ASSUME Inv, NEW c \in Calls, Verify(c) PROVE Inv'
<1> DEFINE a == call[c].account
           l == call[c].link
<1>1. call[c] \in Open /\ call[c] # Idle /\ a \in Accounts
  BY DEF Inv, TypeOK, Verify, Idle, Open
<1>2. PICK r \in tokens : r.account = a /\ r.link = l /\ r \in Match(c)
  BY DEF Verify, Match
<1>3. l \in Links /\ l \in mailbox[a] /\ \A b \in Accounts : uses[b][l] = 0
  BY <1>2 DEF Inv, TypeOK, Row, StoredLinkWasMailed, StoredIsUnused
<1>4. /\ tokens' = tokens \ Match(c) /\ verified' = verified \cup {a}
      /\ uses' = [uses EXCEPT ![a] = [uses[a] EXCEPT ![l] = uses[a][l] + 1]]
      /\ call' = [call EXCEPT ![c] = Idle]
      /\ UNCHANGED <<now, mailbox, drawn, newest>>
  BY DEF Verify, End
<1>5. /\ uses' \in [Accounts -> [Links -> Nat]]
      /\ \A b \in Accounts, k \in Links :
           uses'[b][k] = IF b = a /\ k = l THEN 1 ELSE uses[b][k]
  BY <1>1, <1>3, <1>4 DEF Inv, TypeOK
<1>6. \A s \in tokens' : s \in tokens /\ s.link # l /\ s.link \in Links
  <2> TAKE s \in tokens'
  <2>1. s \in tokens /\ s # r /\ s.link \in Links /\ s.account \in Accounts
    BY <1>2, <1>4 DEF Inv, TypeOK, Row
  <2>2. CASE s.link = l
    <3>1. l \in mailbox[s.account]
      BY <2>1, <2>2 DEF Inv, StoredLinkWasMailed
    <3>2. s.account = a
      BY <3>1, <2>1, <1>1, <1>3 DEF Inv, MailIsOwn
    <3> QED BY <3>2, <2>1, <1>2 DEF Inv, StoredLinkWasMailed
  <2> QED BY <2>1, <2>2
<1>7. \A d \in Calls : Requesting(d)' =>
        /\ call'[d] = call[d] /\ Requesting(d)
        /\ call[d].link \in Links /\ call[d].link # l
  BY <1>2, <1>4 DEF Requesting, Inv, TypeOK, RequestIsFresh
<1>8. TypeOK'
  <2>1. /\ attempts' \in [Accounts -> SUBSET Attempt]
        /\ answered' \in [Accounts -> SUBSET Attempt]
        /\ \A b \in Accounts : IsFiniteSet(answered'[b])
    BY <1>1, RecordTyped DEF Verify, Inv
  <2> QED BY <2>1, <1>1, <1>4, <1>5 DEF Inv, TypeOK, Idle
<1> HIDE DEF a, l
<1>9. (StoredLinkWasMailed /\ MailIsOwn)'
  BY <1>4, <1>6 DEF Inv, StoredLinkWasMailed, MailIsOwn
<1>10. StoredIsUnused'
  BY <1>5, <1>6 DEF Inv, StoredIsUnused
<1>11. UsedOnce'
  <2>1. \A b \in Accounts, k \in Links :
          uses'[b][k] > 0 => uses'[b][k] = 1 /\ k \in mailbox'[b]
    BY <1>3, <1>4, <1>5 DEF Inv, UsedOnce
  <2>2. ASSUME NEW b \in verified' PROVE \E k \in Links : uses'[b][k] > 0
    <3>1. CASE b = a
      BY <3>1, <1>1, <1>3, <1>5 DEF a
    <3>2. CASE b # a
      <4>1. b \in verified /\ b \in Accounts
        BY <3>2, <2>2, <1>4 DEF Inv, TypeOK
      <4> QED BY <4>1, <3>2, <1>5 DEF Inv, UsedOnce
    <3> QED BY <3>1, <3>2
  <2> QED BY <2>1, <2>2 DEF UsedOnce
<1>12. RequestIsFresh'
  BY <1>4, <1>5, <1>6, <1>7 DEF Inv, RequestIsFresh
<1> QED BY <1>8, <1>9, <1>10, <1>11, <1>12 DEF Inv

-----------------------------------------------------------------------------

LEMMA NextInv == Inv /\ [Next]_vars => Inv'
<1> SUFFICES ASSUME Inv, [Next]_vars PROVE Inv'
  OBVIOUS
<1>1. CASE UNCHANGED vars
  BY <1>1 DEF vars, Inv, TypeOK, StoredLinkWasMailed, MailIsOwn, RequestIsFresh,
              Requesting, StoredIsUnused, UsedOnce
<1>2. CASE Next
  BY <1>2, BeginRequestInv, BeginConfirmInv, AdmitInv, RefuseInv, AcceptInv, FailInv,
     StoreInv, ApologizeInv, VerifyInv, RejectInv, RollbackInv, TickInv
  DEF Next, Answer
<1> QED BY <1>1, <1>2

THEOREM Invariance == Spec => []Inv
BY InitInv, NextInv, PTL DEF Spec

\* The tables and the open transactions keep their types.
THEOREM TypeCorrect == Spec => []TypeOK
<1>1. Inv => TypeOK
  BY DEF Inv
<1> QED BY <1>1, Invariance, PTL

\* An account has at most one token, and it was mailed to that account.
THEOREM MailedBeforeStored == Spec => []StoredLinkWasMailed
<1>1. Inv => StoredLinkWasMailed
  BY DEF Inv
<1> QED BY <1>1, Invariance, PTL

\* A link verifies once, and only the account it was mailed to.
THEOREM WorksOnce == Spec => []LinkWorksOnce
<1>1. ASSUME Inv PROVE LinkWorksOnce
  <2>1. ASSUME NEW a \in Accounts, NEW l \in Links, uses[a][l] > 0,
               NEW b \in Accounts \ {a}
        PROVE  uses[b][l] = 0
    <3>1. uses[b][l] \in Nat
      BY <1>1 DEF Inv, TypeOK
    <3>2. ~(uses[b][l] > 0)
      BY <1>1, <2>1 DEF Inv, UsedOnce, MailIsOwn
    <3> QED BY <3>1, <3>2
  <2> QED BY <1>1, <2>1 DEF Inv, UsedOnce, LinkWorksOnce
<1> QED BY <1>1, Invariance, PTL

\* A token changes only with a 202 or a verification of its own account.
THEOREM FailureIsHarmless == Spec => FailureKeepsTheLink
<1> DEFINE Harmless ==
             \A a \in Accounts :
               {r \in tokens : r.account = a} # {r \in tokens' : r.account = a} =>
                 newest'[a] # newest[a] \/ uses'[a] # uses[a]
<1>1. ASSUME Inv, Next PROVE Harmless
  <2>1. CASE UNCHANGED tokens
    BY <2>1
  <2>2. ASSUME NEW c \in Calls, Store(c) PROVE Harmless
    <3> DEFINE a == call[c].account
    <3>1. /\ call[c] \in Open /\ Requesting(c) /\ a \in Accounts
          /\ call[c].link \in Links
      BY <1>1, <2>2 DEF Inv, TypeOK, Store, Idle, Open, Requesting
    <3>2. newest'[a] = call[c].link /\ newest[a] # call[c].link
      BY <1>1, <2>2, <3>1 DEF Inv, TypeOK, Store, RequestIsFresh
    <3>3. \A b \in Accounts : b # a =>
            {r \in tokens : r.account = b} = {r \in tokens' : r.account = b}
      BY <2>2 DEF Store
    <3> QED BY <3>2, <3>3
  <2>3. ASSUME NEW c \in Calls, Verify(c) PROVE Harmless
    <3> DEFINE a == call[c].account
               l == call[c].link
    <3>1. /\ a \in Accounts /\ l \in Links
      BY <1>1, <2>3 DEF Inv, TypeOK, Verify, Match, Idle, Open, Row
    <3>2. uses'[a][l] = uses[a][l] + 1 /\ uses[a][l] \in Nat
      BY <1>1, <2>3, <3>1 DEF Inv, TypeOK, Verify
    <3>3. uses'[a] # uses[a]
      BY <3>2
    <3>4. \A b \in Accounts : b # a =>
            {r \in tokens : r.account = b} = {r \in tokens' : r.account = b}
      BY <2>3 DEF Verify, Match
    <3> QED BY <3>3, <3>4
  <2> QED
    BY <1>1, <2>1, <2>2, <2>3
    DEF Next, Answer, BeginRequest, BeginConfirm, Begin, Admit, Refuse, Accept, Fail,
        Sending, Apologize, Reject, Rollback, Tick
<1>2. Inv /\ [Next]_vars => [Harmless]_vars
  BY <1>1
<1> HIDE DEF Harmless
<1>3. Spec => [][Harmless]_vars
  BY <1>2, Invariance, PTL DEF Spec
<1> QED BY <1>3, PTL DEF Harmless, FailureKeepsTheLink

-----------------------------------------------------------------------------
(* The pause between mails.  A purge may remove rows that a call which began *)
(* earlier has yet to read, but only rows so old that Patience cannot make   *)
(* up for them.                                                              *)

\* An open call began a short while ago.
OpenIsShort ==
  \A c \in Calls : call[c] # Idle =>
    call[c].start <= now /\ now <= call[c].start + Patience

\* The row lock has one holder per account.
LockExcludes ==
  \A c, d \in Calls :
    Holds(c) /\ Holds(d) /\ call[c].account = call[d].account => c = d

\* A mail that is not in the table any more is older than the window.
PurgedIsOld ==
  \A a \in Accounts : \A t \in answered[a] :
    t \in attempts[a] \/ t.start + RequestWindow < now

\* A request that has the lock began Gap after every answered one.
HolderPaused ==
  \A c \in Calls : Holds(c) /\ call[c].kind = "request" =>
    \A t \in answered[call[c].account] :
      t.kind = "request" => t.start + Gap <= call[c].start

\* The inductive invariant of the pause, beside Inv.
PauseInv == OpenIsShort /\ LockExcludes /\ PurgedIsOld /\ HolderPaused /\ MailsSpaced

LEMMA InitPause == Init => PauseInv
BY DEF Init, PauseInv, OpenIsShort, LockExcludes, PurgedIsOld, HolderPaused,
       MailsSpaced, Holds, Idle

\* Calls that begin, end or move on under the lock.
LEMMA PauseMove ==
  ASSUME PauseInv, UNCHANGED <<now, attempts, answered>>,
         \A d \in Calls :
           /\ call'[d] # Idle => call'[d].start <= now /\ now <= call'[d].start + Patience
           /\ Holds(d)' => /\ Holds(d) /\ call'[d].account = call[d].account
                           /\ call'[d].kind = call[d].kind
                           /\ call'[d].start = call[d].start
  PROVE  PauseInv'
<1>1. OpenIsShort' /\ PurgedIsOld' /\ MailsSpaced'
  BY DEF PauseInv, OpenIsShort, PurgedIsOld, MailsSpaced
<1>2. LockExcludes' /\ HolderPaused'
  BY DEF PauseInv, LockExcludes, HolderPaused
<1> QED BY <1>1, <1>2 DEF PauseInv

LEMMA BeginPause ==
  ASSUME Inv, PauseInv, NEW c \in Calls, NEW a \in Accounts, NEW kind \in Kinds,
         NEW l, Begin(c, a, kind, l)
  PROVE  PauseInv'
<1>1. call'[c] = [at |-> "waiting", kind |-> kind, account |-> a, link |-> l, start |-> now]
  BY DEF Inv, TypeOK, Begin
<1>2. \A d \in Calls : d # c => call'[d] = call[d]
  BY DEF Inv, TypeOK, Begin
<1>3. ~Holds(c)' /\ call'[c].start = now
  BY <1>1 DEF Holds
<1>4. now <= now + Patience /\ now <= now
  BY TimesAssumption DEF Inv, TypeOK
<1>5. \A d \in Calls :
        /\ call'[d] # Idle => call'[d].start <= now /\ now <= call'[d].start + Patience
        /\ Holds(d)' => /\ Holds(d) /\ call'[d].account = call[d].account
                        /\ call'[d].kind = call[d].kind /\ call'[d].start = call[d].start
  BY <1>2, <1>3, <1>4 DEF PauseInv, OpenIsShort, Holds
<1> QED BY <1>5, PauseMove DEF Begin

\* Refuse and Rollback.
LEMMA EndPause ==
  ASSUME Inv, PauseInv, NEW c \in Calls, End(c), UNCHANGED <<now, attempts, answered>>
  PROVE  PauseInv'
<1>1. call'[c] = Idle /\ \A d \in Calls : d # c => call'[d] = call[d]
  BY DEF Inv, TypeOK, End
<1>2. \A d \in Calls :
        /\ call'[d] # Idle => call'[d].start <= now /\ now <= call'[d].start + Patience
        /\ Holds(d)' => /\ Holds(d) /\ call'[d].account = call[d].account
                        /\ call'[d].kind = call[d].kind /\ call'[d].start = call[d].start
  BY <1>1 DEF PauseInv, OpenIsShort, Holds, Idle
<1> QED BY <1>2, PauseMove

LEMMA SendPause ==
  ASSUME Inv, PauseInv, NEW c \in Calls, NEW x \in {"accepted", "unavailable"},
         Sending(c), call' = [call EXCEPT ![c].at = x]
  PROVE  PauseInv'
<1>1. call[c] \in Open /\ Holds(c) /\ call[c] # Idle
  BY DEF Inv, TypeOK, Sending, Holds, Idle
<1>2. \A d \in Calls : d # c => call'[d] = call[d]
  BY DEF Inv, TypeOK
<1>3. /\ call'[c].account = call[c].account /\ call'[c].kind = call[c].kind
      /\ call'[c].start = call[c].start
  BY <1>1 DEF Inv, TypeOK, Open
<1>4. \A d \in Calls :
        /\ call'[d] # Idle => call'[d].start <= now /\ now <= call'[d].start + Patience
        /\ Holds(d)' => /\ Holds(d) /\ call'[d].account = call[d].account
                        /\ call'[d].kind = call[d].kind /\ call'[d].start = call[d].start
  BY <1>1, <1>2, <1>3 DEF PauseInv, OpenIsShort, Holds
<1> QED BY <1>4, PauseMove DEF Sending

\* A purged row is further back than the pause, whenever the reader began.
LEMMA AdmitPause ==
  ASSUME Inv, PauseInv, NEW c \in Calls, Admit(c)
  PROVE  PauseInv'
<1> DEFINE a == call[c].account
<1>1. /\ call[c] \in Open /\ call[c] # Idle /\ a \in Accounts
      /\ call[c].start \in Nat /\ now \in Nat
  BY DEF Inv, TypeOK, Admit, Idle, Open
<1>2. \A d \in Calls : d # c => call'[d] = call[d]
  BY DEF Inv, TypeOK, Admit
<1>3. /\ call'[c].account = a /\ call'[c].kind = call[c].kind
      /\ call'[c].start = call[c].start
  BY <1>1 DEF Inv, TypeOK, Open, Admit
<1>4. UNCHANGED <<now, attempts, answered>>
  BY DEF Admit
<1>5. (OpenIsShort /\ PurgedIsOld /\ MailsSpaced)'
  BY <1>1, <1>2, <1>3, <1>4 DEF PauseInv, OpenIsShort, PurgedIsOld, MailsSpaced
<1>6. LockExcludes'
  BY <1>2, <1>3 DEF PauseInv, LockExcludes, Admit, Unlocked, Holds
<1>7. ASSUME call[c].kind = "request", NEW t \in answered[a], t.kind = "request"
      PROVE  t.start + Gap <= call[c].start
  <2>1. t.start \in Nat
    BY <1>1, <1>7 DEF Inv, TypeOK, Attempt
  <2>2. CASE t \in attempts[a]
    <3>1. Recent(a, "request", Gap, call[c].start) = {}
      BY <1>7 DEF Admit, Limited
    <3>2. ~(t.start + Gap > call[c].start)
      BY <3>1, <2>2, <1>7 DEF Recent
    <3> QED BY <3>2, <2>1, <1>1, TimesAssumption
  <2>3. CASE t.start + RequestWindow < now
    BY <2>1, <2>3, <1>1, TimesAssumption DEF PauseInv, OpenIsShort
  <2> QED BY <2>2, <2>3, <1>1, <1>7 DEF PauseInv, PurgedIsOld
<1>8. HolderPaused'
  BY <1>1, <1>2, <1>3, <1>4, <1>7 DEF PauseInv, HolderPaused, Holds
<1> QED BY <1>5, <1>6, <1>8 DEF PauseInv

\* The four commits.
LEMMA RecordPause ==
  ASSUME Inv, PauseInv, NEW c \in Calls, Holds(c), Record(c), End(c), UNCHANGED now
  PROVE  PauseInv'
<1> DEFINE a == call[c].account
           t == NewRow(c)
<1>1. /\ call[c] \in Open /\ call[c] # Idle /\ a \in Accounts
      /\ call[c].start \in Nat /\ now \in Nat
  BY DEF Inv, TypeOK, Holds, Idle, Open
<1>2. call'[c] = Idle /\ \A d \in Calls : d # c => call'[d] = call[d]
  BY DEF Inv, TypeOK, End
<1>3. t.kind = call[c].kind /\ t.start = call[c].start
  BY DEF NewRow
<1>4. /\ attempts'[a] = Kept(a, call[c].start) \cup {t}
      /\ answered'[a] = answered[a] \cup {t}
      /\ \A b \in Accounts : b # a => attempts'[b] = attempts[b] /\ answered'[b] = answered[b]
  BY <1>1 DEF Inv, TypeOK, Record
<1> HIDE DEF a, t
<1>5. OpenIsShort' /\ LockExcludes'
  BY <1>2 DEF PauseInv, OpenIsShort, LockExcludes, Holds, Idle
<1>6. PurgedIsOld'
  <2>1. ASSUME NEW u \in answered[a], u \notin attempts'[a]
        PROVE  u.start + RequestWindow < now
    <3>1. u.start \in Nat
      BY <1>1 DEF Inv, TypeOK, Attempt
    <3>2. CASE u \in attempts[a]
      <4>1. ~(u.start + RequestWindow >= call[c].start)
        BY <3>2, <2>1, <1>4 DEF Kept
      <4>2. call[c].start <= now
        BY <1>1 DEF PauseInv, OpenIsShort
      <4> QED BY <4>1, <4>2, <3>1, <1>1, TimesAssumption
    <3> QED BY <3>2, <2>1, <1>1 DEF PauseInv, PurgedIsOld
  <2> QED BY <2>1, <1>4 DEF PauseInv, PurgedIsOld
<1>7. HolderPaused'
  <2>1. \A d \in Calls : Holds(d)' => d # c /\ call'[d] = call[d] /\ Holds(d)
    BY <1>2 DEF Holds, Idle
  <2>2. \A d \in Calls : Holds(d)' => call[d].account # a /\ call[d].account \in Accounts
    BY <2>1 DEF PauseInv, LockExcludes, Holds, Inv, TypeOK, Open, Idle, a
  <2> QED BY <2>1, <2>2, <1>4 DEF PauseInv, HolderPaused
<1>8. MailsSpaced'
  <2>1. \A u \in answered[a] : u.kind = "request" /\ t.kind = "request" =>
          u.start + Gap <= t.start
    BY <1>3 DEF PauseInv, HolderPaused, a
  <2>2. ASSUME NEW b \in Accounts, NEW u \in answered'[b], NEW v \in answered'[b],
               u # v, u.kind = "request", v.kind = "request"
        PROVE  u.start + Gap <= v.start \/ v.start + Gap <= u.start
    <3>1. CASE u \in answered[b] /\ v \in answered[b]
      BY <2>2, <3>1 DEF PauseInv, MailsSpaced
    <3>2. CASE b = a /\ (u = t \/ v = t)
      BY <2>1, <2>2, <3>2, <1>4
    <3> QED BY <3>1, <3>2, <1>4
  <2> QED BY <2>2 DEF MailsSpaced
<1> QED BY <1>5, <1>6, <1>7, <1>8 DEF PauseInv

LEMMA TickPause == ASSUME Inv, PauseInv, Tick PROVE PauseInv'
<1>1. now \in Nat /\ now' = now + 1 /\ UNCHANGED <<call, attempts, answered>>
  BY DEF Inv, TypeOK, Tick
<1>2. \A c \in Calls : call[c] # Idle => call[c].start \in Nat
  BY DEF Inv, TypeOK, Open
<1>3. OpenIsShort'
  BY <1>1, <1>2, TimesAssumption DEF PauseInv, OpenIsShort, Tick
<1>4. PurgedIsOld'
  <2>1. \A a \in Accounts : \A t \in answered[a] : t.start \in Nat
    BY DEF Inv, TypeOK, Attempt
  <2> QED BY <2>1, <1>1, TimesAssumption DEF PauseInv, PurgedIsOld
<1>5. (LockExcludes /\ HolderPaused /\ MailsSpaced)'
  BY <1>1 DEF PauseInv, LockExcludes, HolderPaused, MailsSpaced, Holds
<1> QED BY <1>3, <1>4, <1>5 DEF PauseInv

LEMMA NextPause == Inv /\ PauseInv /\ [Next]_vars => PauseInv'
<1> SUFFICES ASSUME Inv, PauseInv, [Next]_vars PROVE PauseInv'
  OBVIOUS
<1>1. CASE UNCHANGED vars
  BY <1>1 DEF vars, PauseInv, OpenIsShort, LockExcludes, PurgedIsOld, HolderPaused,
              MailsSpaced, Holds
<1>2. ASSUME NEW c \in Calls, NEW a \in Accounts, BeginRequest(c, a) PROVE PauseInv'
  BY <1>2, BeginPause DEF BeginRequest, Kinds
<1>3. ASSUME NEW c \in Calls, NEW a \in Accounts, NEW l, BeginConfirm(c, a, l)
      PROVE  PauseInv'
  BY <1>3, BeginPause DEF BeginConfirm, Kinds
<1>4. ASSUME NEW c \in Calls, Refuse(c) \/ Rollback(c) PROVE PauseInv'
  BY <1>4, EndPause DEF Refuse, Rollback
<1>5. ASSUME NEW c \in Calls, Accept(c) \/ Fail(c) PROVE PauseInv'
  BY <1>5, SendPause DEF Accept, Fail
<1>6. ASSUME NEW c \in Calls, Answer(c) PROVE PauseInv'
  <2>1. Holds(c) /\ Record(c) /\ End(c) /\ UNCHANGED now
    BY <1>6 DEF Answer, Store, Apologize, Verify, Reject, Holds
  <2> QED BY <2>1, RecordPause
<1> QED BY <1>1, <1>2, <1>3, <1>4, <1>5, <1>6, AdmitPause, TickPause DEF Next

\* Mails that were answered were asked for Gap apart, in whatever order the
\* calls got the lock.
THEOREM Spaced == Spec => []MailsSpaced
<1>1. PauseInv => MailsSpaced
  BY DEF PauseInv
<1> QED BY <1>1, InitPause, NextPause, Invariance, PTL DEF Spec

-----------------------------------------------------------------------------

\* The stored link is the one of the latest request answered 202.
StoredIsNewest == \A r \in tokens : newest[r.account] = r.link

LEMMA NextNewest == Inv /\ StoredIsNewest /\ [Next]_vars => StoredIsNewest'
<1> SUFFICES ASSUME Inv, StoredIsNewest, [Next]_vars PROVE StoredIsNewest'
  OBVIOUS
<1>1. CASE tokens' \subseteq tokens /\ newest' = newest
  BY <1>1 DEF StoredIsNewest
<1>2. ASSUME NEW c \in Calls, Store(c) PROVE StoredIsNewest'
  <2>1. call[c].account \in Accounts /\ newest \in [Accounts -> Links \cup {NoLink}]
    BY <1>2 DEF Inv, TypeOK, Store, Idle, Open
  <2>2. newest' = [newest EXCEPT ![call[c].account] = call[c].link]
    BY <1>2 DEF Store
  <2>3. \A r \in tokens' :
          \/ r.account = call[c].account /\ r.link = call[c].link
          \/ r \in tokens /\ r.account # call[c].account
    BY <1>2 DEF Store
  <2>4. \A r \in tokens : r.account \in Accounts
    BY DEF Inv, TypeOK, Row
  <2> QED BY <2>1, <2>2, <2>3, <2>4 DEF StoredIsNewest
<1> QED
  BY <1>1, <1>2
  DEF Next, Answer, BeginRequest, BeginConfirm, Begin, Admit, Refuse, Accept, Fail,
      Sending, Apologize, Verify, Reject, Rollback, Tick, vars

\* A link that verifies is the newest, and at most Patience past its life.
THEOREM NewestInTime == Spec => OnlyNewestInTime
<1> DEFINE Good ==
             \A a \in Accounts, l \in Links : uses'[a][l] > uses[a][l] =>
               /\ l = newest[a]
               /\ \E r \in tokens : r.link = l /\ now < r.expires + Patience
<1>1. ASSUME Inv, PauseInv, StoredIsNewest, Next PROVE Good
  <2>1. CASE UNCHANGED uses
    <3>1. \A a \in Accounts, l \in Links : uses[a][l] \in Nat
      BY <1>1 DEF Inv, TypeOK
    <3> QED BY <2>1, <3>1
  <2>2. ASSUME NEW c \in Calls, Verify(c) PROVE Good
    <3>1. PICK r \in tokens : /\ r.account = call[c].account /\ r.link = call[c].link
                              /\ r.expires > call[c].start
      BY <2>2 DEF Verify, Match
    <3>2. /\ call[c].account \in Accounts /\ call[c].link \in Links
          /\ call[c] # Idle /\ call[c].start \in Nat /\ r.expires \in Nat /\ now \in Nat
      BY <1>1, <2>2, <3>1 DEF Inv, TypeOK, Verify, Idle, Open, Row
    <3>3. now < r.expires + Patience
      BY <1>1, <3>1, <3>2, TimesAssumption DEF PauseInv, OpenIsShort
    <3>4. \A a \in Accounts, l \in Links : uses'[a][l] > uses[a][l] =>
            a = call[c].account /\ l = call[c].link
      <4>1. \A a \in Accounts, l \in Links : uses[a][l] \in Nat
        BY <1>1 DEF Inv, TypeOK
      <4>2. \A a \in Accounts, l \in Links :
              ~(a = call[c].account /\ l = call[c].link) => uses'[a][l] = uses[a][l]
        BY <1>1, <2>2, <3>2 DEF Inv, TypeOK, Verify
      <4> QED BY <4>1, <4>2
    <3>5. newest[call[c].account] = call[c].link
      BY <1>1, <3>1 DEF StoredIsNewest
    <3> QED BY <3>1, <3>3, <3>4, <3>5
  <2> QED
    BY <1>1, <2>1, <2>2
    DEF Next, Answer, BeginRequest, BeginConfirm, Begin, Admit, Refuse, Accept, Fail,
        Sending, Store, Apologize, Reject, Rollback, Tick
<1>2. Inv /\ PauseInv /\ StoredIsNewest /\ [Next]_vars => [Good]_vars
  BY <1>1
<1>3. Init => StoredIsNewest
  BY DEF Init, StoredIsNewest
<1> HIDE DEF Good
<1>4. Spec => [][Good]_vars
  BY <1>2, <1>3, NextNewest, InitPause, NextPause, Invariance, PTL DEF Spec
<1> QED BY <1>4, PTL DEF Good, OnlyNewestInTime

-----------------------------------------------------------------------------
(* The limits.  What a holder of the lock may add fits, because it counted   *)
(* every answer that shares a window with it: none of those is purged.       *)

\* The windows of AttemptsLimited, how far back Limited looks, and the limits.
Width(kind) == IF kind = "confirm" THEN ConfirmWindow ELSE (RequestWindow - Patience) + 1
Reach(kind) == IF kind = "confirm" THEN ConfirmWindow ELSE RequestWindow
Most(kind)  == IF kind = "confirm" THEN MaxConfirms ELSE MaxRequests

\* The table holds answered attempts only.
TableIsHistory == \A a \in Accounts : attempts[a] \subseteq answered[a]

\* Nobody adds to the table of an account while a call has its lock.
HolderHasRoom ==
  \A c \in Calls : Holds(c) =>
    Cardinality(Recent(call[c].account, call[c].kind, Reach(call[c].kind), call[c].start))
      < Most(call[c].kind)

\* AttemptsLimited, also for the windows to come.
WindowsWithin ==
  \A a \in Accounts, kind \in Kinds, from \in Nat :
    Cardinality(Given(a, kind, from, Width(kind))) <= Most(kind)

\* The inductive invariant of the limits, beside Inv and PauseInv.
LimitInv == TableIsHistory /\ HolderHasRoom /\ WindowsWithin

LEMMA LimitNumbers ==
  ASSUME NEW kind \in Kinds
  PROVE  Width(kind) \in Nat /\ Reach(kind) \in Nat /\ Most(kind) \in Nat
BY TimesAssumption DEF Width, Reach, Most

\* The sets that are counted are finite.
LEMMA HistoryFinite ==
  ASSUME Inv, TableIsHistory, NEW a \in Accounts, NEW kind, NEW from, NEW width, NEW start
  PROVE  /\ IsFiniteSet(Given(a, kind, from, width))
         /\ IsFiniteSet(Recent(a, kind, width, start))
<1>1. IsFiniteSet(answered[a])
  BY DEF Inv, TypeOK
<1>2. Given(a, kind, from, width) \subseteq answered[a]
  BY DEF Given
<1>3. Recent(a, kind, width, start) \subseteq answered[a]
  BY DEF Recent, TableIsHistory
<1> QED BY <1>1, <1>2, <1>3, FS_Subset

LEMMA OneMore ==
  ASSUME NEW S, NEW T, NEW x, IsFiniteSet(S), T \subseteq S \cup {x}
  PROVE  Cardinality(T) <= Cardinality(S) + 1
<1>1. Cardinality(S) \in Nat
  BY FS_CardinalityType
<1>2. IsFiniteSet(S \cup {x})
  BY FS_AddElement
<1>3. Cardinality(S \cup {x}) = Cardinality(S) \/ Cardinality(S \cup {x}) = Cardinality(S) + 1
  BY FS_AddElement
<1>4. Cardinality(T) <= Cardinality(S \cup {x}) /\ Cardinality(T) \in Nat
  BY <1>2, FS_Subset, FS_CardinalityType
<1> QED BY <1>1, <1>3, <1>4

\* A call counts all answers of its kind that are in a window with it, purged
\* as the table may be.
LEMMA CountedWithIt ==
  ASSUME Inv, PauseInv, NEW c \in Calls, call[c] # Idle, NEW from \in Nat,
         call[c].start < from + Width(call[c].kind)
  PROVE  Given(call[c].account, call[c].kind, from, Width(call[c].kind))
           \subseteq Recent(call[c].account, call[c].kind, Reach(call[c].kind), call[c].start)
<1> DEFINE a == call[c].account
           kind == call[c].kind
           start == call[c].start
<1>1. a \in Accounts /\ kind \in Kinds /\ start \in Nat /\ now \in Nat
  BY DEF Inv, TypeOK, Open
<1>2. now <= start + Patience
  BY DEF PauseInv, OpenIsShort
<1>3. SUFFICES ASSUME NEW t \in answered[a], t.kind = kind, from <= t.start
               PROVE  t \in attempts[a] /\ t.start + Reach(kind) > start
  BY DEF Given, Recent
<1>4. t.start \in Nat
  BY <1>1 DEF Inv, TypeOK, Attempt
<1>5. /\ t.start + Width(kind) > start
      /\ Width(kind) \in Nat /\ Reach(kind) \in Nat
      /\ Patience \in Nat /\ RequestWindow \in Nat
      /\ Width(kind) + Patience <= RequestWindow + 1
  BY <1>1, <1>3, <1>4, LimitNumbers, TimesAssumption DEF Width
<1>6. t \in attempts[a]
  <2>1. ~(t.start + RequestWindow < now)
    BY <1>1, <1>2, <1>4, <1>5
  <2> QED BY <1>1, <1>3, <2>1 DEF PauseInv, PurgedIsOld
<1>7. t.start + Reach(kind) > start
  <2>1. CASE kind = "confirm"
    BY <1>5, <2>1 DEF Width, Reach
  <2>2. CASE kind # "confirm"
    BY <1>1, <1>4, <1>5, <2>2, TimesAssumption DEF Width, Reach
  <2> QED BY <2>1, <2>2
<1> QED BY <1>6, <1>7

LEMMA InitLimit == Init => LimitInv
<1> SUFFICES ASSUME Init PROVE LimitInv
  OBVIOUS
<1>1. TableIsHistory /\ HolderHasRoom
  BY DEF Init, TableIsHistory, HolderHasRoom, Holds, Idle
<1>2. ASSUME NEW a \in Accounts, NEW kind \in Kinds, NEW from \in Nat
      PROVE  Cardinality(Given(a, kind, from, Width(kind))) <= Most(kind)
  <2>1. Given(a, kind, from, Width(kind)) = {}
    BY DEF Init, Given
  <2> QED BY <2>1, LimitNumbers, FS_EmptySet
<1> QED BY <1>1, <1>2 DEF LimitInv, WindowsWithin

\* Steps that leave the history alone and give nobody the lock.
LEMMA LimitMove ==
  ASSUME LimitInv, UNCHANGED <<attempts, answered>>,
         \A d \in Calls : Holds(d)' =>
           /\ Holds(d) /\ call'[d].account = call[d].account
           /\ call'[d].kind = call[d].kind /\ call'[d].start = call[d].start
  PROVE  LimitInv'
<1>1. TableIsHistory' /\ WindowsWithin'
  BY DEF LimitInv, TableIsHistory, WindowsWithin, Given
<1>2. HolderHasRoom'
  BY DEF LimitInv, HolderHasRoom, Recent
<1> QED BY <1>1, <1>2 DEF LimitInv

\* The call that gets the lock has counted and found room.
LEMMA AdmitLimit ==
  ASSUME Inv, LimitInv, NEW c \in Calls, Admit(c)
  PROVE  LimitInv'
<1> DEFINE a == call[c].account
           kind == call[c].kind
           start == call[c].start
<1>1. call[c] \in Open /\ a \in Accounts /\ kind \in Kinds
  BY DEF Inv, TypeOK, Admit, Idle, Open
<1>2. \A d \in Calls : d # c => call'[d] = call[d]
  BY DEF Inv, TypeOK, Admit
<1>3. call'[c].account = a /\ call'[c].kind = kind /\ call'[c].start = start
  BY <1>1 DEF Inv, TypeOK, Open, Admit
<1>4. UNCHANGED <<attempts, answered>>
  BY DEF Admit
<1>5. Cardinality(Recent(a, kind, Reach(kind), start)) < Most(kind)
  <2>1. Cardinality(Recent(a, kind, Reach(kind), start)) \in Nat
    BY <1>1, HistoryFinite, FS_CardinalityType DEF LimitInv
  <2>2. ~(Cardinality(Recent(a, kind, Reach(kind), start)) >= Most(kind))
    BY DEF Admit, Limited, Reach, Most
  <2> QED BY <1>1, <2>1, <2>2, LimitNumbers
<1>6. TableIsHistory' /\ WindowsWithin'
  BY <1>4 DEF LimitInv, TableIsHistory, WindowsWithin, Given
<1>7. HolderHasRoom'
  BY <1>2, <1>3, <1>4, <1>5 DEF LimitInv, HolderHasRoom, Recent, Holds
<1> QED BY <1>6, <1>7 DEF LimitInv

\* The four commits.
LEMMA RecordLimit ==
  ASSUME Inv, PauseInv, LimitInv, NEW c \in Calls, Holds(c), Record(c), End(c)
  PROVE  LimitInv'
<1> DEFINE a == call[c].account
           kind == call[c].kind
           start == call[c].start
           t == NewRow(c)
<1>1. /\ call[c] \in Open /\ call[c] # Idle /\ a \in Accounts /\ kind \in Kinds
      /\ start \in Nat
  BY DEF Inv, TypeOK, Holds, Idle, Open
<1>2. call'[c] = Idle /\ \A d \in Calls : d # c => call'[d] = call[d]
  BY DEF Inv, TypeOK, End
<1>3. t.kind = kind /\ t.start = start
  BY DEF NewRow
<1>4. /\ attempts'[a] = Kept(a, start) \cup {t}
      /\ answered'[a] = answered[a] \cup {t}
      /\ \A b \in Accounts : b # a => attempts'[b] = attempts[b] /\ answered'[b] = answered[b]
  BY <1>1 DEF Inv, TypeOK, Record
<1>5. /\ Cardinality(Recent(a, kind, Reach(kind), start)) < Most(kind)
      /\ TableIsHistory
  BY DEF LimitInv, HolderHasRoom
<1>6. ASSUME NEW from \in Nat, start < from + Width(kind)
      PROVE  Given(a, kind, from, Width(kind)) \subseteq Recent(a, kind, Reach(kind), start)
  BY <1>1, <1>6, CountedWithIt
<1>7. \A d \in Calls : Holds(d)' =>
        /\ d # c /\ call'[d] = call[d] /\ Holds(d)
        /\ call[d].account \in Accounts /\ call[d].account # a
  <2>1. ASSUME NEW d \in Calls, Holds(d)' PROVE d # c /\ call'[d] = call[d] /\ Holds(d)
    BY <1>2, <2>1 DEF Holds, Idle
  <2>2. ASSUME NEW d \in Calls, Holds(d), d # c
        PROVE  call[d].account \in Accounts /\ call[d].account # a
    BY <2>2 DEF PauseInv, LockExcludes, Holds, Inv, TypeOK, Open, Idle
  <2> QED BY <2>1, <2>2
<1> HIDE DEF a, kind, start, t
<1>8. TableIsHistory'
  BY <1>4, <1>5 DEF TableIsHistory, Kept
<1>9. HolderHasRoom'
  BY <1>4, <1>7 DEF LimitInv, HolderHasRoom, Recent
<1>10. ASSUME NEW b \in Accounts, NEW k \in Kinds, NEW from \in Nat
       PROVE  Cardinality(Given(b, k, from, Width(k))') <= Most(k)
  <2> DEFINE G == Given(b, k, from, Width(k))
             H == Given(b, k, from, Width(k))'
             R == Recent(a, kind, Reach(kind), start)
  <2>1. Cardinality(G) <= Most(k) /\ IsFiniteSet(G) /\ IsFiniteSet(R)
    BY <1>1, <1>5, HistoryFinite DEF LimitInv, WindowsWithin
  <2>2. CASE b = a /\ k = kind /\ start < from + Width(kind)
    <3>1. H \subseteq G \cup {t}
      BY <1>4, <2>2 DEF Given
    <3>2. G \subseteq R
      BY <1>6, <2>2
    <3>3. Cardinality(G) <= Cardinality(R) /\ Cardinality(R) \in Nat /\ Cardinality(G) \in Nat
      BY <2>1, <3>2, FS_Subset, FS_CardinalityType
    <3>4. Cardinality(H) <= Cardinality(G) + 1 /\ Cardinality(H) \in Nat
      <4>1. IsFiniteSet(G \cup {t})
        BY <2>1, FS_AddElement
      <4> QED BY <2>1, <3>1, <4>1, OneMore, FS_Subset, FS_CardinalityType
    <3>5. Cardinality(R) < Most(kind) /\ Most(kind) \in Nat
      BY <1>1, <1>5, LimitNumbers
    <3> HIDE DEF G, H, R
    <3>6. Cardinality(H) <= Most(k)
      BY <3>3, <3>4, <3>5, <2>2
    <3> QED BY <3>6 DEF H
  <2>3. CASE ~(b = a /\ k = kind /\ start < from + Width(kind))
    <3>1. H = G
      BY <1>3, <1>4, <2>3 DEF Given
    <3> QED BY <2>1, <3>1
  <2> QED BY <2>2, <2>3
<1>11. WindowsWithin'
  BY <1>10 DEF WindowsWithin, Width, Most
<1> QED BY <1>8, <1>9, <1>11 DEF LimitInv

LEMMA NextLimit == Inv /\ PauseInv /\ LimitInv /\ [Next]_vars => LimitInv'
<1> SUFFICES ASSUME Inv, PauseInv, LimitInv, [Next]_vars PROVE LimitInv'
  OBVIOUS
<1> DEFINE Same(d) == /\ Holds(d) /\ call'[d].account = call[d].account
                      /\ call'[d].kind = call[d].kind /\ call'[d].start = call[d].start
<1>1. CASE UNCHANGED vars \/ Tick
  BY <1>1, LimitMove DEF vars, Tick, Holds
<1>2. ASSUME NEW c \in Calls, NEW a, NEW kind, NEW l, Begin(c, a, kind, l) PROVE LimitInv'
  <2>1. call'[c].at = "waiting" /\ \A d \in Calls : d # c => call'[d] = call[d]
    BY <1>2 DEF Inv, TypeOK, Begin
  <2>2. \A d \in Calls : Holds(d)' => Same(d)
    BY <2>1 DEF Holds
  <2> QED BY <1>2, <2>2, LimitMove DEF Begin
<1>3. ASSUME NEW c \in Calls, Refuse(c) \/ Rollback(c) PROVE LimitInv'
  <2>1. call'[c] = Idle /\ \A d \in Calls : d # c => call'[d] = call[d]
    BY <1>3 DEF Inv, TypeOK, Refuse, Rollback, End
  <2>2. \A d \in Calls : Holds(d)' => Same(d)
    BY <2>1 DEF Holds, Idle
  <2> QED BY <1>3, <2>2, LimitMove DEF Refuse, Rollback
<1>4. ASSUME NEW c \in Calls, NEW x \in {"accepted", "unavailable"}, Sending(c),
             call' = [call EXCEPT ![c].at = x]
      PROVE  LimitInv'
  <2>1. call[c] \in Open /\ Holds(c)
    BY <1>4 DEF Inv, TypeOK, Sending, Holds, Idle
  <2>2. Same(c) /\ \A d \in Calls : d # c => call'[d] = call[d]
    BY <1>4, <2>1 DEF Inv, TypeOK, Open
  <2>3. \A d \in Calls : Holds(d)' => Same(d)
    BY <2>2 DEF Holds
  <2> QED BY <1>4, <2>3, LimitMove DEF Sending
<1>5. ASSUME NEW c \in Calls, Accept(c) \/ Fail(c) PROVE LimitInv'
  BY <1>4, <1>5 DEF Accept, Fail
<1>6. ASSUME NEW c \in Calls, Answer(c) PROVE LimitInv'
  <2>1. Holds(c) /\ Record(c) /\ End(c)
    BY <1>6 DEF Answer, Store, Apologize, Verify, Reject, Holds
  <2> QED BY <2>1, RecordLimit
<1> QED BY <1>1, <1>2, <1>3, <1>5, <1>6, AdmitLimit DEF Next, BeginRequest, BeginConfirm

\* No window holds more answered mails or guesses than the limit, whatever the
\* purges removed and in whatever order the calls got the lock.
THEOREM LimitsKept == Spec => []AttemptsLimited
<1>1. LimitInv /\ Inv => AttemptsLimited
  <2> SUFFICES ASSUME LimitInv, Inv, NEW a \in Accounts, NEW from \in 0 .. now
               PROVE  /\ Cardinality(Given(a, "request", from, (RequestWindow - Patience) + 1))
                           <= MaxRequests
                      /\ Cardinality(Given(a, "confirm", from, ConfirmWindow)) <= MaxConfirms
    BY DEF AttemptsLimited
  <2>1. from \in Nat /\ "request" \in Kinds /\ "confirm" \in Kinds
    BY DEF Inv, TypeOK, Kinds
  <2>2. \A kind \in Kinds : Cardinality(Given(a, kind, from, Width(kind))) <= Most(kind)
    BY <2>1 DEF LimitInv, WindowsWithin
  <2> QED BY <2>1, <2>2 DEF Width, Most
<1> QED BY <1>1, InitLimit, NextLimit, InitPause, NextPause, Invariance, PTL DEF Spec

-----------------------------------------------------------------------------

\* The numbers of twins are the first ones, so the next one is new.
RowsAreNumbered ==
  \A a \in Accounts : \A t \in answered[a] : t.id < Cardinality(Twins(a, t.kind, t.start))

LEMMA TwinsFinite ==
  ASSUME TypeOK, NEW a \in Accounts, NEW kind, NEW start
  PROVE  /\ IsFiniteSet(Twins(a, kind, start))
         /\ Cardinality(Twins(a, kind, start)) \in Nat
<1>1. Twins(a, kind, start) \in SUBSET answered[a]
  BY DEF Twins
<1> QED BY <1>1, FS_Subset, FS_CardinalityType DEF TypeOK

LEMMA NewRowIsNew ==
  ASSUME TypeOK, RowsAreNumbered, NEW c \in Calls, call[c] # Idle
  PROVE  NewRow(c) \notin answered[call[c].account]
<1> DEFINE a == call[c].account
           n == Cardinality(Twins(a, call[c].kind, call[c].start))
<1>1. call[c] \in Open /\ a \in Accounts
  BY DEF TypeOK, Open
<1>2. n \in Nat
  BY <1>1, TwinsFinite
<1>3. NewRow(c).id = n /\ NewRow(c).kind = call[c].kind /\ NewRow(c).start = call[c].start
  BY DEF NewRow
<1> HIDE DEF n
<1>4. NewRow(c) \in answered[a] => n < n
  BY <1>1, <1>3 DEF RowsAreNumbered, n
<1> QED BY <1>2, <1>4

LEMMA RecordNumbered ==
  ASSUME TypeOK, RowsAreNumbered, NEW c \in Calls, call[c] # Idle, Record(c)
  PROVE  RowsAreNumbered'
<1> DEFINE a == call[c].account
           r == NewRow(c)
           Same(t) == Twins(a, t.kind, t.start)
           Then(t) == {u \in answered'[a] : u.kind = t.kind /\ u.start = t.start}
<1>1. a \in Accounts /\ r \notin answered[a]
  <2>1. call[c] \in Open
    BY DEF TypeOK
  <2> QED BY <2>1, NewRowIsNew DEF Open
<1>2. /\ answered'[a] = answered[a] \cup {r}
      /\ \A b \in Accounts : b # a => answered'[b] = answered[b]
  BY <1>1 DEF TypeOK, Record
<1>3. r.id = Cardinality(Twins(a, r.kind, r.start))
  BY DEF NewRow
<1> HIDE DEF a, r
<1>4. ASSUME NEW t \in answered'[a] PROVE t.id < Cardinality(Then(t))
  <2>1. IsFiniteSet(Same(t)) /\ Cardinality(Same(t)) \in Nat
    BY <1>1, TwinsFinite
  <2>2. CASE t.kind = r.kind /\ t.start = r.start
    <3>1. Then(t) = Same(t) \cup {r}
      BY <1>2, <2>2 DEF Twins
    <3>2. r \notin Same(t)
      BY <1>1 DEF Twins
    <3>3. Cardinality(Same(t) \cup {r}) = Cardinality(Same(t)) + 1
      BY <2>1, <3>2, FS_AddElement
    <3>4. t = r \/ t.id < Cardinality(Same(t))
      BY <1>1, <1>2 DEF RowsAreNumbered
    <3>5. t = r => t.id = Cardinality(Same(t))
      BY <1>3
    <3>6. t.id < Cardinality(Same(t)) + 1
      <4>1. t \in answered[a] => t.id \in Nat
        BY <1>1 DEF TypeOK, Attempt
      <4> HIDE DEF Same
      <4> QED BY <4>1, <2>1, <3>4, <3>5, <1>2
    <3> QED BY <3>1, <3>3, <3>6
  <2>3. CASE ~(t.kind = r.kind /\ t.start = r.start)
    <3>1. Then(t) = Same(t) /\ t \in answered[a]
      BY <1>2, <2>3 DEF Twins
    <3> QED BY <3>1, <1>1 DEF RowsAreNumbered
  <2> QED BY <2>2, <2>3
<1>5. ASSUME NEW b \in Accounts, b # a, NEW t \in answered'[b]
      PROVE  t.id < Cardinality(Twins(b, t.kind, t.start)')
  BY <1>2, <1>5 DEF RowsAreNumbered, Twins
<1>6. ASSUME NEW b \in Accounts, b = a, NEW t \in answered'[b]
      PROVE  t.id < Cardinality(Twins(b, t.kind, t.start)')
  BY <1>4, <1>6 DEF Twins
<1> QED BY <1>5, <1>6 DEF RowsAreNumbered

LEMMA NextNumbered == TypeOK /\ RowsAreNumbered /\ [Next]_vars => RowsAreNumbered'
<1> SUFFICES ASSUME TypeOK, RowsAreNumbered, [Next]_vars PROVE RowsAreNumbered'
  OBVIOUS
<1>1. CASE UNCHANGED answered
  BY <1>1 DEF RowsAreNumbered, Twins
<1>2. ASSUME NEW c \in Calls, Answer(c) PROVE RowsAreNumbered'
  <2>1. call[c] # Idle /\ Record(c)
    BY <1>2 DEF Answer, Store, Apologize, Verify, Reject, Idle
  <2> QED BY <2>1, RecordNumbered
<1> QED BY <1>1, <1>2
    DEF Next, vars, BeginRequest, BeginConfirm, Begin, Admit, Refuse, Accept, Fail, Sending,
        Rollback, Tick

\* No answer is lost from the history that the limits are stated about: each one
\* adds a row that was not there, also when two calls of a kind began together.
THEOREM EachAnswerCounts ==
  Spec => [][\A c \in Calls : Answer(c) => NewRow(c) \notin answered[call[c].account]]_vars
<1>1. Init => RowsAreNumbered
  BY DEF Init, RowsAreNumbered
<1>2. TypeOK /\ RowsAreNumbered =>
        \A c \in Calls : Answer(c) => NewRow(c) \notin answered[call[c].account]
  BY NewRowIsNew DEF Answer, Store, Apologize, Verify, Reject, Idle
<1> QED BY <1>1, <1>2, NextNumbered, TypeCorrect, PTL DEF Spec

=============================================================================
