----------------------------- MODULE Verification -----------------------------
(*****************************************************************************)
(* Proof of email ownership: POST /auth/verification/request and             *)
(* POST /auth/verification/confirm in Python/routers/auth.py.                *)
(*                                                                           *)
(* A call is one transaction.  It begins, waits for the row lock of its      *)
(* account, checks the attempts limit, and (for a request) talks to the mail *)
(* provider while it holds the lock.  PostgreSQL's now() is the moment the   *)
(* transaction began, so a call that waited for the lock measures limits and *)
(* expiry with a clock that is behind, and calls may get the lock in another *)
(* order than they began.  A mail can be out although its call failed: the   *)
(* answer of the provider was lost, or the transaction never committed.      *)
(*****************************************************************************)
EXTENDS Naturals, FiniteSets

CONSTANTS
  Accounts,       \* user ids
  Calls,          \* HTTP calls that may be under way at once
  Gap,            \* 60 seconds between mails
  RequestWindow,  \* 1 hour
  MaxRequests,    \* 5 mails in that window
  ConfirmWindow,  \* 15 minutes
  MaxConfirms,    \* 10 tries in that window
  Life,           \* 30 minutes
  Patience,       \* the longest a call stays open, in ticks of the clock
  MaxLinks,       \* bound of the model: requests made
  MaxTime         \* bound of the model: the clock

ASSUME TimesAssumption ==
  /\ {Gap, RequestWindow, ConfirmWindow, Life, Patience} \subseteq Nat \ {0}
  /\ {MaxRequests, MaxConfirms, MaxLinks, MaxTime} \subseteq Nat
  /\ Gap + Patience <= RequestWindow
  /\ ConfirmWindow + Patience <= RequestWindow

VARIABLES
  now,       \* the clock of the database
  tokens,    \* rows of email_verification_tokens
  attempts,  \* rows of email_verification_requests, per account
  verified,  \* users.email_verified_at IS NOT NULL
  mailbox,   \* links in the mailbox of each account
  call,      \* the open transaction of each call
  drawn,     \* auxiliary: links drawn so far
  newest,    \* auxiliary: the link of the last request that committed with 202
  uses,      \* auxiliary: how often an account was verified through a link
  answered   \* auxiliary: the attempts of each account that got past the limit
             \* and were answered, none of them purged

vars == <<now, tokens, attempts, verified, mailbox, call, drawn, newest,
          uses, answered>>

Links   == 1 .. MaxLinks
NoLink  == 0            \* a link nobody was ever sent
Kinds   == {"request", "confirm"}
Idle    == [at |-> "idle"]
Open    == [at : {"waiting", "locked", "accepted", "unavailable"}, kind : Kinds,
            account : Accounts, link : Links \cup {NoLink}, start : Nat]
Row     == [account : Accounts, link : Links, expires : Nat]
Attempt == [id : Nat, kind : Kinds, start : Nat]

\* Types; only a request talks to the provider, and what it sends is a link.
TypeOK ==
  /\ now \in Nat
  /\ tokens \in SUBSET Row
  /\ attempts \in [Accounts -> SUBSET Attempt]
  /\ verified \in SUBSET Accounts
  /\ mailbox \in [Accounts -> SUBSET Links]
  /\ call \in [Calls -> Open \cup {Idle}]
  /\ \A c \in Calls : call[c] # Idle =>
       /\ call[c].kind = "request" => call[c].link \in Links
       /\ call[c].at \in {"accepted", "unavailable"} => call[c].kind = "request"
  /\ drawn \in 0 .. MaxLinks
  /\ newest \in [Accounts -> Links \cup {NoLink}]
  /\ uses \in [Accounts -> [Links -> Nat]]
  /\ answered \in [Accounts -> SUBSET Attempt]
  /\ \A a \in Accounts : IsFiniteSet(answered[a])

Init ==
  /\ now = 0 /\ tokens = {} /\ verified = {} /\ drawn = 0
  /\ attempts = [a \in Accounts |-> {}]
  /\ mailbox = [a \in Accounts |-> {}]
  /\ call = [c \in Calls |-> Idle]
  /\ newest = [a \in Accounts |-> NoLink]
  /\ uses = [a \in Accounts |-> [l \in Links |-> 0]]
  /\ answered = [a \in Accounts |-> {}]

Holds(c)    == call[c].at \in {"locked", "accepted", "unavailable"}
Unlocked(a) == \A c \in Calls : Holds(c) => call[c].account # a
End(c)      == call' = [call EXCEPT ![c] = Idle]

-----------------------------------------------------------------------------
(* _limit_attempt, up to its INSERT, which is part of the commit.            *)

\* The history as a call that began at start reads it.  x > now() - y is
\* written x + y > now(), to stay in Nat.
Recent(a, kind, width, start) ==
  {t \in attempts[a] : t.kind = kind /\ t.start + width > start}

\* Broken variant: the pause between two mails is not enforced.
LimitedUnpaced(a, kind, start) ==
  IF kind = "confirm" THEN Cardinality(Recent(a, kind, ConfirmWindow, start)) >= MaxConfirms
                      ELSE Cardinality(Recent(a, kind, RequestWindow, start)) >= MaxRequests

\* Broken variant: one mail more than the limit.
LimitedOneLater(a, kind, start) ==
  IF kind = "confirm" THEN Cardinality(Recent(a, kind, ConfirmWindow, start)) >= MaxConfirms
  ELSE \/ Cardinality(Recent(a, kind, RequestWindow, start)) > MaxRequests
       \/ Recent(a, kind, Gap, start) # {}

\* Too many calls in the window, or a mail asked for a moment ago.
Limited(a, kind, start) ==
  IF kind = "confirm" THEN Cardinality(Recent(a, kind, ConfirmWindow, start)) >= MaxConfirms
  ELSE \/ Cardinality(Recent(a, kind, RequestWindow, start)) >= MaxRequests
       \/ Recent(a, kind, Gap, start) # {}

\* The transaction begins; a request's link is fresh.
Begin(c, a, kind, link) ==
  /\ call[c] = Idle
  /\ call' = [call EXCEPT ![c] = [at |-> "waiting", kind |-> kind, account |-> a,
                                  link |-> link, start |-> now]]
  /\ UNCHANGED <<now, tokens, attempts, verified, mailbox, newest, uses, answered>>

BeginRequest(c, a) ==
  /\ drawn < MaxLinks
  /\ Begin(c, a, "request", drawn + 1)
  /\ drawn' = drawn + 1

\* Anyone signed in, with a link of any mailbox or a made-up one.
BeginConfirm(c, a, link) ==
  /\ link \in UNION {mailbox[b] : b \in Accounts} \cup {NoLink}
  /\ Begin(c, a, "confirm", link)
  /\ UNCHANGED drawn

\* Broken variant: the account row is read without FOR UPDATE.
AdmitUnlocked(c) ==
  /\ call[c].at = "waiting"
  /\ ~Limited(call[c].account, call[c].kind, call[c].start)
  /\ call' = [call EXCEPT ![c].at = "locked"]
  /\ UNCHANGED <<now, tokens, attempts, verified, mailbox, drawn, newest,
                 uses, answered>>

\* The row lock is granted and the limit leaves room.
Admit(c) ==
  /\ call[c].at = "waiting"
  /\ Unlocked(call[c].account)
  /\ ~Limited(call[c].account, call[c].kind, call[c].start)
  /\ call' = [call EXCEPT ![c].at = "locked"]
  /\ UNCHANGED <<now, tokens, attempts, verified, mailbox, drawn, newest,
                 uses, answered>>

\* 429: raised inside the transaction, so the purge is rolled back too.
Refuse(c) ==
  /\ call[c].at = "waiting"
  /\ Unlocked(call[c].account)
  /\ Limited(call[c].account, call[c].kind, call[c].start)
  /\ End(c)
  /\ UNCHANGED <<now, tokens, attempts, verified, mailbox, drawn, newest,
                 uses, answered>>

-----------------------------------------------------------------------------
(* deliver_verification.                                                     *)

\* In the transaction of a request, under the lock.
Sending(c) ==
  /\ call[c].at = "locked" /\ call[c].kind = "request"
  /\ UNCHANGED <<now, tokens, attempts, verified, drawn, newest, uses,
                 answered>>

Mailed(c) ==
  mailbox' = [mailbox EXCEPT ![call[c].account] = @ \cup {call[c].link}]

\* The provider accepts the mail and says so.
Accept(c) ==
  /\ Sending(c)
  /\ Mailed(c)
  /\ call' = [call EXCEPT ![c].at = "accepted"]

\* Broken variant: a lost answer counts as an acceptance.
FailHopeful(c) ==
  /\ Sending(c)
  /\ Mailed(c) \/ UNCHANGED mailbox
  /\ call' = [call EXCEPT ![c].at = "accepted"]

\* DeliveryUnavailable: disabled, refused, or no answer within 3 seconds, in
\* which case the mail may be out all the same.
Fail(c) ==
  /\ Sending(c)
  /\ Mailed(c) \/ UNCHANGED mailbox
  /\ call' = [call EXCEPT ![c].at = "unavailable"]

-----------------------------------------------------------------------------
(* The commits.                                                              *)

\* Broken variant: the purge keeps no more than a confirmation looks at.
KeptForConfirming(a, start) == {t \in attempts[a] : t.start + ConfirmWindow >= start}

\* The attempts left by the purge of _limit_attempt.
Kept(a, start) == {t \in attempts[a] : t.start + RequestWindow >= start}

\* The rows of a kind that began at the same time.
Twins(a, kind, start) == {t \in answered[a] : t.kind = kind /\ t.start = start}

\* A new row; its number tells it from its twins.
NewRow(c) ==
  [id |-> Cardinality(Twins(call[c].account, call[c].kind, call[c].start)),
   kind |-> call[c].kind, start |-> call[c].start]

\* The rest of _limit_attempt, committed with whatever the call did.
Record(c) ==
  LET a == call[c].account
  IN /\ attempts' = [attempts EXCEPT ![a] = Kept(a, call[c].start) \cup {NewRow(c)}]
     /\ answered' = [answered EXCEPT ![a] = @ \cup {NewRow(c)}]

\* 202: the new token replaces the previous one.
Store(c) ==
  /\ call[c].at = "accepted"
  /\ tokens' = {r \in tokens : r.account # call[c].account}
               \cup {[account |-> call[c].account, link |-> call[c].link,
                      expires |-> call[c].start + Life]}
  /\ newest' = [newest EXCEPT ![call[c].account] = call[c].link]
  /\ Record(c)
  /\ End(c)
  /\ UNCHANGED <<now, verified, mailbox, drawn, uses>>

\* 503: only the attempt is committed, the previous token stays.
Apologize(c) ==
  /\ call[c].at = "unavailable"
  /\ Record(c)
  /\ End(c)
  /\ UNCHANGED <<now, tokens, verified, mailbox, drawn, newest, uses>>

\* Broken variant: the expiry of the token is not compared.
MatchForever(c) ==
  {r \in tokens : r.account = call[c].account /\ r.link = call[c].link}

\* The rows that DELETE ... RETURNING takes away.
Match(c) ==
  {r \in tokens : /\ r.account = call[c].account
                  /\ r.link = call[c].link
                  /\ r.expires > call[c].start}

\* Broken variant: the token is read, not taken.
VerifyReading(c) ==
  /\ call[c].at = "locked" /\ call[c].kind = "confirm"
  /\ Match(c) # {}
  /\ verified' = verified \cup {call[c].account}
  /\ uses' = [uses EXCEPT ![call[c].account][call[c].link] = @ + 1]
  /\ Record(c)
  /\ End(c)
  /\ UNCHANGED <<now, tokens, mailbox, drawn, newest>>

\* 200: the token is gone and the account verified.
Verify(c) ==
  /\ call[c].at = "locked" /\ call[c].kind = "confirm"
  /\ Match(c) # {}
  /\ tokens' = tokens \ Match(c)
  /\ verified' = verified \cup {call[c].account}
  /\ uses' = [uses EXCEPT ![call[c].account][call[c].link] = @ + 1]
  /\ Record(c)
  /\ End(c)
  /\ UNCHANGED <<now, mailbox, drawn, newest>>

\* Broken variant: the 400 is raised inside the transaction.
RejectUnrecorded(c) ==
  /\ call[c].at = "locked" /\ call[c].kind = "confirm"
  /\ Match(c) = {}
  /\ answered' = [answered EXCEPT ![call[c].account] = @ \cup {NewRow(c)}]
  /\ End(c)
  /\ UNCHANGED <<now, tokens, attempts, verified, mailbox, drawn, newest, uses>>

\* 400: raised after the commit, so the try is counted.
Reject(c) ==
  /\ call[c].at = "locked" /\ call[c].kind = "confirm"
  /\ Match(c) = {}
  /\ Record(c)
  /\ End(c)
  /\ UNCHANGED <<now, tokens, verified, mailbox, drawn, newest, uses>>

\* The process dies or the commit fails; nothing but a mail remains.
Rollback(c) ==
  /\ call[c] # Idle
  /\ End(c)
  /\ UNCHANGED <<now, tokens, attempts, verified, mailbox, drawn, newest,
                 uses, answered>>

\* Time passes, but no call stays open longer than Patience.
Tick ==
  /\ now < MaxTime
  /\ \A c \in Calls : call[c] # Idle => now < call[c].start + Patience
  /\ now' = now + 1
  /\ UNCHANGED <<tokens, attempts, verified, mailbox, call, drawn, newest,
                 uses, answered>>

Answer(c) == Store(c) \/ Apologize(c) \/ Verify(c) \/ Reject(c)

Next ==
  \/ \E c \in Calls, a \in Accounts : BeginRequest(c, a)
  \/ \E c \in Calls, a \in Accounts, link \in Links \cup {NoLink} :
       BeginConfirm(c, a, link)
  \/ \E c \in Calls : Admit(c) \/ Refuse(c) \/ Accept(c) \/ Fail(c)
  \/ \E c \in Calls : Answer(c) \/ Rollback(c)
  \/ Tick

Spec == Init /\ [][Next]_vars

-----------------------------------------------------------------------------
(* Properties.                                                               *)

\* An account has at most one token (its primary key would make a second one an
\* error), and the token was really mailed to that account, whatever became of
\* the deliveries that failed in between.
StoredLinkWasMailed ==
  /\ \A r, s \in tokens : r.account = s.account => r = s
  /\ \A r \in tokens : r.link \in mailbox[r.account]

\* A link verifies once, and only the account whose mailbox it was sent to,
\* although anybody may present it any number of times, concurrently with
\* requests for the next one; nothing else verifies an account.
LinkWorksOnce ==
  /\ \A a \in Accounts, l \in Links : uses[a][l] > 0 =>
       /\ uses[a][l] = 1 /\ l \in mailbox[a]
       /\ \A b \in Accounts \ {a} : uses[b][l] = 0
  /\ \A a \in verified : \E l \in Links : uses[a][l] > 0

\* A link that verifies is the one of the latest request answered 202 and is at
\* most as old as its life and the time a call may wait for the account's lock.
OnlyNewestInTime ==
  [][\A a \in Accounts, l \in Links : uses'[a][l] > uses[a][l] =>
       /\ l = newest[a]
       /\ \E r \in tokens : r.link = l /\ now < r.expires + Patience]_vars

\* The token of an account changes only when that account is answered 202 or
\* verified: a delivery that failed, a wrong link and a call of another account
\* all leave it in force.
FailureKeepsTheLink ==
  [][\A a \in Accounts :
       {r \in tokens : r.account = a} # {r \in tokens' : r.account = a} =>
         newest'[a] # newest[a] \/ uses'[a] # uses[a]]_vars

\* Two mails of an account that were answered were asked for at least Gap apart,
\* in whatever order the calls got the lock.
MailsSpaced ==
  \A a \in Accounts : \A t, u \in answered[a] :
    t # u /\ t.kind = "request" /\ u.kind = "request" =>
      t.start + Gap <= u.start \/ u.start + Gap <= t.start

\* The answers given to calls of a kind that began in a window.
Given(a, kind, from, width) ==
  {t \in answered[a] : t.kind = kind /\ from <= t.start /\ t.start < from + width}

\* No window holds more answers than the limit: neither mails nor guesses of a
\* token, counting the ones whose rows were purged since.  The hour of the mails
\* is shorter by what calls may overtake each other: one that began later, got the
\* lock first and purged has removed rows that the earlier one should still count.
AttemptsLimited ==
  \A a \in Accounts, from \in 0 .. now :
    /\ Cardinality(Given(a, "request", from, (RequestWindow - Patience) + 1)) <= MaxRequests
    /\ Cardinality(Given(a, "confirm", from, ConfirmWindow)) <= MaxConfirms

=============================================================================
