------------------------------ MODULE VaultPage ------------------------------
(***************************************************************************)
(* The vault terminal in the browser (vault/page.tsx) and the server it    *)
(* talks to: what is on screen, what is in localStorage, the signing key   *)
(* in the memory of the page, and the requests that are under way while    *)
(* the user goes on clicking, reloads or navigates.                        *)
(*                                                                         *)
(* A connect makes a key pair and opens at most one session, so one number *)
(* names the key, the public key and the token of a session.  The server   *)
(* is what the page sees of the routes: Access has its sessions,           *)
(* CreditLedger its decisions, its reset and the journaling of refusals    *)
(* that are pending.  (A retry of such a refusal is decided again here,    *)
(* which allows more than the server does.)                                *)
(***************************************************************************)
EXTENDS Integers, FiniteSets

CONSTANTS
    Vaults,
    Slots,         \* bound: requests of the page under way at once, 1..n;
                   \* a new one takes the first that is free
    MaxConnects,   \* bound: connects made
    MaxNonce,      \* bound: transitions of a vault
    MaxDebt,       \* credit limit of a vault
    MayNavigate    \* whether the user leaves for another page of the app

None == 0                          \* no session, no key
Nowhere == [vault |-> None, debt |-> 0, nonce |-> 0, exited |-> FALSE]
Unsigned == [key |-> None, vault |-> None, action |-> "none", amount |-> 0,
             nonce |-> 0]

\* An answer with a position, and one without.
Shows(p) == [status |-> 200, position |-> p]
Says(status) == [status |-> status, position |-> Nowhere]
Blank == Says(0)                   \* none yet

\* A request the page sends for session id; "of" is the handler that awaits
\* it.  That handler is on the page that is mounted ("here"), has outlived it
\* ("left"), or is gone, with all that ran in the browser ("gone").  An action
\* carries what was signed, and the position that was on screen at the click.
Sent(kind, of, id) ==
    [kind |-> kind, of |-> of, id |-> id, here |-> "here", stage |-> "sent",
     answer |-> Blank, message |-> Unsigned, saw |-> Nowhere]
Idle == [Sent("none", "none", None) EXCEPT !.stage = "none"]

ASSUME PageAssumption ==
    /\ None \notin Vaults /\ Vaults # {}
    /\ Slots \subseteq Nat /\ MaxConnects \in Nat \ {0}
    /\ MaxNonce \in Nat /\ MaxDebt \in Nat /\ MayNavigate \in BOOLEAN

Free(t, s) == t[s] = Idle /\ \A q \in Slots : q < s => t[q] # Idle

VARIABLES
    session,     \* session on screen
    stored,      \* session in localStorage
    key,         \* inMemoryPrivateKey
    position,    \* position on screen
    busy,
    connecting,
    task,        \* per slot, the request that is under way
    connects,    \* connects made so far
    vaultOf,     \* vault of each session
    live,        \* sessions the server accepts
    ledger,      \* the server's positions
    applied      \* transitions the server applied, its journal

screen == <<session, position, busy, connecting>>
page == <<screen, stored, key>>
server == <<vaultOf, live, ledger, applied>>
vars == <<page, task, connects, server>>

\* The page is opened with the session of an earlier visit, or none.  Vaults
\* are interchangeable: any of them stands for that session's.
Init ==
    /\ session = None /\ key = None
    /\ position = Nowhere
    /\ busy = FALSE /\ connecting = FALSE
    /\ connects = 1
    /\ vaultOf = [i \in 1..MaxConnects |-> CHOOSE v \in Vaults : TRUE]
    /\ live = {1}
    /\ ledger = [v \in Vaults |-> [Nowhere EXCEPT !.vault = v]]
    /\ applied = {}
    /\ LET blank == [s \in Slots |-> Idle] IN
       \/ stored = None /\ task = blank
       \/ /\ stored = 1
          /\ \E s \in Slots :
               /\ Free(blank, s)
               /\ task = [blank EXCEPT ![s] = Sent("restore", "restore", 1)]

-----------------------------------------------------------------------------
(* Requests. *)

Waits(s, stage) == task[s].stage = stage

\* refresh asks for the position of the stored session; without one its
\* receipts are refused and it does nothing.
refreshOf(s, of, id) ==
    IF id = None THEN Idle
    ELSE [Sent("refresh", of, id) EXCEPT !.here = task[s].here]

\* What a handler puts on screen reaches the screen only if it still belongs
\* to the page that is mounted.
OnScreen(s, effect) == IF task[s].here = "here" THEN effect ELSE UNCHANGED screen

\* A request or its answer is lost, the server dies with it, or refuses the
\* rate.
Lost(s) ==
    /\ task[s].stage \in {"sent", "read", "answered"}
    /\ task' = [task EXCEPT ![s].stage = "lost", ![s].answer = Blank]
    /\ UNCHANGED <<page, connects, server>>

Answered(s, answer) ==
    task' = [task EXCEPT ![s].stage = "answered", ![s].answer = answer]

-----------------------------------------------------------------------------
(* The server. *)

\* GET /api/positions of the session that asks: its position, or none.
ServePosition(s) ==
    /\ Waits(s, "sent") /\ task[s].kind \in {"restore", "refresh"}
    /\ Answered(s, IF task[s].id \in live THEN Shows(ledger[vaultOf[task[s].id]])
                   ELSE Says(200))
    /\ UNCHANGED <<page, connects, server>>

\* Receipts, and a proof that is verified or not: answers without a position.
ServeOther(s) ==
    /\ Waits(s, "sent")
    /\ \/ task[s].kind = "receipts"
       \/ task[s].kind = "run" /\ task[s].of = "proof"
    /\ Answered(s, Says(IF task[s].kind = "run" /\ task[s].id \notin live
                        THEN 401 ELSE 200))
    /\ UNCHANGED <<page, connects, server>>

ServeConnect(s) ==
    /\ Waits(s, "sent") /\ task[s].kind = "connect"
    /\ \/ /\ live' = live \cup {task[s].id}
          /\ Answered(s, Shows(ledger[vaultOf[task[s].id]]))
       \/ /\ UNCHANGED live
          /\ Answered(s, Says(403))
    /\ UNCHANGED <<page, connects, vaultOf, ledger, applied>>

\* A revocation ends every session there is.
ServeDisconnect(s) ==
    /\ Waits(s, "sent") /\ task[s].kind = "disconnect"
    /\ live' = {}
    /\ Answered(s, Says(200))
    /\ UNCHANGED <<page, connects, vaultOf, ledger, applied>>

\* Mutant: the signature is checked, the vault it was made for is not.
verifyKey(m, v, id) == m.key = id

\* The message, rebuilt from the server's position, is what the key of the
\* session signed.
verifyCanonical(m, v, id) == m.key = id /\ m.vault = v

\* A signed action: authenticated before the lock, with the position as it is
\* then.
authenticateAction(s) ==
    /\ Waits(s, "sent") /\ task[s].kind = "run" /\ task[s].of = "action"
    /\ LET id == task[s].id  v == vaultOf[id] IN
       \/ id \notin live /\ Answered(s, Says(401))
       \/ /\ id \in live /\ ~verifyCanonical(task[s].message, v, id)
          /\ Answered(s, Says(403))
       \/ /\ id \in live /\ verifyCanonical(task[s].message, v, id)
          /\ task' = [task EXCEPT ![s].stage = "read",
                                  ![s].answer = Shows(ledger[v])]
    /\ UNCHANGED <<page, connects, server>>

Allowed(p, m) ==
    CASE m.action = "DRAW" -> ~p.exited /\ p.debt < MaxDebt
      [] m.action = "REPAY" -> TRUE
      [] m.action = "UNLOCK" -> ~p.exited /\ p.debt = 0

\* Mutant: a repayment leaves the nonce.
AfterKept(p, before, m) ==
    CASE m.action = "DRAW" ->
           [p EXCEPT !.debt = @ + m.amount, !.nonce = @ + 1, !.exited = FALSE]
      [] m.action = "REPAY" ->
           LET owed == IF m.amount < p.debt THEN p.debt - m.amount ELSE 0 IN
           [p EXCEPT !.debt = owed, !.exited = @ /\ owed # 0]
      [] m.action = "UNLOCK" ->
           [before EXCEPT !.exited = TRUE, !.nonce = p.nonce + 1]

\* The exit is written from the position read before the lock.
After(p, before, m) ==
    CASE m.action = "DRAW" ->
           [p EXCEPT !.debt = @ + m.amount, !.nonce = @ + 1, !.exited = FALSE]
      [] m.action = "REPAY" ->
           LET owed == IF m.amount < p.debt THEN p.debt - m.amount ELSE 0 IN
           [p EXCEPT !.debt = owed, !.nonce = @ + 1, !.exited = @ /\ owed # 0]
      [] m.action = "UNLOCK" ->
           [before EXCEPT !.exited = TRUE, !.nonce = p.nonce + 1]

\* A refused draw freezes the position, an exited one, too.
AfterDenied(p, m) == IF m.action = "DRAW" THEN [p EXCEPT !.exited = FALSE] ELSE p

\* Under the lock: looked up in the journal, checked for its nonce, decided.
\* Health, the adapter or the daemon may refuse what the position allows.
decide(s) ==
    /\ Waits(s, "read")
    /\ LET m == task[s].message
           v == vaultOf[task[s].id]
           p == ledger[v]
           before == task[s].answer.position
           entry == [id |-> task[s].id, vault |-> v, action |-> m.action,
                     amount |-> m.amount, nonce |-> m.nonce]
       IN
       \/ /\ entry \in applied
          /\ Answered(s, Shows(IF m.action = "DRAW" THEN before ELSE p))
          /\ UNCHANGED <<ledger, applied>>
       \/ /\ entry \notin applied /\ m.nonce # p.nonce
          /\ Answered(s, Says(403))
          /\ UNCHANGED <<ledger, applied>>
       \/ /\ entry \notin applied /\ m.nonce = p.nonce
          /\ ledger' = [ledger EXCEPT ![v] = AfterDenied(p, m)]
          /\ Answered(s, Shows(IF m.action = "UNLOCK" THEN before
                               ELSE AfterDenied(p, m)))
          /\ UNCHANGED applied
       \/ /\ entry \notin applied /\ m.nonce = p.nonce
          /\ Allowed(p, m) /\ p.nonce < MaxNonce
          /\ ledger' = [ledger EXCEPT ![v] = After(p, before, m)]
          /\ applied' = applied \cup {entry}
          /\ Answered(s, Shows(After(p, before, m)))
    /\ UNCHANGED <<page, connects, vaultOf, live>>

\* A session expires, or the server restarts under another secret.
SessionEnds ==
    /\ \E id \in live : live' = live \ {id}
    /\ UNCHANGED <<page, task, connects, vaultOf, ledger, applied>>

Serve(s) ==
    ServePosition(s) \/ ServeOther(s) \/ ServeConnect(s) \/ ServeDisconnect(s)
    \/ authenticateAction(s) \/ decide(s)

-----------------------------------------------------------------------------
(* refresh and restore. *)

refresh(s) ==
    /\ task[s].kind = "refresh" /\ task[s].stage \in {"answered", "lost"}
    /\ OnScreen(s,
         /\ position' =
              IF /\ task[s].stage = "answered"
                 /\ task[s].answer.position # Nowhere
              THEN task[s].answer.position ELSE position
         /\ connecting' = (connecting /\ task[s].of # "connect")
         /\ UNCHANGED <<session, busy>>)
    /\ task' = [task EXCEPT ![s] = Idle]
    /\ UNCHANGED <<stored, key, connects, server>>

\* The answer to the restore of a mounted page.  The server no longer knows
\* the session: it is dropped.  It does, but the page has no key: dropped as
\* well.  Otherwise the session is shown, and its receipts are fetched.
restore(s) ==
    /\ Waits(s, "answered") /\ task[s].kind = "restore" /\ task[s].here = "here"
    /\ \/ /\ task[s].answer.position = Nowhere
          /\ stored' = None
          /\ task' = [task EXCEPT ![s] = Idle]
          /\ UNCHANGED <<session, position>>
       \/ /\ task[s].answer.position # Nowhere /\ key = None
          /\ stored' = None
          /\ session' = None /\ position' = Nowhere
          /\ task' = [task EXCEPT ![s] = Idle]
       \/ /\ task[s].answer.position # Nowhere /\ key # None
          /\ session' = task[s].id
          /\ position' = task[s].answer.position
          /\ task' = [task EXCEPT ![s] = Sent("receipts", "restore", task[s].id)]
          /\ UNCHANGED stored
    /\ UNCHANGED <<key, busy, connecting, connects, server>>

\* A restore that failed, before or after the session was shown, refreshes, or
\* does nothing when it was refused; one whose page is gone does nothing.
restoreEnds(s) ==
    /\ \/ task[s].kind = "restore" /\ (Waits(s, "lost") \/ task[s].here # "here")
       \/ task[s].kind = "receipts"
    /\ task[s].stage \in {"answered", "lost"}
    /\ \/ task' = [task EXCEPT ![s] = Idle]
       \/ /\ Waits(s, "lost") /\ task[s].here = "here"
          /\ task' = [task EXCEPT ![s] = refreshOf(s, "restore", stored)]
    /\ UNCHANGED <<page, connects, server>>

-----------------------------------------------------------------------------
(* connect and disconnect. *)

\* A connect waits for nothing: Enter in the vault's field asks only that no
\* session is shown, and a fresh vault, whose name is fetched first, connects
\* when it arrives, whatever is on screen by then.  The fetch changes nothing
\* else; one that outlives its page connects as if it had been sent before.
connect(s, v) ==
    /\ Free(task, s) /\ connects < MaxConnects
    /\ connects' = connects + 1
    /\ vaultOf' = [vaultOf EXCEPT ![connects'] = v]
    /\ connecting' = TRUE
    /\ task' = [task EXCEPT ![s] = Sent("connect", "connect", connects')]
    /\ UNCHANGED <<session, position, busy, stored, key, live, ledger,
                   applied>>

\* The handle is stored, the key remembered and the session shown, in one go;
\* then the position is asked for.
connected(s) ==
    /\ Waits(s, "answered") /\ task[s].kind = "connect" /\ task[s].answer.status = 200
    /\ stored' = task[s].id /\ key' = task[s].id
    /\ OnScreen(s, /\ session' = task[s].id
                   /\ UNCHANGED <<position, busy, connecting>>)
    /\ task' = [task EXCEPT ![s] = refreshOf(s, "connect", task[s].id)]
    /\ UNCHANGED <<connects, server>>

connectFails(s) ==
    /\ task[s].kind = "connect"
    /\ Waits(s, "lost") \/ (Waits(s, "answered") /\ task[s].answer.status # 200)
    /\ OnScreen(s, /\ connecting' = FALSE
                   /\ UNCHANGED <<session, position, busy>>)
    /\ task' = [task EXCEPT ![s] = Idle]
    /\ UNCHANGED <<stored, key, connects, server>>

disconnect(s) ==
    /\ Free(task, s) /\ session # None
    /\ task' = [task EXCEPT ![s] = Sent("disconnect", "disconnect", session)]
    /\ UNCHANGED <<page, connects, server>>

\* With or without an answer everything local goes.
disconnected(s) ==
    /\ task[s].kind = "disconnect" /\ task[s].stage \in {"answered", "lost"}
    /\ stored' = None /\ key' = None
    /\ OnScreen(s, /\ session' = None /\ position' = Nowhere
                   /\ UNCHANGED <<busy, connecting>>)
    /\ task' = [task EXCEPT ![s] = Idle]
    /\ UNCHANGED <<connects, server>>

-----------------------------------------------------------------------------
(* The buttons that act. *)

\* What may be signed with the position on screen.  Enter in the amount field
\* draws while a request is under way, too; the other buttons wait for it.
Buttons ==
    {[action |-> "DRAW", amount |-> 1]}
      \cup {b \in {[action |-> "REPAY", amount |-> position.debt]} :
              ~busy /\ position.debt > 0}
      \cup {b \in {[action |-> "UNLOCK", amount |-> 0]} :
              ~busy /\ position.debt = 0 /\ ~position.exited}

\* submitSigned: the position on screen is signed with the key of the page and
\* sent with the token of the session on screen.
submitSigned(s) ==
    /\ Free(task, s)
    /\ session # None /\ position # Nowhere /\ key # None
    /\ \E b \in Buttons :
         LET m == [key |-> key, vault |-> position.vault, action |-> b.action,
                   amount |-> b.amount, nonce |-> position.nonce]
             signed == [Sent("run", "action", session) EXCEPT !.message = m]
         IN task' = [task EXCEPT ![s] = [signed EXCEPT !.saw = position]]
    /\ busy' = TRUE
    /\ UNCHANGED <<session, position, connecting, stored, key, connects, server>>

\* Without a key nothing is sent and the session goes.
submitKeyless ==
    /\ session # None /\ position # Nowhere /\ key = None
    /\ stored' = None /\ session' = None
    /\ UNCHANGED <<position, busy, connecting, key, task, connects, server>>

\* Refresh Oracle.
refreshLiveProof(s) ==
    /\ Free(task, s) /\ ~busy /\ session # None
    /\ \A q \in Slots : task[q].here = "here" => task[q].of # "proof"
    /\ task' = [task EXCEPT ![s] = Sent("run", "proof", session)]
    /\ busy' = TRUE
    /\ UNCHANGED <<session, position, connecting, stored, key, connects, server>>

\* refreshLiveProof goes on with a refresh.
Continues(s) == IF task[s].of = "proof" THEN refreshOf(s, "proof", stored') ELSE Idle

\* Mutant: a refused session returns before the page is free again.
runEarly(s) ==
    /\ Waits(s, "answered") /\ task[s].kind = "run"
    /\ IF task[s].answer.status = 401
       THEN /\ stored' = None /\ key' = None
            /\ OnScreen(s, /\ session' = None
                           /\ UNCHANGED <<position, connecting, busy>>)
       ELSE /\ UNCHANGED <<stored, key>>
            /\ OnScreen(s, /\ busy' = FALSE
                           /\ UNCHANGED <<session, position, connecting>>)
    /\ task' = [task EXCEPT ![s] = Continues(s)]
    /\ UNCHANGED <<connects, server>>

\* An answer: 401 drops the session, a position is shown, and in every case
\* the buttons come back.
run(s) ==
    /\ Waits(s, "answered") /\ task[s].kind = "run"
    /\ IF task[s].answer.status = 401
       THEN /\ stored' = None /\ key' = None
            /\ OnScreen(s, /\ session' = None
                           /\ busy' = FALSE
                           /\ UNCHANGED <<position, connecting>>)
       ELSE /\ UNCHANGED <<stored, key>>
            /\ OnScreen(s, /\ position' = IF task[s].answer.position = Nowhere
                                          THEN position
                                          ELSE task[s].answer.position
                           /\ busy' = FALSE
                           /\ UNCHANGED <<session, connecting>>)
    /\ task' = [task EXCEPT ![s] = Continues(s)]
    /\ UNCHANGED <<connects, server>>

\* No answer: "Request failed closed; no state transition applied".
runFails(s) ==
    /\ Waits(s, "lost") /\ task[s].kind = "run"
    /\ UNCHANGED <<stored, key>>
    /\ OnScreen(s, /\ busy' = FALSE
                   /\ UNCHANGED <<session, position, connecting>>)
    /\ task' = [task EXCEPT ![s] = Continues(s)]
    /\ UNCHANGED <<connects, server>>

-----------------------------------------------------------------------------
(* Leaving the page. *)

\* A page that mounts is blank and restores the stored session.
Mounts(rest) ==
    /\ session' = None /\ position' = Nowhere
    /\ busy' = FALSE /\ connecting' = FALSE
    /\ IF stored = None THEN task' = rest
       ELSE \E s \in Slots :
              /\ Free(rest, s)
              /\ task' = [rest EXCEPT ![s] = Sent("restore", "restore", stored)]
    /\ UNCHANGED <<stored, connects, vaultOf>>

\* A reload forgets the key, and the answers to what was sent.  What was sent
\* may still be served: a read nobody waits for no longer matters, the rest
\* does.
Reload ==
    /\ key' = None
    /\ Mounts([s \in Slots |->
         IF /\ task[s].stage \in {"sent", "read"}
            /\ task[s].of \in {"connect", "disconnect", "action"}
         THEN [task[s] EXCEPT !.here = "gone"] ELSE Idle])
    /\ UNCHANGED <<live, ledger, applied>>

\* Another page of the app and back: the key stays, and handlers under way
\* finish without a screen.
Navigate ==
    /\ MayNavigate
    /\ Mounts([s \in Slots |-> IF task[s] = Idle \/ task[s].here = "gone"
                               THEN task[s]
                               ELSE [task[s] EXCEPT !.here = "left"]])
    /\ UNCHANGED <<key, live, ledger, applied>>

-----------------------------------------------------------------------------
User ==
    \/ \E s \in Slots, v \in Vaults : connect(s, v)
    \/ \E s \in Slots :
         disconnect(s) \/ submitSigned(s) \/ refreshLiveProof(s)
    \/ submitKeyless \/ Reload \/ Navigate

Forgotten(s) ==
    /\ task[s].here = "gone" /\ task[s].stage \in {"answered", "lost"}
    /\ task' = [task EXCEPT ![s] = Idle]
    /\ UNCHANGED <<page, connects, server>>

Settles(s) ==
    \/ Forgotten(s)
    \/ /\ task[s].here # "gone"
       /\ \/ refresh(s) \/ restore(s) \/ restoreEnds(s)
          \/ connected(s) \/ connectFails(s) \/ disconnected(s)
          \/ run(s) \/ runFails(s)

Next ==
    \/ User \/ SessionEnds
    \/ \E s \in Slots : Serve(s) \/ Lost(s) \/ Settles(s)

\* A request is answered or fails, and the handler that awaits it goes on.
Fairness == \A s \in Slots : WF_vars(Serve(s) \/ Lost(s)) /\ WF_vars(Settles(s))

Spec == Init /\ [][Next]_vars /\ Fairness

-----------------------------------------------------------------------------
\* What the server holds of vault a.vault after a, if it held p before.
Follows(p, a) ==
    CASE a.action = "DRAW" -> p.debt + a.amount
      [] a.action = "REPAY" -> 0
      [] a.action = "UNLOCK" -> p.debt

\* Whatever answers arrive late or in another order, whatever session, key and
\* position end up on screen together, and however often a button is pressed:
\* the server applies a transition only to the vault the user saw, at the debt
\* and the nonce the user saw, and the debt becomes what follows from it, "Repay
\* All" repaying all (page.tsx:443-498, action-auth.ts:54-87,
\* unlock/route.ts:107).
AppliedAsShown ==
    [][\A a \in applied' \ applied : \E s \in Slots :
          LET saw == task[s].saw IN
          /\ task[s].kind = "run" /\ task[s].of = "action"
          /\ task[s].message = [key |-> a.id, vault |-> a.vault,
                 action |-> a.action, amount |-> a.amount, nonce |-> a.nonce]
          /\ saw.vault = a.vault
          /\ saw.nonce = ledger[a.vault].nonce /\ saw.debt = ledger[a.vault].debt
          /\ ledger'[a.vault].debt = Follows(saw, a)
      ]_vars

\* The buttons always come back: whatever a request ends with, the page is not
\* busy for ever (page.tsx:287-290).
ButtonsComeBack == busy ~> ~busy

\* "Drop the stale handle ... instead of clicking a dead button"
\* (page.tsx:208-214): the key of the page is the key of the session shown.
KeyFitsSession == session # None => key = session

\* "Request failed closed; no state transition applied" (page.tsx:285).
FailedClosedIsTrue ==
    [][\A s \in Slots : runFails(s) /\ task[s].of = "action" /\ task[s].here # "gone" =>
          \A a \in applied : [key |-> a.id, vault |-> a.vault,
              action |-> a.action, amount |-> a.amount, nonce |-> a.nonce]
                # task[s].message]_vars
=============================================================================
