--------------------------- MODULE VaultPageProofs ---------------------------
(***************************************************************************)
(* What VaultPage keeps for any number of vaults, requests, sessions and   *)
(* bounds: the types, and that the server applies what the user saw.       *)
(***************************************************************************)
EXTENDS VaultPage, TLAPS

Sessions == 1..MaxConnects
Ids == Sessions \cup {None}
Shown == [vault : Vaults \cup {None}, debt : Nat, nonce : Nat, exited : BOOLEAN]
Statuses == {0, 200, 401, 403}
Answers == [status : Statuses, position : Shown]
Actions == {"DRAW", "REPAY", "UNLOCK"}
Messages == [key : Ids, vault : Vaults \cup {None}, action : Actions \cup {"none"},
             amount : Nat, nonce : Nat]

\* A connect is for a session of its own; an action is signed, and one that
\* is read is for a session.
Fits(t) ==
    /\ t.kind = "connect" => t.id \in Sessions
    /\ t.kind = "run" /\ t.of = "action" => t.message.action \in Actions
    /\ t.stage = "read" =>
         t.kind = "run" /\ t.of = "action" /\ t.id \in Sessions

Forms ==
    [kind : {"none", "restore", "receipts", "refresh", "connect", "disconnect", "run"},
     of : {"none", "restore", "refresh", "connect", "disconnect", "proof",
           "action"},
     id : Ids, here : {"here", "left", "gone"},
     stage : {"none", "sent", "read", "answered", "lost"},
     answer : Answers, message : Messages, saw : Shown]
Tasks == {t \in Forms : Fits(t)}

Screen ==
    /\ session \in Ids /\ position \in Shown
    /\ busy \in BOOLEAN /\ connecting \in BOOLEAN
Handles == stored \in Ids /\ key \in Ids
Server ==
    /\ vaultOf \in [Sessions -> Vaults] /\ live \subseteq Sessions
    /\ ledger \in [Vaults -> Shown]

\* The inductive invariant: the types of the page, of what is under way and of
\* the server.
PageInv ==
    /\ Screen /\ Handles /\ Server
    /\ task \in [Slots -> Tasks]
    /\ connects \in Sessions

-----------------------------------------------------------------------------
(* The requests that are made, and what becomes of them.                   *)

LEMMA NowhereType == Nowhere \in Shown
  BY DEF Nowhere, Shown

LEMMA BlankTypes ==
    /\ \A status \in Statuses : Says(status) \in Answers
    /\ \A p \in Shown : Shows(p) \in Answers
    /\ Blank \in Answers
    /\ Unsigned \in Messages
  BY NowhereType
     DEF Says, Shows, Blank, Answers, Statuses, Unsigned, Messages, Ids

LEMMA SentType ==
    ASSUME NEW kind \in {"restore", "receipts", "refresh", "connect", "disconnect",
                         "run"},
           NEW of \in {"none", "restore", "refresh", "connect", "disconnect", "proof"},
           NEW id \in Ids, kind = "connect" => id \in Sessions
    PROVE  Sent(kind, of, id) \in Tasks
  <1>1. Sent(kind, of, id) \in Forms
    BY BlankTypes, NowhereType DEF Sent, Forms
  <1> QED BY <1>1 DEF Tasks, Fits, Sent

LEMMA IdleType == Idle \in Tasks
  <1>1. /\ Idle = [kind |-> "none", of |-> "none", id |-> None, here |-> "here",
                   stage |-> "none", answer |-> Blank, message |-> Unsigned,
                   saw |-> Nowhere]
    BY DEF Idle, Sent
  <1>2. None \in Ids
    BY DEF Ids
  <1>3. Idle \in Forms
    BY <1>1, <1>2, BlankTypes, NowhereType DEF Forms
  <1> QED BY <1>1, <1>3 DEF Tasks, Fits

\* A task that waits for something else, with an answer, or on another page.
LEMMA MovedType ==
    ASSUME NEW t \in Tasks, NEW stage \in {"sent", "answered", "lost"},
           NEW here \in {"here", "left", "gone"}, NEW answer \in Answers
    PROVE  /\ [t EXCEPT !.stage = stage, !.answer = answer] \in Tasks
           /\ [t EXCEPT !.here = here] \in Tasks
  <1>1. t \in Forms /\ Fits(t)
    BY DEF Tasks
  <1>2. /\ [t EXCEPT !.stage = stage, !.answer = answer] \in Forms
        /\ Fits([t EXCEPT !.stage = stage, !.answer = answer])
    BY <1>1 DEF Forms, Fits
  <1>3. [t EXCEPT !.here = here] \in Forms /\ Fits([t EXCEPT !.here = here])
    BY <1>1 DEF Forms, Fits
  <1> QED BY <1>2, <1>3 DEF Tasks

LEMMA RefreshOfType ==
    ASSUME NEW s \in Slots, task \in [Slots -> Tasks], NEW id \in Ids,
           NEW of \in {"restore", "connect", "proof"}
    PROVE  refreshOf(s, of, id) \in Tasks
  <1>1. task[s].here \in {"here", "left", "gone"}
    BY DEF Tasks, Forms
  <1>2. Sent("refresh", of, id) \in Tasks
    BY SentType
  <1>3. [Sent("refresh", of, id) EXCEPT !.here = task[s].here] \in Tasks
    <2> DEFINE t == Sent("refresh", of, id)
    <2>1. t \in Tasks
      BY <1>2
    <2> HIDE DEF t
    <2>2. [t EXCEPT !.here = task[s].here] \in Tasks
      BY <1>1, <2>1, MovedType, BlankTypes
    <2> QED BY <2>2 DEF t
  <1> QED BY <1>3, IdleType DEF refreshOf

\* One slot changes, the rest does not.
LEMMA SlotKeeps ==
    ASSUME PageInv, NEW s \in Slots, NEW t \in Tasks,
           task' = [task EXCEPT ![s] = t], UNCHANGED <<connects, server>>,
           Screen', Handles'
    PROVE  PageInv'
  BY DEF PageInv, Server, server

LEMMA AnsweredKeeps ==
    ASSUME PageInv, NEW s \in Slots, NEW answer \in Answers,
           Answered(s, answer), UNCHANGED <<page, connects>>, Server'
    PROVE  PageInv'
  <1>1. task' = [task EXCEPT ![s] = [task[s] EXCEPT !.stage = "answered",
                                                    !.answer = answer]]
    BY DEF Answered, PageInv
  <1>2. task[s] \in Tasks
    BY DEF PageInv
  <1>3. [task[s] EXCEPT !.stage = "answered", !.answer = answer] \in Tasks
    BY <1>2, MovedType
  <1>4. task' \in [Slots -> Tasks]
    BY <1>1, <1>3 DEF PageInv
  <1> QED BY <1>4 DEF PageInv, page, screen, Screen, Handles

-----------------------------------------------------------------------------
(* The server.                                                             *)

LEMMA ServeReads ==
    ASSUME PageInv, NEW s \in Slots, ServePosition(s) \/ ServeOther(s)
    PROVE  PageInv'
  <1>1. task[s].id \in live => ledger[vaultOf[task[s].id]] \in Shown
    BY DEF PageInv, Server
  <1>2. Server'
    BY DEF ServePosition, ServeOther, server, PageInv, Server
  <1>3. PICK answer \in Answers : Answered(s, answer)
    BY <1>1, BlankTypes DEF ServePosition, ServeOther, Statuses
  <1>4. UNCHANGED <<page, connects>>
    BY DEF ServePosition, ServeOther
  <1> QED BY <1>2, <1>3, <1>4, AnsweredKeeps

LEMMA ServeSessions ==
    ASSUME PageInv, NEW s \in Slots, ServeConnect(s) \/ ServeDisconnect(s)
    PROVE  PageInv'
  <1>1. CASE ServeDisconnect(s)
    BY <1>1, AnsweredKeeps, BlankTypes DEF ServeDisconnect, PageInv, Server, Statuses
  <1>2. CASE ServeConnect(s)
    <2>1. task[s].id \in Sessions
      BY <1>2 DEF ServeConnect, PageInv, Tasks, Fits
    <2>2. Shows(ledger[vaultOf[task[s].id]]) \in Answers
      BY <2>1, BlankTypes DEF PageInv, Server
    <2>3. Server'
      BY <1>2, <2>1 DEF ServeConnect, PageInv, Server
    <2> QED BY <1>2, <2>2, <2>3, AnsweredKeeps, BlankTypes DEF ServeConnect, Statuses
  <1> QED BY <1>1, <1>2

LEMMA AuthenticateKeeps ==
    ASSUME PageInv, NEW s \in Slots, authenticateAction(s)
    PROVE  PageInv'
  <1> DEFINE id == task[s].id  v == vaultOf[id]
  <1>1. UNCHANGED <<page, connects, server>>
    BY DEF authenticateAction
  <1>2. Server'
    BY <1>1 DEF server, PageInv, Server
  <1>3. CASE Answered(s, Says(401)) \/ Answered(s, Says(403))
    BY <1>1, <1>2, <1>3, AnsweredKeeps, BlankTypes DEF Statuses
  <1>4. CASE /\ id \in live
             /\ task' = [task EXCEPT ![s].stage = "read",
                                     ![s].answer = Shows(ledger[v])]
    <2> DEFINE t == [task[s] EXCEPT !.stage = "read", !.answer = Shows(ledger[v])]
    <2>1. id \in Sessions /\ Shows(ledger[v]) \in Answers
      BY <1>4, BlankTypes DEF PageInv, Server
    <2>2. /\ task[s] \in Forms /\ Fits(task[s])
          /\ task[s].kind = "run" /\ task[s].of = "action"
      BY DEF PageInv, Tasks, authenticateAction
    <2>3. t \in Forms
      BY <2>1, <2>2 DEF Forms
    <2>4. t.kind = task[s].kind /\ t.of = task[s].of /\ t.id = id
          /\ t.message = task[s].message
      BY <2>2 DEF Forms
    <2>5. Fits(t)
      BY <2>1, <2>2, <2>4 DEF Fits
    <2>6. t \in Tasks
      BY <2>3, <2>5 DEF Tasks
    <2>7. task' = [task EXCEPT ![s] = t]
      BY <1>4 DEF PageInv
    <2> HIDE DEF t
    <2> QED BY <1>1, <2>6, <2>7, SlotKeeps DEF page, screen, PageInv, Screen, Handles
  <1> QED BY <1>3, <1>4 DEF authenticateAction

\* What a decision leaves is a position.
LEMMA AfterType ==
    ASSUME NEW p \in Shown, NEW before \in Shown, NEW m \in Messages,
           m.action \in Actions
    PROVE  After(p, before, m) \in Shown /\ AfterDenied(p, m) \in Shown
  <1>1. /\ p.debt \in Nat /\ p.nonce \in Nat /\ p.exited \in BOOLEAN
        /\ p.nonce + 1 \in Nat /\ m.amount \in Nat /\ p.debt + m.amount \in Nat
    BY DEF Shown, Messages
  <1>2. ASSUME NEW q \in Shown, NEW debt \in Nat, NEW nonce \in Nat,
               NEW exited \in BOOLEAN
        PROVE  /\ [q EXCEPT !.debt = debt, !.nonce = nonce, !.exited = exited] \in Shown
               /\ [q EXCEPT !.exited = exited, !.nonce = nonce] \in Shown
               /\ [q EXCEPT !.exited = exited] \in Shown
    BY DEF Shown
  <1>3. AfterDenied(p, m) \in Shown
    <2>1. [p EXCEPT !.exited = FALSE] \in Shown
      BY <1>1, <1>2
    <2> QED BY <2>1 DEF AfterDenied
  <1>4. CASE m.action = "DRAW"
    <2>1. After(p, before, m) =
            [p EXCEPT !.debt = p.debt + m.amount, !.nonce = p.nonce + 1,
                      !.exited = FALSE]
      BY <1>4 DEF After
    <2>2. [p EXCEPT !.debt = p.debt + m.amount, !.nonce = p.nonce + 1,
                    !.exited = FALSE] \in Shown
      BY <1>1, <1>2
    <2> QED BY <1>3, <2>1, <2>2
  <1>5. CASE m.action = "REPAY"
    <2> DEFINE owed == IF m.amount < p.debt THEN p.debt - m.amount ELSE 0
    <2>1. owed \in Nat
      BY <1>1
    <2>2. After(p, before, m) =
            [p EXCEPT !.debt = owed, !.nonce = p.nonce + 1,
                      !.exited = (p.exited /\ owed # 0)]
      BY <1>5 DEF After
    <2> HIDE DEF owed
    <2>3. (p.exited /\ owed # 0) \in BOOLEAN
      OBVIOUS
    <2>4. [p EXCEPT !.debt = owed, !.nonce = p.nonce + 1,
                    !.exited = (p.exited /\ owed # 0)] \in Shown
      BY <1>1, <1>2, <2>1, <2>3
    <2> QED BY <1>3, <2>2, <2>4
  <1>6. CASE m.action = "UNLOCK"
    <2>1. After(p, before, m) = [before EXCEPT !.exited = TRUE, !.nonce = p.nonce + 1]
      BY <1>6 DEF After
    <2>2. [before EXCEPT !.exited = TRUE, !.nonce = p.nonce + 1] \in Shown
      BY <1>1, <1>2
    <2> QED BY <1>3, <2>1, <2>2
  <1> QED BY <1>4, <1>5, <1>6 DEF Actions

LEMMA DecideKeeps ==
    ASSUME PageInv, NEW s \in Slots, decide(s)
    PROVE  PageInv'
  <1> DEFINE m == task[s].message  v == vaultOf[task[s].id]  p == ledger[v]
             before == task[s].answer.position
  <1>1. /\ m \in Messages /\ m.action \in Actions /\ v \in Vaults
        /\ p \in Shown /\ before \in Shown
    BY DEF decide, Waits, PageInv, Server, Tasks, Forms, Fits, Answers
  <1>2. UNCHANGED <<page, connects, vaultOf, live>>
    BY DEF decide
  <1>3. After(p, before, m) \in Shown /\ AfterDenied(p, m) \in Shown
    BY <1>1, AfterType
  <1>4. \/ ledger' = ledger
        \/ ledger' = [ledger EXCEPT ![v] = AfterDenied(p, m)]
        \/ ledger' = [ledger EXCEPT ![v] = After(p, before, m)]
    BY DEF decide
  <1>5. Server'
    BY <1>1, <1>2, <1>3, <1>4 DEF PageInv, Server
  <1>6. PICK answer \in Answers : Answered(s, answer)
    <2>1. \/ \E q \in {p, before, AfterDenied(p, m), After(p, before, m)} :
               Answered(s, Shows(q))
          \/ Answered(s, Says(403))
      BY DEF decide
    <2> QED BY <1>1, <1>3, <2>1, BlankTypes DEF Statuses
  <1> QED BY <1>2, <1>5, <1>6, AnsweredKeeps

-----------------------------------------------------------------------------
(* The page.                                                               *)

LEMMA LostKeeps ==
    ASSUME PageInv, NEW s \in Slots, Lost(s)
    PROVE  PageInv'
  <1>1. [task[s] EXCEPT !.stage = "lost", !.answer = Blank] \in Tasks
    BY MovedType, BlankTypes DEF PageInv
  <1>2. task' = [task EXCEPT ![s] = [task[s] EXCEPT !.stage = "lost", !.answer = Blank]]
    BY DEF Lost, PageInv
  <1> QED BY <1>1, <1>2, SlotKeeps DEF Lost, page, screen, PageInv, Screen, Handles

LEMMA RefreshKeeps ==
    ASSUME PageInv, NEW s \in Slots, refresh(s)
    PROVE  PageInv'
  <1>1. task[s].answer.position \in Shown
    BY DEF PageInv, Tasks, Forms, Answers
  <1>2. Screen' /\ Handles'
    BY <1>1 DEF refresh, OnScreen, screen, PageInv, Screen, Handles
  <1> QED BY <1>2, IdleType, SlotKeeps DEF refresh

LEMMA RestoreKeeps ==
    ASSUME PageInv, NEW s \in Slots, restore(s) \/ restoreEnds(s)
    PROVE  PageInv'
  <1>1. /\ task[s].answer.position \in Shown /\ task[s].id \in Ids
        /\ None \in Ids
    BY DEF PageInv, Tasks, Forms, Answers, Ids
  <1>2. Screen' /\ Handles'
    BY <1>1, NowhereType
       DEF restore, restoreEnds, page, screen, PageInv, Screen, Handles
  <1>3. refreshOf(s, "restore", stored) \in Tasks
    BY RefreshOfType DEF PageInv, Handles
  <1>4. Sent("receipts", "restore", task[s].id) \in Tasks
    BY <1>1, SentType
  <1> QED BY <1>2, <1>3, <1>4, IdleType, SlotKeeps DEF restore, restoreEnds

LEMMA ConnectKeeps ==
    ASSUME PageInv, NEW s \in Slots, NEW v \in Vaults, connect(s, v)
    PROVE  PageInv'
  <1>1. connects' \in Sessions
    BY PageAssumption DEF connect, PageInv, Sessions
  <1>2. Sent("connect", "connect", connects') \in Tasks
    BY <1>1, SentType DEF Ids
  <1>3. Server'
    BY <1>1 DEF connect, PageInv, Server
  <1> QED BY <1>1, <1>2, <1>3 DEF connect, PageInv, Screen, Handles

LEMMA ConnectedKeeps ==
    ASSUME PageInv, NEW s \in Slots, connected(s) \/ connectFails(s)
    PROVE  PageInv'
  <1>1. task[s].id \in Ids
    BY DEF PageInv, Tasks, Forms
  <1>2. Screen' /\ Handles'
    <2>1. CASE connected(s)
      BY <1>1, <2>1 DEF connected, OnScreen, screen, PageInv, Screen, Handles
    <2>2. CASE connectFails(s)
      BY <2>2 DEF connectFails, OnScreen, screen, PageInv, Screen, Handles
    <2> QED BY <2>1, <2>2
  <1>3. refreshOf(s, "connect", task[s].id) \in Tasks
    BY <1>1, RefreshOfType DEF PageInv
  <1> QED BY <1>2, <1>3, IdleType, SlotKeeps DEF connected, connectFails

LEMMA DisconnectKeeps ==
    ASSUME PageInv, NEW s \in Slots, disconnect(s) \/ disconnected(s)
    PROVE  PageInv'
  <1>1. None \in Ids
    BY DEF Ids
  <1>2. Screen' /\ Handles'
    BY <1>1, NowhereType
       DEF disconnect, disconnected, OnScreen, page, screen, PageInv, Screen, Handles
  <1>3. Sent("disconnect", "disconnect", session) \in Tasks
    BY SentType DEF PageInv, Screen
  <1> QED BY <1>2, <1>3, IdleType, SlotKeeps DEF disconnect, disconnected

LEMMA SubmitKeeps ==
    ASSUME PageInv, NEW s \in Slots, submitSigned(s)
    PROVE  PageInv'
  <1> DEFINE m(b) == [key |-> key, vault |-> position.vault, action |-> b.action,
                      amount |-> b.amount, nonce |-> position.nonce]
             sent == Sent("run", "action", session)
             signed(b) == [sent EXCEPT !.message = m(b)]
             t(b) == [signed(b) EXCEPT !.saw = position]
  <1>1. PICK b \in Buttons : task' = [task EXCEPT ![s] = t(b)]
    BY DEF submitSigned
  <1>2. b.action \in Actions /\ b.amount \in Nat
    BY DEF Buttons, Actions, PageInv, Screen, Shown
  <1>3. m(b) \in Messages /\ m(b).action \in Actions /\ position \in Shown
    BY <1>2 DEF Messages, PageInv, Screen, Handles, Shown
  <1>4. /\ sent \in Forms /\ sent.kind = "run" /\ sent.of = "action"
        /\ sent.stage = "sent"
    BY BlankTypes, NowhereType DEF Sent, Forms, PageInv, Screen
  <1> HIDE DEF m, sent
  <1>5. /\ signed(b) \in Forms /\ signed(b).kind = "run"
        /\ signed(b).stage = "sent" /\ signed(b).message = m(b)
    BY <1>3, <1>4 DEF Forms
  <1> HIDE DEF signed
  <1>6. /\ t(b) \in Forms /\ t(b).kind = "run"
        /\ t(b).stage = "sent" /\ t(b).message = m(b)
    BY <1>3, <1>5 DEF Forms
  <1>7. t(b) \in Tasks
    BY <1>3, <1>6 DEF Tasks, Fits
  <1>8. Screen' /\ Handles'
    BY DEF submitSigned, PageInv, Screen, Handles
  <1> HIDE DEF t
  <1> QED BY <1>1, <1>7, <1>8, SlotKeeps DEF submitSigned

LEMMA OracleKeeps ==
    ASSUME PageInv, NEW s \in Slots, refreshLiveProof(s)
    PROVE  PageInv'
  <1>1. Sent("run", "proof", session) \in Tasks
    BY SentType DEF PageInv, Screen
  <1>2. Screen' /\ Handles'
    BY DEF refreshLiveProof, PageInv, Screen, Handles
  <1> QED BY <1>1, <1>2, SlotKeeps DEF refreshLiveProof

LEMMA KeylessKeeps ==
    ASSUME PageInv, submitKeyless
    PROVE  PageInv'
  BY DEF submitKeyless, PageInv, Screen, Handles, Server, server, Ids

LEMMA RunKeeps ==
    ASSUME PageInv, NEW s \in Slots, run(s) \/ runFails(s)
    PROVE  PageInv'
  <1>1. task[s].answer.position \in Shown /\ None \in Ids
    BY DEF PageInv, Tasks, Forms, Answers, Ids
  <1>2. Screen' /\ Handles'
    <2>1. CASE runFails(s)
      BY <1>1, <2>1 DEF runFails, OnScreen, screen, PageInv, Screen, Handles
    <2>2. CASE run(s) /\ task[s].answer.status = 401
      BY <1>1, <2>2 DEF run, OnScreen, screen, PageInv, Screen, Handles
    <2>3. CASE run(s) /\ task[s].answer.status # 401
      BY <1>1, <2>3 DEF run, OnScreen, screen, PageInv, Screen, Handles
    <2> QED BY <2>1, <2>2, <2>3
  <1>3. refreshOf(s, "proof", stored') \in Tasks
    BY <1>2, RefreshOfType DEF PageInv, Handles
  <1>4. Continues(s) \in Tasks
    BY <1>3, IdleType DEF Continues
  <1> QED BY <1>2, <1>4, SlotKeeps DEF run, runFails

LEMMA MountKeeps ==
    ASSUME PageInv, NEW rest \in [Slots -> Tasks], Mounts(rest), key' \in Ids,
           UNCHANGED <<live, ledger>>
    PROVE  PageInv'
  <1>1. stored \in Ids /\ None \in Ids
    BY DEF PageInv, Handles, Ids
  <1>2. Screen' /\ Handles' /\ Server'
    BY <1>1, NowhereType DEF Mounts, PageInv, Screen, Handles, Server
  <1>3. Sent("restore", "restore", stored) \in Tasks
    BY <1>1, SentType
  <1>4. task' \in [Slots -> Tasks]
    BY <1>3 DEF Mounts
  <1> QED BY <1>2, <1>4 DEF Mounts, PageInv

LEMMA LeaveKeeps ==
    ASSUME PageInv, Reload \/ Navigate
    PROVE  PageInv'
  <1>1. \A s \in Slots : task[s] \in Tasks
    BY DEF PageInv
  <1>2. \A s \in Slots : /\ [task[s] EXCEPT !.here = "gone"] \in Tasks
                         /\ [task[s] EXCEPT !.here = "left"] \in Tasks
    BY <1>1, MovedType, BlankTypes
  <1>3. CASE Reload
    <2> DEFINE rest == [s \in Slots |->
           IF /\ task[s].stage \in {"sent", "read"}
              /\ task[s].of \in {"connect", "disconnect", "action"}
           THEN [task[s] EXCEPT !.here = "gone"] ELSE Idle]
    <2>1. rest \in [Slots -> Tasks]
      BY <1>2, IdleType
    <2>2. Mounts(rest) /\ key' \in Ids /\ UNCHANGED <<live, ledger>>
      BY <1>3 DEF Reload, Ids
    <2> HIDE DEF rest
    <2> QED BY <2>1, <2>2, MountKeeps
  <1>4. CASE Navigate
    <2> DEFINE rest == [s \in Slots |-> IF task[s] = Idle \/ task[s].here = "gone"
                                 THEN task[s]
                                 ELSE [task[s] EXCEPT !.here = "left"]]
    <2>1. rest \in [Slots -> Tasks]
      BY <1>1, <1>2
    <2>2. Mounts(rest) /\ key' \in Ids /\ UNCHANGED <<live, ledger>>
      BY <1>4 DEF Navigate, PageInv, Handles
    <2> HIDE DEF rest
    <2> QED BY <2>1, <2>2, MountKeeps
  <1> QED BY <1>3, <1>4

-----------------------------------------------------------------------------
LEMMA PageStep ==
    ASSUME PageInv, [Next]_vars
    PROVE  PageInv'
  <1>1. CASE User
    BY <1>1, ConnectKeeps, DisconnectKeeps, SubmitKeeps, OracleKeeps,
       KeylessKeeps, LeaveKeeps DEF User
  <1>2. CASE SessionEnds
    BY <1>2 DEF SessionEnds, page, screen, PageInv, Screen, Handles, Server
  <1>3. ASSUME NEW s \in Slots, Serve(s) PROVE PageInv'
    BY <1>3, ServeReads, ServeSessions, AuthenticateKeeps, DecideKeeps DEF Serve
  <1>4. ASSUME NEW s \in Slots, Settles(s) PROVE PageInv'
    <2>1. CASE Forgotten(s)
      BY <2>1, IdleType, SlotKeeps
         DEF Forgotten, page, screen, PageInv, Screen, Handles
    <2> QED BY <1>4, <2>1, RefreshKeeps, RestoreKeeps, ConnectedKeeps,
               DisconnectKeeps, RunKeeps DEF Settles
  <1>5. CASE UNCHANGED vars
    BY <1>5 DEF vars, page, screen, server, PageInv, Screen, Handles, Server
  <1> QED BY <1>1, <1>2, <1>3, <1>4, <1>5, LostKeeps DEF Next

LEMMA PageInit == Init => PageInv
  <1> SUFFICES ASSUME Init PROVE PageInv
    OBVIOUS
  <1>1. None \in Ids /\ 1 \in Sessions /\ 1 \in Ids
    BY PageAssumption DEF Ids, Sessions
  <1>2. (CHOOSE v \in Vaults : TRUE) \in Vaults
    BY PageAssumption
  <1>3. \A v \in Vaults : [Nowhere EXCEPT !.vault = v] \in Shown
    BY DEF Nowhere, Shown
  <1>4. Server
    BY <1>1, <1>2, <1>3 DEF Init, Server, Sessions
  <1>5. Screen /\ Handles
    BY <1>1, NowhereType DEF Init, Screen, Handles
  <1>6. Sent("restore", "restore", 1) \in Tasks
    BY <1>1, SentType
  <1>7. task \in [Slots -> Tasks]
    BY <1>6, IdleType DEF Init
  <1> QED BY <1>1, <1>4, <1>5, <1>7 DEF Init, PageInv

\* The types of the page, of what is under way and of the server.
THEOREM PageInvariant == Spec => []PageInv
  <1>1. PageInv /\ [Next]_vars => PageInv'
    BY PageStep
  <1> QED BY <1>1, PageInit, PTL DEF Spec

-----------------------------------------------------------------------------
(* What the user sees, has seen, and signed.                               *)

\* A position that was read is the server's or an older one, and at one nonce
\* there is one debt.
Known(p, held) ==
    p.vault \in Vaults =>
      /\ p.nonce <= held[p.vault].nonce
      /\ p.nonce = held[p.vault].nonce => p.debt = held[p.vault].debt

\* Of a request: what it saw and shows is known, an action signs what was on
\* screen, and one that is read was verified and read a position no older.
TaskKnown(t, held, of, n) ==
    /\ Known(t.saw, held) /\ Known(t.answer.position, held)
    /\ t.kind = "connect" => t.id \in 1..n
    /\ t.kind = "run" /\ t.of = "action" /\ t.stage \in {"sent", "read"} =>
         /\ t.message.vault = t.saw.vault /\ t.message.nonce = t.saw.nonce
         /\ t.message.action = "REPAY" => t.message.amount = t.saw.debt
    /\ t.stage = "read" =>
         /\ t.id \in 1..n
         /\ verifyCanonical(t.message, of[t.id], t.id)
         /\ t.answer.position.vault = of[t.id]
         /\ t.saw.nonce <= t.answer.position.nonce

ShownInv ==
    /\ Known(position, ledger)
    /\ \A s \in Slots : TaskKnown(task[s], ledger, vaultOf, connects)
    /\ live \subseteq 1..connects
    /\ \A v \in Vaults : ledger[v].vault = v

\* A position moves on to a later nonce, or keeps nonce and debt.
Rises(held, next) ==
    \A v \in Vaults :
      /\ next[v].vault = v
      /\ \/ next[v].nonce > held[v].nonce
         \/ next[v].nonce = held[v].nonce /\ next[v].debt = held[v].debt

LEMMA NowhereKnown == \A held : Known(Nowhere, held) /\ Known(Blank.position, held)
  BY PageAssumption DEF Known, Nowhere, Blank, Says

LEMMA KnownRises ==
    ASSUME NEW held \in [Vaults -> Shown], NEW next \in [Vaults -> Shown],
           Rises(held, next), NEW p \in Shown, Known(p, held)
    PROVE  Known(p, next)
  <1> SUFFICES ASSUME p.vault \in Vaults
               PROVE  /\ p.nonce <= next[p.vault].nonce
                      /\ p.nonce = next[p.vault].nonce => p.debt = next[p.vault].debt
    BY DEF Known
  <1> DEFINE v == p.vault
  <1>1. /\ p.nonce \in Nat /\ held[v].nonce \in Nat /\ next[v].nonce \in Nat
    BY DEF Shown
  <1>2. /\ p.nonce <= held[v].nonce
        /\ p.nonce = held[v].nonce => p.debt = held[v].debt
    BY DEF Known
  <1>3. \/ next[v].nonce > held[v].nonce
        \/ next[v].nonce = held[v].nonce /\ next[v].debt = held[v].debt
    BY DEF Rises
  <1> QED BY <1>1, <1>2, <1>3

LEMMA TaskRises ==
    ASSUME NEW held \in [Vaults -> Shown], NEW next \in [Vaults -> Shown],
           Rises(held, next), NEW t \in Tasks, NEW of, NEW after,
           NEW n \in Nat, NEW k \in Nat, n <= k, \A i \in 1..n : after[i] = of[i],
           TaskKnown(t, held, of, n)
    PROVE  TaskKnown(t, next, after, k)
  <1>1. t.saw \in Shown /\ t.answer.position \in Shown
    BY DEF Tasks, Forms, Answers
  <1>2. Known(t.saw, next) /\ Known(t.answer.position, next)
    BY <1>1, KnownRises DEF TaskKnown
  <1>3. t.id \in 1..n => t.id \in 1..k
    OBVIOUS
  <1> QED BY <1>2, <1>3 DEF TaskKnown

\* A request that was just made, of any kind but a connect or an action.
LEMMA PlainKnown ==
    ASSUME NEW held, NEW of, NEW n, NEW id, NEW whom,
           NEW kind \in {"restore", "receipts", "refresh", "disconnect", "run"},
           kind = "run" => whom = "proof"
    PROVE  /\ TaskKnown(Sent(kind, whom, id), held, of, n)
           /\ \A here : TaskKnown([Sent(kind, whom, id) EXCEPT !.here = here],
                                  held, of, n)
           /\ TaskKnown(Idle, held, of, n)
  <1>1. ASSUME NEW here, NEW stage \in {"none", "sent"}, NEW any, NEW by,
               any = "run" => by = "proof", any # "connect"
        PROVE  TaskKnown([kind |-> any, of |-> by, id |-> id, here |-> here,
                          stage |-> stage, answer |-> Blank, message |-> Unsigned,
                          saw |-> Nowhere], held, of, n)
    BY <1>1, NowhereKnown DEF TaskKnown
  <1>2. /\ Sent(kind, whom, id) =
             [kind |-> kind, of |-> whom, id |-> id, here |-> "here",
              stage |-> "sent", answer |-> Blank, message |-> Unsigned,
              saw |-> Nowhere]
        /\ Idle =
             [kind |-> "none", of |-> "none", id |-> None, here |-> "here",
              stage |-> "none", answer |-> Blank, message |-> Unsigned,
              saw |-> Nowhere]
        /\ \A here : [Sent(kind, whom, id) EXCEPT !.here = here] =
             [kind |-> kind, of |-> whom, id |-> id, here |-> here,
              stage |-> "sent", answer |-> Blank, message |-> Unsigned,
              saw |-> Nowhere]
    BY DEF Sent, Idle
  <1>3. TaskKnown(Idle, held, of, n)
    <2>1. TaskKnown([kind |-> "none", of |-> "none", id |-> None, here |-> "here",
                     stage |-> "none", answer |-> Blank, message |-> Unsigned,
                     saw |-> Nowhere], held, of, n)
      BY NowhereKnown DEF TaskKnown
    <2> QED BY <1>2, <2>1
  <1> QED BY <1>1, <1>2, <1>3

LEMMA RefreshOfKnown ==
    ASSUME NEW s, NEW whom, NEW id, NEW held, NEW of, NEW n
    PROVE  TaskKnown(refreshOf(s, whom, id), held, of, n)
  BY PlainKnown DEF refreshOf

\* A request that goes on, keeping what it signed and saw, with a known answer;
\* or is left behind by its page.
LEMMA MovedKnown ==
    ASSUME NEW t \in Tasks, NEW held, NEW of, NEW n, TaskKnown(t, held, of, n),
           NEW answer \in Answers, Known(answer.position, held),
           NEW stage \in {"answered", "lost"}, NEW here
    PROVE  /\ TaskKnown([t EXCEPT !.stage = stage, !.answer = answer], held, of, n)
           /\ TaskKnown([t EXCEPT !.here = here], held, of, n)
  BY DEF TaskKnown, Tasks, Forms

-----------------------------------------------------------------------------
(* Every step keeps it.                                                    *)

\* A step that changes the request of one slot.
LEMMA SlotKnown ==
    ASSUME PageInv, PageInv', ShownInv, NEW s \in Slots,
           \A q \in Slots \ {s} : task'[q] = task[q],
           TaskKnown(task[s], ledger, vaultOf, connects)',
           Rises(ledger, ledger'), Known(position, ledger)',
           connects <= connects', \A i \in 1..connects : vaultOf'[i] = vaultOf[i],
           live' \subseteq 1..connects'
    PROVE  ShownInv'
  <1>1. /\ ledger \in [Vaults -> Shown] /\ ledger' \in [Vaults -> Shown]
        /\ connects \in Nat /\ connects' \in Nat
        /\ \A q \in Slots : task[q] \in Tasks
    BY PageAssumption DEF PageInv, Server, Sessions
  <1>2. ASSUME NEW q \in Slots \ {s}
        PROVE  TaskKnown(task'[q], ledger', vaultOf', connects')
    <2>1. TaskKnown(task[q], ledger, vaultOf, connects)
      BY DEF ShownInv
    <2>2. TaskKnown(task[q], ledger', vaultOf', connects')
      BY <1>1, <2>1, TaskRises
    <2> QED BY <2>2
  <1>3. \A q \in Slots : TaskKnown(task'[q], ledger', vaultOf', connects')
    BY <1>2
  <1> QED BY <1>3 DEF ShownInv, Rises

\* The same, with the server and the number of connects as they were.
LEMMA PageKnown ==
    ASSUME PageInv, PageInv', ShownInv, NEW s \in Slots, NEW t,
           task' = [task EXCEPT ![s] = t], TaskKnown(t, ledger, vaultOf, connects),
           UNCHANGED <<connects, server>>, Known(position', ledger)
    PROVE  ShownInv'
  <1>1. /\ task'[s] = t /\ \A q \in Slots \ {s} : task'[q] = task[q]
    BY DEF PageInv
  <1>2. UNCHANGED <<vaultOf, live, ledger, connects>>
    BY DEF server
  <1>3. Rises(ledger, ledger')
    BY <1>2 DEF Rises, ShownInv
  <1>4. TaskKnown(task[s], ledger, vaultOf, connects)' /\ Known(position, ledger)'
    BY <1>1, <1>2
  <1>5. connects \in Nat
    BY PageAssumption DEF PageInv, Sessions
  <1> QED BY <1>1, <1>2, <1>3, <1>4, <1>5, SlotKnown DEF ShownInv

\* An answer that holds a known position.
LEMMA AnswerKnown ==
    ASSUME PageInv, PageInv', ShownInv, NEW s \in Slots, NEW answer \in Answers,
           Answered(s, answer), UNCHANGED <<page, connects, vaultOf, ledger>>,
           Known(answer.position, ledger), live' \subseteq 1..connects
    PROVE  ShownInv'
  <1> DEFINE t == [task[s] EXCEPT !.stage = "answered", !.answer = answer]
  <1>1. task' = [task EXCEPT ![s] = t]
    BY DEF Answered, PageInv
  <1>2. task[s] \in Tasks /\ TaskKnown(task[s], ledger, vaultOf, connects)
    BY DEF PageInv, ShownInv
  <1>3. TaskKnown(t, ledger, vaultOf, connects)
    BY <1>2, MovedKnown
  <1> HIDE DEF t
  <1>4. /\ task'[s] = t /\ \A q \in Slots \ {s} : task'[q] = task[q]
    BY <1>1 DEF PageInv
  <1>5. Rises(ledger, ledger')
    BY DEF Rises, ShownInv
  <1>6. TaskKnown(task[s], ledger, vaultOf, connects)' /\ Known(position, ledger)'
    BY <1>3, <1>4 DEF page, screen, ShownInv
  <1>7. connects \in Nat
    BY PageAssumption DEF PageInv, Sessions
  <1> QED BY <1>4, <1>5, <1>6, <1>7, SlotKnown

LEMMA HeldKnown ==
    ASSUME PageInv, ShownInv, NEW v \in Vaults
    PROVE  /\ Shows(ledger[v]) \in Answers /\ Known(Shows(ledger[v]).position, ledger)
           /\ \A status \in Statuses :
                Says(status) \in Answers /\ Known(Says(status).position, ledger)
  <1>1. ledger[v] \in Shown /\ ledger[v].nonce \in Nat
    BY DEF PageInv, Server, Shown
  <1>2. Known(ledger[v], ledger)
    BY <1>1 DEF Known, ShownInv
  <1>3. \A status \in Statuses : Says(status).position = Nowhere
    BY DEF Says
  <1> QED BY <1>1, <1>2, <1>3, BlankTypes, NowhereKnown DEF Shows

LEMMA ReadsKnown ==
    ASSUME PageInv, PageInv', ShownInv, NEW s \in Slots,
           ServePosition(s) \/ ServeOther(s)
    PROVE  ShownInv'
  <1>1. task[s].id \in live => vaultOf[task[s].id] \in Vaults
    BY DEF PageInv, Server
  <1>2. PICK answer \in Answers : Answered(s, answer) /\ Known(answer.position, ledger)
    <2>1. \/ \E status \in Statuses : Answered(s, Says(status))
          \/ task[s].id \in live /\ Answered(s, Shows(ledger[vaultOf[task[s].id]]))
      BY DEF ServePosition, ServeOther, Statuses
    <2>2. \A status \in Statuses :
            Says(status) \in Answers /\ Known(Says(status).position, ledger)
      BY HeldKnown, PageAssumption
    <2> QED BY <1>1, <2>1, <2>2, HeldKnown
  <1>3. UNCHANGED <<page, connects, server>>
    BY DEF ServePosition, ServeOther
  <1>4. UNCHANGED <<vaultOf, ledger, live>>
    BY <1>3 DEF server
  <1> QED BY <1>2, <1>3, <1>4, AnswerKnown DEF ShownInv

LEMMA SessionsKnown ==
    ASSUME PageInv, PageInv', ShownInv, NEW s \in Slots,
           ServeConnect(s) \/ ServeDisconnect(s)
    PROVE  ShownInv'
  <1>1. \A status \in Statuses :
          Says(status) \in Answers /\ Known(Says(status).position, ledger)
    BY HeldKnown, PageAssumption
  <1>2. CASE ServeDisconnect(s)
    BY <1>1, <1>2, AnswerKnown DEF ServeDisconnect, Statuses
  <1>3. CASE ServeConnect(s)
    <2>1. task[s].id \in 1..connects /\ task[s].id \in Sessions
      BY <1>3 DEF ServeConnect, ShownInv, TaskKnown, PageInv, Tasks, Fits
    <2>2. vaultOf[task[s].id] \in Vaults
      BY <2>1 DEF PageInv, Server
    <2>3. live' \subseteq 1..connects
      BY <1>3, <2>1 DEF ServeConnect, ShownInv
    <2> QED BY <1>1, <1>3, <2>2, <2>3, HeldKnown, AnswerKnown
            DEF ServeConnect, Statuses
  <1> QED BY <1>2, <1>3

LEMMA AuthenticateKnown ==
    ASSUME PageInv, PageInv', ShownInv, NEW s \in Slots, authenticateAction(s)
    PROVE  ShownInv'
  <1> DEFINE id == task[s].id  v == vaultOf[id]
  <1>1. UNCHANGED <<page, connects, server>> /\ UNCHANGED <<vaultOf, ledger, live, position>>
    BY DEF authenticateAction, server, page, screen
  <1>2. \A status \in Statuses :
          Says(status) \in Answers /\ Known(Says(status).position, ledger)
    BY HeldKnown, PageAssumption
  <1>3. CASE Answered(s, Says(401)) \/ Answered(s, Says(403))
    BY <1>1, <1>2, <1>3, AnswerKnown DEF Statuses, ShownInv
  <1>4. CASE /\ id \in live /\ verifyCanonical(task[s].message, v, id)
             /\ task' = [task EXCEPT ![s].stage = "read",
                                     ![s].answer = Shows(ledger[v])]
    <2> DEFINE t == [task[s] EXCEPT !.stage = "read", !.answer = Shows(ledger[v])]
    <2>1. /\ task[s] \in Tasks /\ TaskKnown(task[s], ledger, vaultOf, connects)
          /\ id \in 1..connects /\ v \in Vaults
      BY <1>4 DEF PageInv, ShownInv, Server
    <2>2. Known(ledger[v], ledger) /\ ledger[v].vault = v /\ Shows(ledger[v]).position = ledger[v]
      BY <2>1, HeldKnown DEF ShownInv, Shows
    <2>3. /\ task[s].message.vault = task[s].saw.vault
          /\ task[s].message.nonce = task[s].saw.nonce
          /\ task[s].message.action = "REPAY" => task[s].message.amount = task[s].saw.debt
      BY <2>1 DEF TaskKnown, authenticateAction, Waits
    <2>4. task[s].saw.nonce <= ledger[v].nonce
      BY <1>4, <2>1, <2>3 DEF verifyCanonical, TaskKnown, Known
    <2>5. /\ t.kind = task[s].kind /\ t.of = task[s].of /\ t.id = id
          /\ t.message = task[s].message /\ t.saw = task[s].saw
          /\ t.answer = Shows(ledger[v]) /\ t.stage = "read"
      BY <2>1 DEF Tasks, Forms
    <2>6. task' = [task EXCEPT ![s] = t]
      BY <1>4 DEF PageInv
    <2> HIDE DEF t
    <2>7. TaskKnown(t, ledger, vaultOf, connects)
      BY <1>4, <2>1, <2>2, <2>3, <2>4, <2>5 DEF TaskKnown
    <2> QED BY <1>1, <2>6, <2>7, PageKnown DEF ShownInv
  <1> QED BY <1>3, <1>4 DEF authenticateAction

\* What a decision makes of a position, seen from the position that was read
\* before the lock.
LEMMA AfterFields ==
    ASSUME NEW p \in Shown, NEW before \in Shown, NEW m \in Messages,
           m.action \in Actions, before.vault = p.vault
    PROVE  /\ AfterDenied(p, m).vault = p.vault
           /\ AfterDenied(p, m).nonce = p.nonce /\ AfterDenied(p, m).debt = p.debt
           /\ After(p, before, m).vault = p.vault
           /\ After(p, before, m).nonce = p.nonce + 1
           /\ m.action = "DRAW" => After(p, before, m).debt = p.debt + m.amount
           /\ m.action = "REPAY" /\ m.amount = p.debt => After(p, before, m).debt = 0
           /\ m.action = "UNLOCK" => After(p, before, m).debt = before.debt
  <1>1. /\ AfterDenied(p, m).vault = p.vault
        /\ AfterDenied(p, m).nonce = p.nonce /\ AfterDenied(p, m).debt = p.debt
    BY DEF AfterDenied, Shown
  <1>2. CASE m.action = "DRAW"
    BY <1>1, <1>2 DEF After, Shown
  <1>3. CASE m.action = "REPAY"
    <2>1. p.debt \in Nat
      BY DEF Shown
    <2>2. m.amount = p.debt => ~(m.amount < p.debt)
      BY <2>1
    <2> QED BY <1>1, <1>3, <2>2 DEF After, Shown
  <1>4. CASE m.action = "UNLOCK"
    BY <1>1, <1>4 DEF After, Shown
  <1> QED BY <1>2, <1>3, <1>4 DEF Actions

\* The action that is decided: verified for its vault, with the position that
\* was read before the lock.
LEMMA Decided ==
    ASSUME PageInv, ShownInv, NEW s \in Slots, decide(s)
    PROVE  LET t == task[s]  v == vaultOf[t.id] IN
           /\ t \in Tasks /\ TaskKnown(t, ledger, vaultOf, connects)
           /\ t.kind = "run" /\ t.of = "action" /\ t.stage = "read"
           /\ v \in Vaults /\ ledger[v] \in Shown /\ ledger[v].vault = v
           /\ t.message \in Messages /\ t.message.action \in Actions
           /\ t.answer.position \in Shown /\ t.answer.position.vault = v
           /\ Known(t.answer.position, ledger)
  <1>1. /\ task[s] \in Tasks /\ task[s].stage = "read"
        /\ TaskKnown(task[s], ledger, vaultOf, connects)
    BY DEF PageInv, ShownInv, decide, Waits
  <1>2. /\ task[s].kind = "run" /\ task[s].of = "action" /\ task[s].id \in Sessions
        /\ task[s].message \in Messages /\ task[s].message.action \in Actions
        /\ task[s].answer.position \in Shown
    BY <1>1 DEF Tasks, Forms, Fits, Answers
  <1> QED BY <1>1, <1>2 DEF PageInv, Server, ShownInv, TaskKnown

LEMMA DecideKnown ==
    ASSUME PageInv, PageInv', ShownInv, NEW s \in Slots, decide(s)
    PROVE  ShownInv'
  <1> DEFINE m == task[s].message  v == vaultOf[task[s].id]  p == ledger[v]
             before == task[s].answer.position
  <1>1. /\ task[s] \in Tasks /\ TaskKnown(task[s], ledger, vaultOf, connects)
        /\ v \in Vaults /\ p \in Shown /\ p.vault = v /\ p.nonce \in Nat
        /\ m \in Messages /\ m.action \in Actions
        /\ before \in Shown /\ before.vault = v /\ Known(before, ledger)
    BY Decided DEF Shown
  <1>2. UNCHANGED <<page, connects, vaultOf, live>> /\ UNCHANGED position
    BY DEF decide, page, screen
  <1>3. /\ AfterDenied(p, m) \in Shown /\ After(p, before, m) \in Shown
        /\ AfterDenied(p, m).vault = v
        /\ AfterDenied(p, m).nonce = p.nonce /\ AfterDenied(p, m).debt = p.debt
        /\ After(p, before, m).vault = v /\ After(p, before, m).nonce = p.nonce + 1
    <2> HIDE DEF m, v, p, before
    <2>1. before.vault = p.vault
      BY <1>1
    <2>2. AfterDenied(p, m) \in Shown /\ After(p, before, m) \in Shown
      BY <1>1, AfterType
    <2>3. /\ AfterDenied(p, m).vault = p.vault
          /\ AfterDenied(p, m).nonce = p.nonce /\ AfterDenied(p, m).debt = p.debt
          /\ After(p, before, m).vault = p.vault
          /\ After(p, before, m).nonce = p.nonce + 1
      BY <1>1, <2>1, AfterFields
    <2> QED BY <1>1, <2>2, <2>3
  <1>4. \E q \in {p, AfterDenied(p, m), After(p, before, m)} :
          /\ ledger' = [ledger EXCEPT ![v] = q]
          /\ \/ Answered(s, Shows(q)) \/ Answered(s, Shows(before))
             \/ Answered(s, Says(403))
    <2>1. ledger = [ledger EXCEPT ![v] = p]
      BY DEF PageInv, Server
    <2>2. CASE UNCHANGED <<ledger, applied>>
               /\ (Answered(s, Shows(IF m.action = "DRAW" THEN before ELSE p))
                   \/ Answered(s, Says(403)))
      BY <2>1, <2>2
    <2>3. CASE /\ ledger' = [ledger EXCEPT ![v] = AfterDenied(p, m)]
               /\ Answered(s, Shows(IF m.action = "UNLOCK" THEN before
                                    ELSE AfterDenied(p, m)))
      BY <2>3
    <2>4. CASE /\ ledger' = [ledger EXCEPT ![v] = After(p, before, m)]
               /\ Answered(s, Shows(After(p, before, m)))
      BY <2>4
    <2> QED BY <2>2, <2>3, <2>4 DEF decide
  <1>5. PICK q \in {p, AfterDenied(p, m), After(p, before, m)} :
          /\ ledger' = [ledger EXCEPT ![v] = q]
          /\ \/ Answered(s, Shows(q)) \/ Answered(s, Shows(before))
             \/ Answered(s, Says(403))
    BY <1>4
  <1>6. /\ q \in Shown /\ q.vault = v
        /\ q.nonce = p.nonce + 1 \/ (q.nonce = p.nonce /\ q.debt = p.debt)
    BY <1>1, <1>3
  <1> HIDE DEF m, v, p, before
  <1>7. /\ ledger \in [Vaults -> Shown] /\ ledger' \in [Vaults -> Shown]
        /\ ledger'[v] = q
    BY <1>1, <1>5 DEF PageInv, Server
  <1>8. Rises(ledger, ledger')
    <2> SUFFICES ASSUME NEW w \in Vaults
                 PROVE  /\ ledger'[w].vault = w
                        /\ \/ ledger'[w].nonce > ledger[w].nonce
                           \/ /\ ledger'[w].nonce = ledger[w].nonce
                              /\ ledger'[w].debt = ledger[w].debt
      BY DEF Rises
    <2>1. CASE w = v
      BY <1>1, <1>6, <1>7, <2>1 DEF p
    <2>2. CASE w # v
      BY <1>5, <1>7, <2>2 DEF ShownInv
    <2> QED BY <2>1, <2>2
  <1>9. Known(q, ledger') /\ Known(before, ledger')
    <2>1. Known(q, ledger')
      BY <1>6, <1>7 DEF Known, Shown
    <2> QED BY <1>1, <1>7, <1>8, <2>1, KnownRises
  <1>10. PICK answer \in Answers :
           Answered(s, answer) /\ Known(answer.position, ledger')
    <2>1. /\ Shows(q) \in Answers /\ Shows(before) \in Answers /\ Says(403) \in Answers
      BY <1>1, <1>6, BlankTypes DEF Statuses
    <2>2. /\ Shows(q).position = q /\ Shows(before).position = before
          /\ Says(403).position = Nowhere
      BY DEF Shows, Says
    <2> QED BY <1>5, <1>9, <2>1, <2>2, NowhereKnown
  <1> DEFINE t == [task[s] EXCEPT !.stage = "answered", !.answer = answer]
  <1>11. TaskKnown(task[s], ledger', vaultOf, connects)
    <2>1. connects \in Nat
      BY PageAssumption DEF PageInv, Sessions
    <2> QED BY <1>1, <1>7, <1>8, <2>1, TaskRises
  <1>12. TaskKnown(t, ledger', vaultOf, connects)
    BY <1>1, <1>10, <1>11, MovedKnown
  <1>13. task' = [task EXCEPT ![s] = t]
    BY <1>10 DEF Answered, PageInv
  <1> HIDE DEF t
  <1>14. /\ task'[s] = t /\ \A r \in Slots \ {s} : task'[r] = task[r]
    BY <1>13 DEF PageInv
  <1>15. Known(position, ledger')
    BY <1>7, <1>8, KnownRises DEF ShownInv, PageInv, Screen
  <1>16. TaskKnown(task[s], ledger, vaultOf, connects)' /\ Known(position, ledger)'
    BY <1>2, <1>12, <1>14, <1>15
  <1>17. connects \in Nat
    BY PageAssumption DEF PageInv, Sessions
  <1> QED BY <1>2, <1>8, <1>14, <1>16, <1>17, SlotKnown DEF ShownInv

\* The handlers of the page.
LEMMA SettlesKnown ==
    ASSUME PageInv, PageInv', ShownInv, NEW s \in Slots,
           Lost(s) \/ Settles(s) \/ disconnect(s) \/ refreshLiveProof(s)
    PROVE  ShownInv'
  <1> DEFINE K(t) == TaskKnown(t, ledger, vaultOf, connects)
  <1>1. /\ task[s] \in Tasks /\ K(task[s])
        /\ Known(task[s].answer.position, ledger) /\ Known(Nowhere, ledger)
        /\ Known(position, ledger)
    BY NowhereKnown DEF PageInv, ShownInv, TaskKnown
  <1>2. K(Idle)
    BY PlainKnown
  <1>3. \A whom, id : K(refreshOf(s, whom, id))
    BY RefreshOfKnown
  <1>4. /\ \A id : K(Sent("receipts", "restore", id))
        /\ \A id : K(Sent("disconnect", "disconnect", id))
        /\ \A id : K(Sent("run", "proof", id))
    BY PlainKnown
  <1>5. K([task[s] EXCEPT !.stage = "lost", !.answer = Blank])
    BY <1>1, BlankTypes, NowhereKnown, MovedKnown
  <1>6. K(Continues(s))
    BY <1>2, <1>3 DEF Continues
  <1>7. ASSUME NEW t, K(t), task' = [task EXCEPT ![s] = t],
               UNCHANGED <<connects, server>>, Known(position', ledger)
        PROVE  ShownInv'
    BY <1>7, PageKnown
  <1> HIDE DEF K
  <1>8. CASE Lost(s)
    <2>1. task' = [task EXCEPT ![s] = [task[s] EXCEPT !.stage = "lost", !.answer = Blank]]
      BY <1>8 DEF Lost, PageInv
    <2> QED BY <1>1, <1>5, <1>7, <1>8, <2>1 DEF Lost, page, screen
  <1>9. CASE Forgotten(s)
    BY <1>1, <1>2, <1>7, <1>9 DEF Forgotten, page, screen
  <1>10. CASE refresh(s)
    BY <1>1, <1>2, <1>7, <1>10 DEF refresh, OnScreen, screen
  <1>11. CASE restore(s)
    BY <1>1, <1>2, <1>4, <1>7, <1>11 DEF restore
  <1>12. CASE restoreEnds(s)
    BY <1>1, <1>2, <1>3, <1>7, <1>12 DEF restoreEnds, page, screen
  <1>13. CASE connected(s)
    <2>1. position' = position
      BY <1>13 DEF connected, OnScreen, screen
    <2> DEFINE t == refreshOf(s, "connect", task[s].id)
    <2>2. K(t)
      BY <1>3
    <2>3. task' = [task EXCEPT ![s] = t] /\ UNCHANGED <<connects, server>>
      BY <1>13 DEF connected
    <2> HIDE DEF t
    <2> QED BY <1>1, <1>7, <2>1, <2>2, <2>3
  <1>14. CASE connectFails(s)
    BY <1>1, <1>2, <1>7, <1>14 DEF connectFails, OnScreen, screen
  <1>15. CASE disconnected(s)
    BY <1>1, <1>2, <1>7, <1>15 DEF disconnected, OnScreen, screen
  <1>16. CASE run(s)
    BY <1>1, <1>6, <1>7, <1>16 DEF run, OnScreen, screen
  <1>17. CASE runFails(s)
    BY <1>1, <1>6, <1>7, <1>17 DEF runFails, OnScreen, screen
  <1>18. CASE disconnect(s)
    BY <1>1, <1>4, <1>7, <1>18 DEF disconnect, page, screen
  <1>19. CASE refreshLiveProof(s)
    BY <1>1, <1>4, <1>7, <1>19 DEF refreshLiveProof
  <1> QED BY <1>8, <1>9, <1>10, <1>11, <1>12, <1>13, <1>14, <1>15, <1>16, <1>17,
             <1>18, <1>19 DEF Settles

LEMMA ConnectKnown ==
    ASSUME PageInv, PageInv', ShownInv, NEW s \in Slots, NEW v \in Vaults,
           connect(s, v)
    PROVE  ShownInv'
  <1> DEFINE t == Sent("connect", "connect", connects')
  <1>1. connects \in Nat \ {0} /\ connects' = connects + 1 /\ connects' \in Sessions
    BY PageAssumption DEF connect, PageInv, Sessions
  <1>2. t = [kind |-> "connect", of |-> "connect", id |-> connects', here |-> "here",
             stage |-> "sent", answer |-> Blank, message |-> Unsigned,
             saw |-> Nowhere]
    BY DEF Sent
  <1>3. TaskKnown(t, ledger', vaultOf', connects')
    BY <1>1, <1>2, NowhereKnown DEF TaskKnown
  <1> HIDE DEF t
  <1>4. /\ task'[s] = t /\ \A q \in Slots \ {s} : task'[q] = task[q]
    <2>1. task' = [task EXCEPT ![s] = t]
      BY DEF connect, t
    <2> QED BY <2>1 DEF PageInv
  <1>5. UNCHANGED <<position, live, ledger>>
    BY DEF connect
  <1>6. Rises(ledger, ledger')
    BY <1>5 DEF Rises, ShownInv
  <1>7. /\ \A i \in 1..connects : vaultOf'[i] = vaultOf[i]
        /\ live' \subseteq 1..connects' /\ connects <= connects'
    <2>1. vaultOf' = [vaultOf EXCEPT ![connects'] = v]
      BY DEF connect
    <2>2. \A i \in 1..connects : i \in Sessions /\ i # connects' /\ i \in 1..connects'
      BY <1>1, PageAssumption DEF Sessions
    <2>3. vaultOf \in [Sessions -> Vaults]
      BY DEF PageInv, Server
    <2>4. live \subseteq 1..connects
      BY DEF ShownInv
    <2>5. \A i \in 1..connects : vaultOf'[i] = vaultOf[i]
      BY <2>1, <2>2, <2>3
    <2> QED BY <1>1, <1>5, <2>2, <2>4, <2>5
  <1>8. TaskKnown(task[s], ledger, vaultOf, connects)' /\ Known(position, ledger)'
    BY <1>3, <1>4, <1>5 DEF ShownInv
  <1> QED BY <1>4, <1>6, <1>7, <1>8, SlotKnown

LEMMA SubmitKnown ==
    ASSUME PageInv, PageInv', ShownInv, NEW s \in Slots, submitSigned(s)
    PROVE  ShownInv'
  <1> DEFINE m(b) == [key |-> key, vault |-> position.vault, action |-> b.action,
                      amount |-> b.amount, nonce |-> position.nonce]
             sent == Sent("run", "action", session)
             signed(b) == [sent EXCEPT !.message = m(b)]
             t(b) == [signed(b) EXCEPT !.saw = position]
  <1>1. PICK b \in Buttons : task' = [task EXCEPT ![s] = t(b)]
    BY DEF submitSigned
  <1>2. /\ b.action \in Actions /\ b.amount \in Nat
        /\ b.action = "REPAY" => b.amount = position.debt
    BY DEF Buttons, Actions, PageInv, Screen, Shown
  <1>3. /\ m(b) \in Messages /\ m(b).vault = position.vault
        /\ m(b).nonce = position.nonce /\ m(b).action = b.action
        /\ m(b).amount = b.amount /\ position \in Shown
    BY <1>2 DEF Messages, PageInv, Screen, Handles, Shown
  <1>4. /\ sent \in Forms /\ sent.kind = "run" /\ sent.stage = "sent"
        /\ sent.answer = Blank
    BY BlankTypes, NowhereType DEF Sent, Forms, PageInv, Screen
  <1> HIDE DEF m, sent
  <1>5. /\ signed(b) \in Forms /\ signed(b).kind = "run" /\ signed(b).stage = "sent"
        /\ signed(b).message = m(b) /\ signed(b).answer = Blank
    BY <1>3, <1>4 DEF Forms
  <1> HIDE DEF signed
  <1>6. /\ t(b).kind = "run" /\ t(b).stage = "sent" /\ t(b).message = m(b)
        /\ t(b).answer = Blank /\ t(b).saw = position
    BY <1>3, <1>5 DEF Forms
  <1> HIDE DEF t
  <1>7. TaskKnown(t(b), ledger, vaultOf, connects)
    BY <1>2, <1>3, <1>6, NowhereKnown DEF TaskKnown, ShownInv
  <1>8. UNCHANGED <<connects, server>> /\ Known(position', ledger)
    BY DEF submitSigned, ShownInv
  <1> QED BY <1>1, <1>7, <1>8, PageKnown

LEMMA MountKnown ==
    ASSUME PageInv, PageInv', ShownInv, NEW rest \in [Slots -> Tasks], Mounts(rest),
           \A s \in Slots : TaskKnown(rest[s], ledger, vaultOf, connects),
           UNCHANGED <<live, ledger>>
    PROVE  ShownInv'
  <1>1. UNCHANGED <<connects, vaultOf>> /\ position' = Nowhere
    BY DEF Mounts
  <1>2. TaskKnown(Sent("restore", "restore", stored), ledger, vaultOf, connects)
    BY PlainKnown
  <1>3. \A s \in Slots : TaskKnown(task'[s], ledger, vaultOf, connects)
    <2> DEFINE sent == Sent("restore", "restore", stored)
    <2> HIDE DEF sent
    <2>1. task' = rest \/ \E q \in Slots : task' = [rest EXCEPT ![q] = sent]
      BY DEF Mounts, sent
    <2>2. TaskKnown(sent, ledger, vaultOf, connects)
      BY <1>2 DEF sent
    <2> QED BY <2>1, <2>2
  <1>4. \A s \in Slots : TaskKnown(task'[s], ledger', vaultOf', connects')
    BY <1>1, <1>3
  <1> QED BY <1>1, <1>4, NowhereKnown DEF ShownInv

LEMMA LeaveKnown ==
    ASSUME PageInv, PageInv', ShownInv, Reload \/ Navigate
    PROVE  ShownInv'
  <1> DEFINE K(t) == TaskKnown(t, ledger, vaultOf, connects)
  <1>1. \A s \in Slots : task[s] \in Tasks /\ K(task[s])
    BY DEF PageInv, ShownInv
  <1>2. \A s \in Slots : /\ [task[s] EXCEPT !.here = "gone"] \in Tasks
                         /\ [task[s] EXCEPT !.here = "left"] \in Tasks
    BY <1>1, MovedType, BlankTypes
  <1>3. \A s \in Slots : /\ K([task[s] EXCEPT !.here = "gone"])
                         /\ K([task[s] EXCEPT !.here = "left"])
    BY <1>1, MovedKnown, BlankTypes, NowhereKnown
  <1>4. K(Idle)
    BY PlainKnown
  <1> HIDE DEF K
  <1>5. CASE Reload
    <2> DEFINE rest == [s \in Slots |->
           IF /\ task[s].stage \in {"sent", "read"}
              /\ task[s].of \in {"connect", "disconnect", "action"}
           THEN [task[s] EXCEPT !.here = "gone"] ELSE Idle]
    <2>1. rest \in [Slots -> Tasks] /\ \A s \in Slots : K(rest[s])
      BY <1>2, <1>3, <1>4, IdleType
    <2>2. Mounts(rest) /\ UNCHANGED <<live, ledger>>
      BY <1>5 DEF Reload
    <2> HIDE DEF rest
    <2> QED BY <2>1, <2>2, MountKnown DEF K
  <1>6. CASE Navigate
    <2> DEFINE rest == [s \in Slots |-> IF task[s] = Idle \/ task[s].here = "gone"
                                 THEN task[s]
                                 ELSE [task[s] EXCEPT !.here = "left"]]
    <2>1. rest \in [Slots -> Tasks] /\ \A s \in Slots : K(rest[s])
      BY <1>1, <1>2, <1>3
    <2>2. Mounts(rest) /\ UNCHANGED <<live, ledger>>
      BY <1>6 DEF Navigate
    <2> HIDE DEF rest
    <2> QED BY <2>1, <2>2, MountKnown DEF K
  <1> QED BY <1>5, <1>6

LEMMA ShownStep ==
    ASSUME PageInv, PageInv', ShownInv, [Next]_vars
    PROVE  ShownInv'
  <1>1. CASE User
    <2>1. CASE submitKeyless
      BY <2>1 DEF submitKeyless, server, ShownInv
    <2> QED BY <1>1, <2>1, ConnectKnown, SettlesKnown, SubmitKnown, LeaveKnown DEF User
  <1>2. CASE SessionEnds
    BY <1>2 DEF SessionEnds, page, screen, ShownInv
  <1>3. ASSUME NEW s \in Slots, Serve(s) PROVE ShownInv'
    BY <1>3, ReadsKnown, SessionsKnown, AuthenticateKnown, DecideKnown DEF Serve
  <1>4. CASE UNCHANGED vars
    BY <1>4 DEF vars, page, screen, server, ShownInv
  <1> QED BY <1>1, <1>2, <1>3, <1>4, SettlesKnown DEF Next

LEMMA ShownInit == Init => ShownInv
  <1> SUFFICES ASSUME Init PROVE ShownInv
    OBVIOUS
  <1>1. /\ TaskKnown(Idle, ledger, vaultOf, connects)
        /\ TaskKnown(Sent("restore", "restore", 1), ledger, vaultOf, connects)
    BY PlainKnown
  <1>2. \A s \in Slots : TaskKnown(task[s], ledger, vaultOf, connects)
    BY <1>1 DEF Init
  <1>3. \A v \in Vaults : ledger[v].vault = v
    BY DEF Init, Nowhere
  <1>4. Known(position, ledger) /\ live \subseteq 1..connects
    BY NowhereKnown DEF Init
  <1> QED BY <1>2, <1>3, <1>4 DEF ShownInv

\* What is on screen, on its way to it and signed from it is the server's
\* position or an older one.
THEOREM ShownInvariant == Spec => [](PageInv /\ ShownInv)
  <1>1. PageInv /\ ShownInv /\ [Next]_vars => PageInv' /\ ShownInv'
    BY PageStep, ShownStep
  <1> QED BY <1>1, PageInit, ShownInit, PTL DEF Spec

\* An action that is applied.
LEMMA AppliesShown ==
    ASSUME PageInv, ShownInv, [Next]_vars, NEW a \in applied' \ applied
    PROVE  \E s \in Slots :
             LET saw == task[s].saw IN
             /\ task[s].kind = "run" /\ task[s].of = "action"
             /\ task[s].message = [key |-> a.id, vault |-> a.vault,
                    action |-> a.action, amount |-> a.amount, nonce |-> a.nonce]
             /\ saw.vault = a.vault
             /\ saw.nonce = ledger[a.vault].nonce /\ saw.debt = ledger[a.vault].debt
             /\ ledger'[a.vault].debt = Follows(saw, a)
  <1>1. PICK s \in Slots : decide(s)
    BY DEF Next, vars, server, User, SessionEnds, Serve, Lost, Settles, connect,
           disconnect, submitSigned, refreshLiveProof, submitKeyless, Reload,
           Navigate, ServePosition, ServeConnect, ServeDisconnect, ServeOther,
           authenticateAction, Forgotten, refresh, restore, restoreEnds, connected,
           connectFails, disconnected, run, runFails
  <1> DEFINE t == task[s]  id == t.id  m == t.message  v == vaultOf[id]
             p == ledger[v]  before == t.answer.position
  <1>2. /\ a = [id |-> id, vault |-> v, action |-> m.action,
                amount |-> m.amount, nonce |-> m.nonce]
        /\ m.nonce = p.nonce
        /\ ledger' = [ledger EXCEPT ![v] = After(p, before, m)]
    BY <1>1 DEF decide
  <1>3. /\ t \in Tasks /\ TaskKnown(t, ledger, vaultOf, connects)
        /\ t.kind = "run" /\ t.of = "action" /\ t.stage = "read"
        /\ v \in Vaults /\ p \in Shown /\ p.vault = v
        /\ m \in Messages /\ m.action \in Actions
        /\ before \in Shown /\ before.vault = v /\ Known(before, ledger)
    BY <1>1, Decided
  <1>4. /\ m.key = id /\ m.vault = v
        /\ m.vault = t.saw.vault /\ m.nonce = t.saw.nonce
        /\ m.action = "REPAY" => m.amount = t.saw.debt
        /\ t.saw.nonce <= before.nonce /\ Known(t.saw, ledger)
    BY <1>3 DEF TaskKnown, verifyCanonical
  <1>5. m = [key |-> m.key, vault |-> m.vault, action |-> m.action,
             amount |-> m.amount, nonce |-> m.nonce]
    BY <1>3 DEF Messages
  <1>6. /\ p.nonce \in Nat /\ before.nonce \in Nat /\ p.debt \in Nat
    BY <1>3 DEF Shown
  <1>7. t.saw.debt = p.debt /\ before.debt = p.debt
    <2>1. before.nonce <= p.nonce /\ (before.nonce = p.nonce => before.debt = p.debt)
      BY <1>3 DEF Known
    <2>2. t.saw.nonce = p.nonce => t.saw.debt = p.debt
      BY <1>3, <1>4 DEF Known
    <2> QED BY <1>2, <1>4, <1>6, <2>1, <2>2
  <1>8. ledger'[v] = After(p, before, m)
    BY <1>2, <1>3 DEF PageInv, Server
  <1> HIDE DEF t, id, m, v, p, before
  <1>9. ledger'[v].debt = Follows(t.saw, a)
    <2>1. a.action = m.action /\ a.amount = m.amount
      BY <1>2
    <2>2. CASE m.action = "DRAW"
      BY <1>3, <1>7, <1>8, <2>1, <2>2, AfterFields DEF Follows
    <2>3. CASE m.action = "REPAY"
      BY <1>3, <1>4, <1>7, <1>8, <2>1, <2>3, AfterFields DEF Follows
    <2>4. CASE m.action = "UNLOCK"
      BY <1>3, <1>7, <1>8, <2>1, <2>4, AfterFields DEF Follows
    <2> QED BY <1>3, <2>2, <2>3, <2>4 DEF Actions
  <1>10. /\ a.id = id /\ a.vault = v /\ a.action = m.action /\ a.amount = m.amount
         /\ a.nonce = m.nonce
    BY <1>2
  <1>11. /\ t.kind = "run" /\ t.of = "action"
         /\ t.message = [key |-> a.id, vault |-> a.vault, action |-> a.action,
                         amount |-> a.amount, nonce |-> a.nonce]
         /\ t.saw.vault = a.vault
         /\ t.saw.nonce = ledger[a.vault].nonce /\ t.saw.debt = ledger[a.vault].debt
         /\ ledger'[a.vault].debt = Follows(t.saw, a)
    BY <1>2, <1>3, <1>4, <1>5, <1>7, <1>9, <1>10 DEF m, p
  <1> QED BY <1>11 DEF t

\* Whatever answers arrive late or in another order, whatever session, key and
\* position end up on screen together, and however often a button is pressed:
\* the server applies a transition only to the vault the user saw, at the debt
\* and the nonce the user saw, and the debt becomes what follows from it, "Repay
\* All" repaying all (page.tsx:443-498, action-auth.ts:54-87,
\* unlock/route.ts:107).
THEOREM AppliedAsShownHolds == Spec => AppliedAsShown
  <1>1. PageInv /\ ShownInv /\ [Next]_vars =>
          [\A a \in applied' \ applied : \E s \in Slots :
             LET saw == task[s].saw IN
             /\ task[s].kind = "run" /\ task[s].of = "action"
             /\ task[s].message = [key |-> a.id, vault |-> a.vault,
                    action |-> a.action, amount |-> a.amount, nonce |-> a.nonce]
             /\ saw.vault = a.vault
             /\ saw.nonce = ledger[a.vault].nonce /\ saw.debt = ledger[a.vault].debt
             /\ ledger'[a.vault].debt = Follows(saw, a)
          ]_vars
    BY AppliesShown
  <1> QED BY <1>1, ShownInvariant, PTL DEF Spec, AppliedAsShown
=============================================================================
