-------------------------- MODULE ConnectionProofs --------------------------
(***************************************************************************)
(* Proofs about Connection, for any number of calls, Sessions and indexes. *)
(*                                                                         *)
(* IInv is the inductive invariant: the four safety properties and         *)
(*   Control  what a call has at hand at each step;                        *)
(*   Current  what a current copy of a Session guarantees;                 *)
(*   Pending  why the index of a Session about to be cleared is not lost   *)
(*            silently: it is off the list, known to be lost, or reserved  *)
(*            again by someone else.                                       *)
(***************************************************************************)
EXTENDS Connection, TLAPS

\* The copy of the Session names an index to release.
Releasing == {"discCfgGet", "discCfgPut", "discSessPut"}

Control ==
    \A c \in Call :
        /\ pc[c] # "idle" => who[c] \in Session
        /\ pc[c] \in {"sessPut"} \union Releasing => got[c] \in Index
        /\ c \in revoked => pc[c] = "sessPut"

Current ==
    /\ \A s \in Session : s \notin alive => conn[s] = None
    /\ \A c \in sessSeen : pc[c] # "idle" /\ who[c] \in alive
    /\ \A c \in sessSeen : pc[c] \in Releasing => conn[who[c]] = got[c]

Pending ==
    \A c \in sessSeen : pc[c] = "discSessPut" /\ got[c] \in active =>
        \/ got[c] \in lost
        \/ \E h \in Holders(got[c]) \ revoked : h # who[c]

IInv ==
    /\ TypeOK /\ Control /\ Current /\ Pending
    /\ UniqueLease /\ LeakOnlyByFailure /\ ConnectedIsServed /\ NoDanglingStream

----------------------------------------------------------------------------
(* Every step keeps every part of the invariant.                           *)

\* Every step keeps the type invariant.
LEMMA TypeStep ==
    ASSUME TypeOK, Control, [Next]_vars
    PROVE  TypeOK'
<1>. USE ConnAssumption DEF TypeOK, PC, Disconnecting, Connecting, Serving, After, Control, Releasing,
          resources, copies, control, history
<1>1. ASSUME NEW c \in Call, InitGet(c) PROVE TypeOK'
  BY <1>1 DEF InitGet, Goto, Return
<1>2. ASSUME NEW c \in Call, CfgGet(c) PROVE TypeOK'
  BY <1>2 DEF CfgGet, Goto
<1>3. ASSUME NEW c \in Call, CfgPut(c) PROVE TypeOK'
  BY <1>3 DEF CfgPut, Goto, Return, Reserve
<1>4. ASSUME NEW c \in Call, SessPut(c) PROVE TypeOK'
  BY <1>4 DEF SessPut, Attach, Abandon, Goto, Return, Others, Serves
<1>5. ASSUME NEW c \in Call, Send(c) PROVE TypeOK'
  BY <1>5 DEF Send, Goto
<1>6. ASSUME NEW c \in Call, Register(c) PROVE TypeOK'
  BY <1>6 DEF Register, Goto
<1>7. ASSUME NEW c \in Call, Tick(c) PROVE TypeOK'
  BY <1>7 DEF Tick, Goto
<1>8. ASSUME NEW c \in Call, TickPut(c) PROVE TypeOK'
  BY <1>8 DEF TickPut, Goto, Others
<1>9. ASSUME NEW c \in Call, Unregister(c) PROVE TypeOK'
  BY <1>9 DEF Unregister
<1>10. ASSUME NEW c \in Call, DiscGet(c) PROVE TypeOK'
  BY <1>10 DEF DiscGet, Disconnected, Goto, Return
<1>11. ASSUME NEW c \in Call, DiscCfgGet(c) PROVE TypeOK'
  BY <1>11 DEF DiscCfgGet, Goto
<1>12. ASSUME NEW c \in Call, DiscCfgPut(c) PROVE TypeOK'
  BY <1>12 DEF DiscCfgPut, Goto, Holders
<1>13. ASSUME NEW c \in Call, DiscSessPut(c) PROVE TypeOK'
  BY <1>13 DEF DiscSessPut, Detach, Disconnected, Abandon, Goto, Return, Others, Serves
<1>14. ASSUME NEW c \in Call, Hangup(c) PROVE TypeOK'
  BY <1>14 DEF Hangup, Goto
<1>15. ASSUME NEW c \in Call, Abort(c) PROVE TypeOK'
  BY <1>15 DEF Abort, Abandon, Return, Serves
<1>16. ASSUME NEW c \in Call, NEW s \in Session, Open(c, s) PROVE TypeOK'
  BY <1>16 DEF Open
<1>17. ASSUME NEW c \in Call, NEW s \in Session, Disconnect(c, s) PROVE TypeOK'
  BY <1>17 DEF Disconnect
<1>18. ASSUME NEW s \in Session, Touch(s) PROVE TypeOK'
  BY <1>18 DEF Touch, Others
<1>19. ASSUME NEW s \in Session, DeleteSession(s) PROVE TypeOK'
  BY <1>19 DEF DeleteSession, Others
<1>20. ASSUME NEW s \in Session, NewSession(s) PROVE TypeOK'
  BY <1>20 DEF NewSession
<1>21. CASE Crash
  BY <1>21 DEF Crash
<1>22. CASE UNCHANGED vars
  BY <1>22 DEF vars
<1>. QED
  BY <1>1, <1>2, <1>3, <1>4, <1>5, <1>6, <1>7, <1>8, <1>9, <1>10, <1>11, <1>12,
        <1>13, <1>14, <1>15, <1>16, <1>17, <1>18, <1>19, <1>20, <1>21, <1>22 DEF Next, Progress

\* A call that is under way has a Session, and an index where it needs one.
LEMMA ControlStep ==
    ASSUME TypeOK, Control, Current, [Next]_vars
    PROVE  Control'
<1>. USE ConnAssumption DEF TypeOK, PC, Disconnecting, Connecting, Serving, After, Control, Current,
          Releasing, resources, copies, control, history
<1>1. ASSUME NEW c \in Call, InitGet(c) PROVE Control'
  BY <1>1 DEF InitGet, Goto, Return
<1>2. ASSUME NEW c \in Call, CfgGet(c) PROVE Control'
  BY <1>2 DEF CfgGet, Goto
<1>3. ASSUME NEW c \in Call, CfgPut(c) PROVE Control'
  BY <1>3 DEF CfgPut, Goto, Return, Reserve
<1>4. ASSUME NEW c \in Call, SessPut(c) PROVE Control'
  BY <1>4 DEF SessPut, Attach, Abandon, Goto, Return, Others, Serves
<1>5. ASSUME NEW c \in Call, Send(c) PROVE Control'
  BY <1>5 DEF Send, Goto
<1>6. ASSUME NEW c \in Call, Register(c) PROVE Control'
  BY <1>6 DEF Register, Goto
<1>7. ASSUME NEW c \in Call, Tick(c) PROVE Control'
  BY <1>7 DEF Tick, Goto
<1>8. ASSUME NEW c \in Call, TickPut(c) PROVE Control'
  BY <1>8 DEF TickPut, Goto, Others
<1>9. ASSUME NEW c \in Call, Unregister(c) PROVE Control'
  BY <1>9 DEF Unregister
<1>10. ASSUME NEW c \in Call, DiscGet(c) PROVE Control'
  BY <1>10 DEF DiscGet, Disconnected, Goto, Return
<1>11. ASSUME NEW c \in Call, DiscCfgGet(c) PROVE Control'
  BY <1>11 DEF DiscCfgGet, Goto
<1>12. ASSUME NEW c \in Call, DiscCfgPut(c) PROVE Control'
  BY <1>12 DEF DiscCfgPut, Goto, Holders
<1>13. ASSUME NEW c \in Call, DiscSessPut(c) PROVE Control'
  BY <1>13 DEF DiscSessPut, Detach, Disconnected, Abandon, Goto, Return, Others, Serves
<1>14. ASSUME NEW c \in Call, Hangup(c) PROVE Control'
  BY <1>14 DEF Hangup, Goto
<1>15. ASSUME NEW c \in Call, Abort(c) PROVE Control'
  BY <1>15 DEF Abort, Abandon, Return, Serves
<1>16. ASSUME NEW c \in Call, NEW s \in Session, Open(c, s) PROVE Control'
  BY <1>16 DEF Open
<1>17. ASSUME NEW c \in Call, NEW s \in Session, Disconnect(c, s) PROVE Control'
  BY <1>17 DEF Disconnect
<1>18. ASSUME NEW s \in Session, Touch(s) PROVE Control'
  BY <1>18 DEF Touch, Others
<1>19. ASSUME NEW s \in Session, DeleteSession(s) PROVE Control'
  BY <1>19 DEF DeleteSession, Others
<1>20. ASSUME NEW s \in Session, NewSession(s) PROVE Control'
  BY <1>20 DEF NewSession
<1>21. CASE Crash
  BY <1>21 DEF Crash
<1>22. CASE UNCHANGED vars
  BY <1>22 DEF vars
<1>. QED
  BY <1>1, <1>2, <1>3, <1>4, <1>5, <1>6, <1>7, <1>8, <1>9, <1>10, <1>11, <1>12,
        <1>13, <1>14, <1>15, <1>16, <1>17, <1>18, <1>19, <1>20, <1>21, <1>22 DEF Next, Progress

\* A current copy is of a Session that exists and has the same index.
LEMMA CurrentStep ==
    ASSUME TypeOK, Control, Current, [Next]_vars
    PROVE  Current'
<1>. USE ConnAssumption DEF TypeOK, PC, Disconnecting, Connecting, Serving, After, Control, Current,
          Releasing, resources, copies, control, history
<1>1. ASSUME NEW c \in Call, InitGet(c) PROVE Current'
  BY <1>1 DEF InitGet, Goto, Return
<1>2. ASSUME NEW c \in Call, CfgGet(c) PROVE Current'
  BY <1>2 DEF CfgGet, Goto
<1>3. ASSUME NEW c \in Call, CfgPut(c) PROVE Current'
  BY <1>3 DEF CfgPut, Goto, Return, Reserve
<1>4. ASSUME NEW c \in Call, SessPut(c) PROVE Current'
  BY <1>4 DEF SessPut, Attach, Abandon, Goto, Return, Others, Serves
<1>5. ASSUME NEW c \in Call, Send(c) PROVE Current'
  BY <1>5 DEF Send, Goto
<1>6. ASSUME NEW c \in Call, Register(c) PROVE Current'
  BY <1>6 DEF Register, Goto
<1>7. ASSUME NEW c \in Call, Tick(c) PROVE Current'
  BY <1>7 DEF Tick, Goto
<1>8. ASSUME NEW c \in Call, TickPut(c) PROVE Current'
  BY <1>8 DEF TickPut, Goto, Others
<1>9. ASSUME NEW c \in Call, Unregister(c) PROVE Current'
  BY <1>9 DEF Unregister
<1>10. ASSUME NEW c \in Call, DiscGet(c) PROVE Current'
  BY <1>10 DEF DiscGet, Disconnected, Goto, Return
<1>11. ASSUME NEW c \in Call, DiscCfgGet(c) PROVE Current'
  BY <1>11 DEF DiscCfgGet, Goto
<1>12. ASSUME NEW c \in Call, DiscCfgPut(c) PROVE Current'
  BY <1>12 DEF DiscCfgPut, Goto, Holders
<1>13. ASSUME NEW c \in Call, DiscSessPut(c) PROVE Current'
  BY <1>13 DEF DiscSessPut, Detach, Disconnected, Abandon, Goto, Return, Others, Serves
<1>14. ASSUME NEW c \in Call, Hangup(c) PROVE Current'
  BY <1>14 DEF Hangup, Goto
<1>15. ASSUME NEW c \in Call, Abort(c) PROVE Current'
  BY <1>15 DEF Abort, Abandon, Return, Serves
<1>16. ASSUME NEW c \in Call, NEW s \in Session, Open(c, s) PROVE Current'
  BY <1>16 DEF Open
<1>17. ASSUME NEW c \in Call, NEW s \in Session, Disconnect(c, s) PROVE Current'
  BY <1>17 DEF Disconnect
<1>18. ASSUME NEW s \in Session, Touch(s) PROVE Current'
  BY <1>18 DEF Touch, Others
<1>19. ASSUME NEW s \in Session, DeleteSession(s) PROVE Current'
  BY <1>19 DEF DeleteSession, Others
<1>20. ASSUME NEW s \in Session, NewSession(s) PROVE Current'
  BY <1>20 DEF NewSession
<1>21. CASE Crash
  BY <1>21 DEF Crash
<1>22. CASE UNCHANGED vars
  BY <1>22 DEF vars
<1>. QED
  BY <1>1, <1>2, <1>3, <1>4, <1>5, <1>6, <1>7, <1>8, <1>9, <1>10, <1>11, <1>12,
        <1>13, <1>14, <1>15, <1>16, <1>17, <1>18, <1>19, <1>20, <1>21, <1>22 DEF Next, Progress

\* The map of streams names running streams only.
LEMMA StreamStep ==
    ASSUME TypeOK, Control, NoDanglingStream, [Next]_vars
    PROVE  NoDanglingStream'
<1>. USE ConnAssumption DEF TypeOK, PC, Disconnecting, Connecting, Serving, After, Control,
          NoDanglingStream, resources, copies, control, history
<1>1. ASSUME NEW c \in Call, InitGet(c) PROVE NoDanglingStream'
  BY <1>1 DEF InitGet, Goto, Return
<1>2. ASSUME NEW c \in Call, CfgGet(c) PROVE NoDanglingStream'
  BY <1>2 DEF CfgGet, Goto
<1>3. ASSUME NEW c \in Call, CfgPut(c) PROVE NoDanglingStream'
  BY <1>3 DEF CfgPut, Goto, Return, Reserve
<1>4. ASSUME NEW c \in Call, SessPut(c) PROVE NoDanglingStream'
  BY <1>4 DEF SessPut, Attach, Abandon, Goto, Return, Others, Serves
<1>5. ASSUME NEW c \in Call, Send(c) PROVE NoDanglingStream'
  BY <1>5 DEF Send, Goto
<1>6. ASSUME NEW c \in Call, Register(c) PROVE NoDanglingStream'
  BY <1>6 DEF Register, Goto
<1>7. ASSUME NEW c \in Call, Tick(c) PROVE NoDanglingStream'
  BY <1>7 DEF Tick, Goto
<1>8. ASSUME NEW c \in Call, TickPut(c) PROVE NoDanglingStream'
  BY <1>8 DEF TickPut, Goto, Others
<1>9. ASSUME NEW c \in Call, Unregister(c) PROVE NoDanglingStream'
  BY <1>9 DEF Unregister
<1>10. ASSUME NEW c \in Call, DiscGet(c) PROVE NoDanglingStream'
  BY <1>10 DEF DiscGet, Disconnected, Goto, Return
<1>11. ASSUME NEW c \in Call, DiscCfgGet(c) PROVE NoDanglingStream'
  BY <1>11 DEF DiscCfgGet, Goto
<1>12. ASSUME NEW c \in Call, DiscCfgPut(c) PROVE NoDanglingStream'
  BY <1>12 DEF DiscCfgPut, Goto, Holders
<1>13. ASSUME NEW c \in Call, DiscSessPut(c) PROVE NoDanglingStream'
  BY <1>13 DEF DiscSessPut, Detach, Disconnected, Abandon, Goto, Return, Others, Serves
<1>14. ASSUME NEW c \in Call, Hangup(c) PROVE NoDanglingStream'
  BY <1>14 DEF Hangup, Goto
<1>15. ASSUME NEW c \in Call, Abort(c) PROVE NoDanglingStream'
  BY <1>15 DEF Abort, Abandon, Return, Serves
<1>16. ASSUME NEW c \in Call, NEW s \in Session, Open(c, s) PROVE NoDanglingStream'
  BY <1>16 DEF Open
<1>17. ASSUME NEW c \in Call, NEW s \in Session, Disconnect(c, s) PROVE NoDanglingStream'
  BY <1>17 DEF Disconnect
<1>18. ASSUME NEW s \in Session, Touch(s) PROVE NoDanglingStream'
  BY <1>18 DEF Touch, Others
<1>19. ASSUME NEW s \in Session, DeleteSession(s) PROVE NoDanglingStream'
  BY <1>19 DEF DeleteSession, Others
<1>20. ASSUME NEW s \in Session, NewSession(s) PROVE NoDanglingStream'
  BY <1>20 DEF NewSession
<1>21. CASE Crash
  BY <1>21 DEF Crash
<1>22. CASE UNCHANGED vars
  BY <1>22 DEF vars
<1>. QED
  BY <1>1, <1>2, <1>3, <1>4, <1>5, <1>6, <1>7, <1>8, <1>9, <1>10, <1>11, <1>12,
        <1>13, <1>14, <1>15, <1>16, <1>17, <1>18, <1>19, <1>20, <1>21, <1>22 DEF Next, Progress

\* An index stays with one holder until a disconnection takes it off the list.
LEMMA LeaseStep ==
    ASSUME TypeOK, Control, UniqueLease, [Next]_vars
    PROVE  UniqueLease'
<1>. USE ConnAssumption DEF TypeOK, PC, Disconnecting, Connecting, Serving, After, Control, Releasing,
          UniqueLease, Holders, resources, copies, control, history
<1>1. ASSUME NEW c \in Call, InitGet(c) PROVE UniqueLease'
  BY <1>1 DEF InitGet, Goto, Return
<1>2. ASSUME NEW c \in Call, CfgGet(c) PROVE UniqueLease'
  BY <1>2 DEF CfgGet, Goto
<1>3. ASSUME NEW c \in Call, CfgPut(c) PROVE UniqueLease'
  BY <1>3 DEF CfgPut, Goto, Return, Reserve
<1>4. ASSUME NEW c \in Call, SessPut(c) PROVE UniqueLease'
  BY <1>4 DEF SessPut, Attach, Abandon, Goto, Return, Others, Serves
<1>5. ASSUME NEW c \in Call, Send(c) PROVE UniqueLease'
  BY <1>5 DEF Send, Goto
<1>6. ASSUME NEW c \in Call, Register(c) PROVE UniqueLease'
  BY <1>6 DEF Register, Goto
<1>7. ASSUME NEW c \in Call, Tick(c) PROVE UniqueLease'
  BY <1>7 DEF Tick, Goto
<1>8. ASSUME NEW c \in Call, TickPut(c) PROVE UniqueLease'
  BY <1>8 DEF TickPut, Goto, Others
<1>9. ASSUME NEW c \in Call, Unregister(c) PROVE UniqueLease'
  BY <1>9 DEF Unregister
<1>10. ASSUME NEW c \in Call, DiscGet(c) PROVE UniqueLease'
  BY <1>10 DEF DiscGet, Disconnected, Goto, Return
<1>11. ASSUME NEW c \in Call, DiscCfgGet(c) PROVE UniqueLease'
  BY <1>11 DEF DiscCfgGet, Goto
<1>12. ASSUME NEW c \in Call, DiscCfgPut(c) PROVE UniqueLease'
  BY <1>12 DEF DiscCfgPut, Goto
<1>13. ASSUME NEW c \in Call, DiscSessPut(c) PROVE UniqueLease'
  BY <1>13 DEF DiscSessPut, Detach, Disconnected, Abandon, Goto, Return, Others, Serves
<1>14. ASSUME NEW c \in Call, Hangup(c) PROVE UniqueLease'
  BY <1>14 DEF Hangup, Goto
<1>15. ASSUME NEW c \in Call, Abort(c) PROVE UniqueLease'
  BY <1>15 DEF Abort, Abandon, Return, Serves
<1>16. ASSUME NEW c \in Call, NEW s \in Session, Open(c, s) PROVE UniqueLease'
  BY <1>16 DEF Open
<1>17. ASSUME NEW c \in Call, NEW s \in Session, Disconnect(c, s) PROVE UniqueLease'
  BY <1>17 DEF Disconnect
<1>18. ASSUME NEW s \in Session, Touch(s) PROVE UniqueLease'
  BY <1>18 DEF Touch, Others
<1>19. ASSUME NEW s \in Session, DeleteSession(s) PROVE UniqueLease'
  BY <1>19 DEF DeleteSession, Others
<1>20. ASSUME NEW s \in Session, NewSession(s) PROVE UniqueLease'
  BY <1>20 DEF NewSession
<1>21. CASE Crash
  BY <1>21 DEF Crash
<1>22. CASE UNCHANGED vars
  BY <1>22 DEF vars
<1>. QED
  BY <1>1, <1>2, <1>3, <1>4, <1>5, <1>6, <1>7, <1>8, <1>9, <1>10, <1>11, <1>12,
        <1>13, <1>14, <1>15, <1>16, <1>17, <1>18, <1>19, <1>20, <1>21, <1>22 DEF Next, Progress

\* An index on the list stays held or known to be lost.
LEMMA LeakStep ==
    ASSUME TypeOK, Control, Current, Pending, UniqueLease, LeakOnlyByFailure, [Next]_vars
    PROVE  LeakOnlyByFailure'
<1>. USE ConnAssumption DEF TypeOK, PC, Disconnecting, Connecting, Serving, After, Control, Current,
          Releasing, Pending, LeakOnlyByFailure, Holders, resources, copies,
          control, history
<1>1. ASSUME NEW c \in Call, InitGet(c) PROVE LeakOnlyByFailure'
  BY <1>1 DEF InitGet, Goto, Return
<1>2. ASSUME NEW c \in Call, CfgGet(c) PROVE LeakOnlyByFailure'
  BY <1>2 DEF CfgGet, Goto
<1>3. ASSUME NEW c \in Call, CfgPut(c) PROVE LeakOnlyByFailure'
  BY <1>3 DEF CfgPut, Goto, Return, Reserve
<1>4. ASSUME NEW c \in Call, SessPut(c) PROVE LeakOnlyByFailure'
  BY <1>4 DEF SessPut, Attach, Abandon, Goto, Return, Others, Serves
<1>5. ASSUME NEW c \in Call, Send(c) PROVE LeakOnlyByFailure'
  BY <1>5 DEF Send, Goto
<1>6. ASSUME NEW c \in Call, Register(c) PROVE LeakOnlyByFailure'
  BY <1>6 DEF Register, Goto
<1>7. ASSUME NEW c \in Call, Tick(c) PROVE LeakOnlyByFailure'
  BY <1>7 DEF Tick, Goto
<1>8. ASSUME NEW c \in Call, TickPut(c) PROVE LeakOnlyByFailure'
  BY <1>8 DEF TickPut, Goto, Others
<1>9. ASSUME NEW c \in Call, Unregister(c) PROVE LeakOnlyByFailure'
  BY <1>9 DEF Unregister
<1>10. ASSUME NEW c \in Call, DiscGet(c) PROVE LeakOnlyByFailure'
  BY <1>10 DEF DiscGet, Disconnected, Goto, Return
<1>11. ASSUME NEW c \in Call, DiscCfgGet(c) PROVE LeakOnlyByFailure'
  BY <1>11 DEF DiscCfgGet, Goto
<1>12. ASSUME NEW c \in Call, DiscCfgPut(c) PROVE LeakOnlyByFailure'
  BY <1>12 DEF DiscCfgPut, Goto
<1>13. ASSUME NEW c \in Call, DiscSessPut(c) PROVE LeakOnlyByFailure'
  BY <1>13 DEF DiscSessPut, Detach, Disconnected, Abandon, Goto, Return, Others, Serves
<1>14. ASSUME NEW c \in Call, Hangup(c) PROVE LeakOnlyByFailure'
  BY <1>14 DEF Hangup, Goto
<1>15. ASSUME NEW c \in Call, Abort(c) PROVE LeakOnlyByFailure'
  BY <1>15 DEF Abort, Abandon, Return, Serves
<1>16. ASSUME NEW c \in Call, NEW s \in Session, Open(c, s) PROVE LeakOnlyByFailure'
  BY <1>16 DEF Open
<1>17. ASSUME NEW c \in Call, NEW s \in Session, Disconnect(c, s) PROVE LeakOnlyByFailure'
  BY <1>17 DEF Disconnect
<1>18. ASSUME NEW s \in Session, Touch(s) PROVE LeakOnlyByFailure'
  BY <1>18 DEF Touch, Others
<1>19. ASSUME NEW s \in Session, DeleteSession(s) PROVE LeakOnlyByFailure'
  BY <1>19 DEF DeleteSession, Others
<1>20. ASSUME NEW s \in Session, NewSession(s) PROVE LeakOnlyByFailure'
  BY <1>20 DEF NewSession
<1>21. CASE Crash
  BY <1>21 DEF Crash
<1>22. CASE UNCHANGED vars
  BY <1>22 DEF vars
<1>. QED
  BY <1>1, <1>2, <1>3, <1>4, <1>5, <1>6, <1>7, <1>8, <1>9, <1>10, <1>11, <1>12,
        <1>13, <1>14, <1>15, <1>16, <1>17, <1>18, <1>19, <1>20, <1>21, <1>22 DEF Next, Progress

\* The index that a call has released or failed to release stays accounted for.
LEMMA PendingStep ==
    ASSUME TypeOK, Control, Current, Pending, UniqueLease, [Next]_vars
    PROVE  Pending'
<1>. USE ConnAssumption DEF TypeOK, PC, Disconnecting, Connecting, Serving, After, Control, Current,
          Releasing, Pending, UniqueLease, Holders, resources, copies, control,
          history
<1>1. ASSUME NEW c \in Call, InitGet(c) PROVE Pending'
  BY <1>1 DEF InitGet, Goto, Return
<1>2. ASSUME NEW c \in Call, CfgGet(c) PROVE Pending'
  BY <1>2 DEF CfgGet, Goto
<1>3. ASSUME NEW c \in Call, CfgPut(c) PROVE Pending'
  BY <1>3 DEF CfgPut, Goto, Return, Reserve
<1>4. ASSUME NEW c \in Call, SessPut(c) PROVE Pending'
  BY <1>4 DEF SessPut, Attach, Abandon, Goto, Return, Others, Serves
<1>5. ASSUME NEW c \in Call, Send(c) PROVE Pending'
  BY <1>5 DEF Send, Goto
<1>6. ASSUME NEW c \in Call, Register(c) PROVE Pending'
  BY <1>6 DEF Register, Goto
<1>7. ASSUME NEW c \in Call, Tick(c) PROVE Pending'
  BY <1>7 DEF Tick, Goto
<1>8. ASSUME NEW c \in Call, TickPut(c) PROVE Pending'
  BY <1>8 DEF TickPut, Goto, Others
<1>9. ASSUME NEW c \in Call, Unregister(c) PROVE Pending'
  BY <1>9 DEF Unregister
<1>10. ASSUME NEW c \in Call, DiscGet(c) PROVE Pending'
  BY <1>10 DEF DiscGet, Disconnected, Goto, Return
<1>11. ASSUME NEW c \in Call, DiscCfgGet(c) PROVE Pending'
  BY <1>11 DEF DiscCfgGet, Goto
<1>12. ASSUME NEW c \in Call, DiscCfgPut(c) PROVE Pending'
  BY <1>12 DEF DiscCfgPut, Goto
<1>13. ASSUME NEW c \in Call, DiscSessPut(c) PROVE Pending'
  BY <1>13 DEF DiscSessPut, Detach, Disconnected, Abandon, Goto, Return, Others, Serves
<1>14. ASSUME NEW c \in Call, Hangup(c) PROVE Pending'
  BY <1>14 DEF Hangup, Goto
<1>15. ASSUME NEW c \in Call, Abort(c) PROVE Pending'
  BY <1>15 DEF Abort, Abandon, Return, Serves
<1>16. ASSUME NEW c \in Call, NEW s \in Session, Open(c, s) PROVE Pending'
  BY <1>16 DEF Open
<1>17. ASSUME NEW c \in Call, NEW s \in Session, Disconnect(c, s) PROVE Pending'
  BY <1>17 DEF Disconnect
<1>18. ASSUME NEW s \in Session, Touch(s) PROVE Pending'
  BY <1>18 DEF Touch, Others
<1>19. ASSUME NEW s \in Session, DeleteSession(s) PROVE Pending'
  BY <1>19 DEF DeleteSession, Others
<1>20. ASSUME NEW s \in Session, NewSession(s) PROVE Pending'
  BY <1>20 DEF NewSession
<1>21. CASE Crash
  BY <1>21 DEF Crash
<1>22. CASE UNCHANGED vars
  BY <1>22 DEF vars
<1>. QED
  BY <1>1, <1>2, <1>3, <1>4, <1>5, <1>6, <1>7, <1>8, <1>9, <1>10, <1>11, <1>12,
        <1>13, <1>14, <1>15, <1>16, <1>17, <1>18, <1>19, <1>20, <1>21, <1>22 DEF Next, Progress

\* The last stream of a connected Session leaves only after disconnecting it.
LEMMA ServedStep ==
    ASSUME TypeOK, Control, Current, ConnectedIsServed, [Next]_vars
    PROVE  ConnectedIsServed'
<1>. USE ConnAssumption DEF TypeOK, PC, Disconnecting, Connecting, Serving, After, Control, Current,
          ConnectedIsServed, Serves, resources, copies, control, history
<1>1. ASSUME NEW c \in Call, InitGet(c) PROVE ConnectedIsServed'
  BY <1>1 DEF InitGet, Goto, Return
<1>2. ASSUME NEW c \in Call, CfgGet(c) PROVE ConnectedIsServed'
  BY <1>2 DEF CfgGet, Goto
<1>3. ASSUME NEW c \in Call, CfgPut(c) PROVE ConnectedIsServed'
  BY <1>3 DEF CfgPut, Goto, Return, Reserve
<1>4. ASSUME NEW c \in Call, SessPut(c) PROVE ConnectedIsServed'
  BY <1>4 DEF SessPut, Attach, Abandon, Goto, Return, Others
<1>5. ASSUME NEW c \in Call, Send(c) PROVE ConnectedIsServed'
  BY <1>5 DEF Send, Goto
<1>6. ASSUME NEW c \in Call, Register(c) PROVE ConnectedIsServed'
  BY <1>6 DEF Register, Goto
<1>7. ASSUME NEW c \in Call, Tick(c) PROVE ConnectedIsServed'
  BY <1>7 DEF Tick, Goto
<1>8. ASSUME NEW c \in Call, TickPut(c) PROVE ConnectedIsServed'
  BY <1>8 DEF TickPut, Goto, Others
<1>9. ASSUME NEW c \in Call, Unregister(c) PROVE ConnectedIsServed'
  BY <1>9 DEF Unregister
<1>10. ASSUME NEW c \in Call, DiscGet(c) PROVE ConnectedIsServed'
  BY <1>10 DEF DiscGet, Disconnected, Goto, Return
<1>11. ASSUME NEW c \in Call, DiscCfgGet(c) PROVE ConnectedIsServed'
  BY <1>11 DEF DiscCfgGet, Goto
<1>12. ASSUME NEW c \in Call, DiscCfgPut(c) PROVE ConnectedIsServed'
  BY <1>12 DEF DiscCfgPut, Goto, Holders
<1>13. ASSUME NEW c \in Call, DiscSessPut(c) PROVE ConnectedIsServed'
  BY <1>13 DEF DiscSessPut, Detach, Disconnected, Abandon, Goto, Return, Others
<1>14. ASSUME NEW c \in Call, Hangup(c) PROVE ConnectedIsServed'
  BY <1>14 DEF Hangup, Goto
<1>15. ASSUME NEW c \in Call, Abort(c) PROVE ConnectedIsServed'
  BY <1>15 DEF Abort, Abandon, Return
<1>16. ASSUME NEW c \in Call, NEW s \in Session, Open(c, s) PROVE ConnectedIsServed'
  BY <1>16 DEF Open
<1>17. ASSUME NEW c \in Call, NEW s \in Session, Disconnect(c, s) PROVE ConnectedIsServed'
  BY <1>17 DEF Disconnect
<1>18. ASSUME NEW s \in Session, Touch(s) PROVE ConnectedIsServed'
  BY <1>18 DEF Touch, Others
<1>19. ASSUME NEW s \in Session, DeleteSession(s) PROVE ConnectedIsServed'
  BY <1>19 DEF DeleteSession, Others
<1>20. ASSUME NEW s \in Session, NewSession(s) PROVE ConnectedIsServed'
  BY <1>20 DEF NewSession
<1>21. CASE Crash
  BY <1>21 DEF Crash
<1>22. CASE UNCHANGED vars
  BY <1>22 DEF vars
<1>. QED
  BY <1>1, <1>2, <1>3, <1>4, <1>5, <1>6, <1>7, <1>8, <1>9, <1>10, <1>11, <1>12,
        <1>13, <1>14, <1>15, <1>16, <1>17, <1>18, <1>19, <1>20, <1>21, <1>22 DEF Next, Progress

----------------------------------------------------------------------------
(* The invariant.                                                          *)

\* Every step of a call, of the Cluster or of a failure keeps the invariant.
LEMMA Inductive == IInv /\ [Next]_vars => IInv'
<1>. SUFFICES ASSUME IInv, [Next]_vars PROVE IInv'
  OBVIOUS
<1>. USE DEF IInv
<1>1. TypeOK' BY TypeStep
<1>2. Control' BY ControlStep
<1>3. Current' BY CurrentStep
<1>4. Pending' BY PendingStep
<1>5. UniqueLease' BY LeaseStep
<1>6. LeakOnlyByFailure' BY LeakStep
<1>7. ConnectedIsServed' BY ServedStep
<1>8. NoDanglingStream' BY StreamStep
<1>. QED BY <1>1, <1>2, <1>3, <1>4, <1>5, <1>6, <1>7, <1>8

\* It holds before the first connection.
LEMMA Initially == Init => IInv
  BY ConnAssumption DEF Init, IInv, TypeOK, PC, Disconnecting, Connecting, Serving, After, Control,
     Current, Pending, Releasing, UniqueLease, LeakOnlyByFailure, ConnectedIsServed,
     NoDanglingStream, Holders

\* Hence it always holds.
LEMMA Invariance == Spec => []IInv
  BY Initially, Inductive, PTL DEF Spec

----------------------------------------------------------------------------
(* The theorems.                                                           *)

\* Every reachable state of the calls, the Sessions and the Config is well
\* typed (connect.go, upstream.go).
THEOREM TypeCorrect == Spec => []TypeOK
<1>. IInv => TypeOK BY DEF IInv
<1>. QED BY Invariance, PTL

\* For any number of calls, Sessions and indexes: two of them share an index
\* only after a disconnection took it off the list while one still had it,
\* and an index in use is otherwise on the list (AddAddressToConnection).
THEOREM Lease == Spec => []UniqueLease
<1>. IInv => UniqueLease BY DEF IInv
<1>. QED BY Invariance, PTL

\* An index on the list without holder was left behind by one of the failures
\* and races that LeakOnlyByFailure names (doDisconnect, DoInitConnect).
THEOREM NoOtherLeak == Spec => []LeakOnlyByFailure
<1>. IInv => LeakOnlyByFailure BY DEF IInv
<1>. QED BY Invariance, PTL

\* A connected Session has a stream that serves or disconnects it, unless its
\* last save failed or the API server restarted (Connect, doDisconnect).
THEOREM Served == Spec => []ConnectedIsServed
<1>. IInv => ConnectedIsServed BY DEF IInv
<1>. QED BY Invariance, PTL

\* SendMessage and BroadcastMessage never use a stream whose handler has
\* returned (addConnectedSess, removeConnectedSess).
THEOREM NoDangling == Spec => []NoDanglingStream
<1>. IInv => NoDanglingStream BY DEF IInv
<1>. QED BY Invariance, PTL

=============================================================================
