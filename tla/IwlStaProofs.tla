---------------------------- MODULE IwlStaProofs ----------------------------
(***************************************************************************)
(* The station keeps its promises for any set of networks, any list of     *)
(* configured ones and any number of requests.                             *)
(***************************************************************************)
EXTENDS IwlSta, SequenceTheorems, TLAPS

(***************************************************************************)
(* Which states of the station each place of the worker knows, and where   *)
(* keys can be under installation.                                         *)
(***************************************************************************)
Waits == {"auth_wait", "assoc_wait", "modify", "key_wait"}
Between == {"auto", "auto_next", "connect"}
Idle == {"scan", "begin", "add", "disconnect", "undo"}

Kinds == {"ptk", "gtk", "group"}

PlaceInv ==
    /\ pc \in {"loop", "scan_wait"} \cup Waits \cup Between \cup Idle
    /\ install \in Seq(Kinds)
    /\ pc \in Between \cup Idle \cup {"scan_wait"} => install = << >>
    /\ pc \in Between \cup {"loop"} => state \in {"FW_LOADED", "CONNECTED"}
    /\ pc \in Idle => state = "FW_LOADED"
    /\ pc \in Waits => state \in Connecting \cup {"FW_LOADED"}
    /\ pc = "scan_wait" => state = "SCANNING"

(***************************************************************************)
(* The contexts: complete, and those of the current AP, from the first     *)
(* authentication request on for as long as the station is on its way up,  *)
(* is up, or has keys under installation; before that, those added so far. *)
(***************************************************************************)
Left == {left[i] : i \in DOMAIN left}
OnItsWay == state \in Connecting \/ install # << >> \/ pc \in Waits

ContextInv ==
    /\ aps \subseteq Nets /\ contexts \subseteq Contexts
    /\ left \in Seq(CtxNames)
    /\ OnItsWay => contexts = CtxNames \X {cur_ap} /\ cur_ssid = cur_ap
    /\ pc = "add" =>
          /\ cur_ap \in Nets /\ cur_ssid = cur_ap
          /\ \A c \in CtxNames \ Left : <<c, cur_ap>> \in contexts
          /\ \A x \in contexts : x[1] \notin Left => x[2] = cur_ap

(***************************************************************************)
(* The keys: the first is in before the second is asked for, by whichever  *)
(* call of the handler, and both are in while the station is CONNECTED.    *)
(* Whatever may be installed comes from a nonce of the present attempt:    *)
(* have_ptk is forgotten before the first context is added, and no call of *)
(* the handler is left when the next attempt begins.                       *)
(***************************************************************************)
GtkAsked == \E i \in 1 .. Len(install) : install[i] = "gtk"

KeyInv ==
    /\ keys \subseteq {"ptk", "gtk"}
    /\ GtkAsked => "ptk" \in keys /\ "ptk" \in fresh /\ pairwise_key_set = TRUE
    /\ state = "CONNECTED" =>
          /\ keys = {"ptk", "gtk"} /\ pairwise_key_set = TRUE
          /\ "ptk" \in fresh /\ "gtk" \in fresh

NonceInv ==
    /\ install # << >> \/ state = "CONNECTED" => "nonce" \in fresh
    /\ pc = "add" \/ state \in Connecting => (have_ptk => "nonce" \in fresh)

IInv == PlaceInv /\ ContextInv /\ KeyInv /\ NonceInv

(***************************************************************************)
(* Commands that succeed, besides: an idle station has no context in the   *)
(* firmware, one that is leaving only those still to be removed.           *)
(***************************************************************************)
SlateInv ==
    /\ state = "FW_LOADED" /\ pc \in Between \cup {"loop"} => contexts = {}
    /\ pc \in {"scan", "scan_wait", "begin"} => contexts = {}
    /\ pc \in {"disconnect", "undo"} => \A x \in contexts : x[1] \in Left

(***************************************************************************)
(* Scans that end in time: the firmware has one under way only while       *)
(* do_scan waits for it.                                                   *)
(***************************************************************************)
ScanInv ==
    /\ {scan_done, scan_ready} \subseteq BOOLEAN
    /\ scans = IF pc = "scan_wait" /\ ~scan_done THEN 1 ELSE 0
    /\ pc = "scan_wait" => ~scan_ready

-----------------------------------------------------------------------------
\* do_scan and do_connect return to the worker's loop or to auto_connect_step.
LEMMA ReturnTo ==
    ASSUME NEW ok \in BOOLEAN, Return(ok)
    PROVE  pc' \in {"auto", "auto_next", "loop"}
  BY DEF Return, Goto

\* The first n elements of a sequence.
LEMMA Prefix ==
    ASSUME NEW S, NEW s \in Seq(S), NEW n \in Nat, n <= Len(s)
    PROVE  /\ SubSeq(s, 1, n) \in Seq(S) /\ Len(SubSeq(s, 1, n)) = n
           /\ \A i \in 1 .. n : SubSeq(s, 1, n)[i] = s[i]
<1>1. /\ SubSeq(s, 1, n) \in Seq(S)
      /\ Len(SubSeq(s, 1, n)) = IF 1 <= n THEN n - 1 + 1 ELSE 0
      /\ \A i \in 1 .. n - 1 + 1 : SubSeq(s, 1, n)[i] = s[1 + i - 1]
  <2>1. 1 \in Int /\ n \in Int /\ \A i \in 1 .. n : s[i] \in S
    OBVIOUS
  <2> QED  BY ONLY <2>1, SubSeqProperties
<1>2. n - 1 + 1 = n /\ (IF 1 <= n THEN n - 1 + 1 ELSE 0) = n
  OBVIOUS
<1>3. ASSUME NEW i \in 1 .. n PROVE SubSeq(s, 1, n)[i] = s[i]
  <2>1. 1 + i - 1 = i
    OBVIOUS
  <2> QED  BY <1>1, <1>2, <2>1, Zenon
<1> QED  BY <1>1, <1>2, <1>3, Zenon

\* A call of the key handler that returns, one that is entered, and one that
\* goes on to the group key.
LEMMA Stack ==
    ASSUME install \in Seq(Kinds)
    PROVE  /\ install # << >> /\ Returned =>
                 install' \in Seq(Kinds) /\ (GtkAsked' => GtkAsked)
           /\ \A k \in {"ptk", "group"} : Deeper(k) =>
                 install' \in Seq(Kinds) /\ (GtkAsked' => GtkAsked)
           /\ install # << >> /\ install' = [install EXCEPT ![Len(install)] = "gtk"] =>
                 install' \in Seq(Kinds) /\ install' # << >>
           /\ install # << >> /\ Innermost = "gtk" => GtkAsked
<1>1. Len(install) \in Nat /\ (install # << >> => Len(install) > 0)
  OBVIOUS
<1>2. ASSUME install # << >>, Returned
      PROVE  install' \in Seq(Kinds) /\ (GtkAsked' => GtkAsked)
  <2>1. Len(install) - 1 \in Nat /\ Len(install) - 1 <= Len(install)
    BY <1>1, <1>2
  <2> DEFINE rest == SubSeq(install, 1, Len(install) - 1)
  <2>2. /\ rest \in Seq(Kinds) /\ Len(rest) = Len(install) - 1
        /\ \A i \in 1 .. Len(install) - 1 : rest[i] = install[i]
    BY ONLY install \in Seq(Kinds), <2>1, Prefix, Zenon
  <2>3. install' = rest
    BY <1>2 DEF Returned
  <2> HIDE DEF rest
  <2>4. ASSUME GtkAsked' PROVE GtkAsked
    <3>1. PICK i \in 1 .. Len(rest) : rest[i] = "gtk"
      BY <2>3, <2>4 DEF GtkAsked
    <3>2. i \in 1 .. Len(install)
      BY <1>1, <2>2, <3>1
    <3> QED  BY <2>2, <3>1, <3>2 DEF GtkAsked
  <2> QED  BY <2>2, <2>3, <2>4
<1>3. ASSUME NEW k \in {"ptk", "group"}, Deeper(k)
      PROVE  install' \in Seq(Kinds) /\ (GtkAsked' => GtkAsked)
  <2>1. /\ install' \in Seq(Kinds) /\ Len(install') = Len(install) + 1
        /\ install'[Len(install) + 1] = k
        /\ \A i \in 1 .. Len(install) : install'[i] = install[i]
    BY <1>1, <1>3 DEF Deeper, Kinds
  <2> QED  BY <1>1, <1>3, <2>1 DEF GtkAsked
<1>4. ASSUME install # << >>, install' = [install EXCEPT ![Len(install)] = "gtk"]
      PROVE  install' \in Seq(Kinds) /\ install' # << >>
  BY <1>1, <1>4 DEF Kinds
<1>5. ASSUME install # << >>, Innermost = "gtk" PROVE GtkAsked
  BY <1>1, <1>5 DEF Innermost, GtkAsked
<1> QED  BY <1>2, <1>3, <1>4, <1>5

\* Every step knows the state it leaves the station in.
LEMMA NextPlace ==
    ASSUME PlaceInv, [Next]_vars
    PROVE  PlaceInv'
<1> USE DEF PlaceInv, Waits, Between, Idle, Connecting, At, None
<1>1. CASE UNCHANGED vars
  BY <1>1 DEF vars, mlme, work
<1>2. ASSUME NEW r \in Requests, Enqueue(r) PROVE PlaceInv'
  BY <1>2 DEF Enqueue, mlme, work
<1>3. CASE TakeCmd
  BY <1>3 DEF TakeCmd, Goto, mlme
<1>4. CASE NoCmd
  BY <1>4 DEF NoCmd, Goto, mlme
<1>5. CASE AutoStart
  BY <1>5 DEF AutoStart, Goto, mlme
<1>6. CASE AutoNext
  BY <1>6 DEF AutoNext, Goto, mlme
<1>7. CASE ScanStart
  BY <1>7, ReturnTo DEF ScanStart, Goto
<1>8. CASE ScanEnd
  BY <1>8, ReturnTo DEF ScanEnd, Goto
<1>9. CASE ScanTimeout
  BY <1>9, ReturnTo DEF ScanTimeout
<1>10. CASE ConnectSame
  BY <1>10, ReturnTo DEF ConnectSame, mlme
<1>11. CASE ConnectOther
  BY <1>11 DEF ConnectOther, Goto
<1>12. CASE ConnectIdle
  BY <1>12 DEF ConnectIdle, SeekAp, Goto, mlme
<1>13. CASE NoSuchAp
  BY <1>13, ReturnTo DEF NoSuchAp, mlme
<1>14. CASE Begin
  BY <1>14 DEF Begin, Goto
<1>15. CASE AddContext
  BY <1>15, ReturnTo DEF AddContext, GiveUp, mlme
<1>16. CASE AllocQueue
  BY <1>16, ReturnTo DEF AllocQueue, GiveUp, Goto
<1>17. CASE Authenticated
  BY <1>17 DEF Authenticated, Reached, Goto, mlme
<1>18. CASE Associated
  BY <1>18 DEF Associated, Reached, Goto, mlme
<1>19. CASE Connected
  BY <1>19, ReturnTo DEF Connected, Reached, mlme
<1>20. CASE WaitFailed
  BY <1>20 DEF WaitFailed, Fail, Goto
<1>21. CASE ModifyMac
  BY <1>21 DEF ModifyMac, Fail, Goto, mlme
<1>22. CASE RemoveContext
  BY <1>22 DEF RemoveContext, mlme
<1>23. CASE Disconnected
  BY <1>23 DEF Disconnected, SeekAp, Goto
<1>24. CASE Undone
  BY <1>24, ReturnTo DEF Undone, GiveUp, mlme
<1>25. CASE InstallPtk
  BY <1>25, Stack DEF InstallPtk
<1>26. CASE InstallGtk \/ InstallGroup
  BY <1>26, Stack DEF InstallGtk, InstallGroup
<1>27. CASE Rx
  <2>1. ASSUME NEW n \in Nets, RxAuth(n) \/ RxAssoc(n) \/ RxDeauth(n)
        PROVE  PlaceInv'
    BY <2>1 DEF RxAuth, RxAssoc, RxDeauth, SetState, Polling, work
  <2>2. ASSUME NEW n \in Nets, RxBeacon(n) PROVE PlaceInv'
    BY <2>2 DEF RxBeacon, mlme, work
  <2>3. CASE RxMsg1 \/ RxScanComplete
    BY <2>3 DEF RxMsg1, RxScanComplete, mlme, work
  <2>4. CASE RxMsg3 \/ RxGroup
    BY <2>4, Stack DEF RxMsg3, RxGroup, RxEapol, Polling, mlme
  <2> QED  BY <1>27, <2>1, <2>2, <2>3, <2>4 DEF Rx
<1> HIDE DEF PlaceInv
<1> QED
  BY <1>1, <1>2, <1>3, <1>4, <1>5, <1>6, <1>7, <1>8, <1>9, <1>10, <1>11, <1>12,
     <1>13, <1>14, <1>15, <1>16, <1>17, <1>18, <1>19, <1>20, <1>21, <1>22, <1>23,
     <1>24, <1>25, <1>26, <1>27 DEF Next, Worker, Install

-----------------------------------------------------------------------------
\* Steps that neither touch contexts nor take the station on its way.
LEMMA ContextKept ==
    ASSUME ContextInv, UNCHANGED <<contexts, cur_ap, cur_ssid>>,
           aps' \subseteq Nets, left' \in Seq(CtxNames), OnItsWay' => OnItsWay,
           pc' = "add" => pc = "add" /\ left' = left
    PROVE  ContextInv'
<1>1. contexts' = contexts /\ cur_ap' = cur_ap /\ cur_ssid' = cur_ssid
  OBVIOUS
<1>2. left' = left => Left' = Left
  BY DEF Left
<1> QED  BY <1>1, <1>2 DEF ContextInv

\* Steps after which the station is down.
LEMMA ContextDown ==
    ASSUME aps' \subseteq Nets, contexts' \subseteq Contexts,
           left' \in Seq(CtxNames), ~OnItsWay', pc' # "add"
    PROVE  ContextInv'
  BY DEF ContextInv

\* What is left after one of them is done.
LEMMA LeftTail ==
    ASSUME left \in Seq(CtxNames), left # << >>, left' = Tail(left)
    PROVE  Left \subseteq Left' \cup {Head(left)}
<1> SUFFICES ASSUME NEW c \in Left, c # Head(left) PROVE c \in Left'
  OBVIOUS
<1>1. PICK i \in DOMAIN left : c = left[i]
  BY DEF Left
<1>2. i # 1
  BY <1>1
<1>3. i - 1 \in DOMAIN Tail(left) /\ Tail(left)[i - 1] = left[i]
  BY ONLY left \in Seq(CtxNames), left # << >>, <1>1, <1>2
<1>4. Left' = {Tail(left)[j] : j \in DOMAIN Tail(left)}
  BY DEF Left
<1> QED  BY <1>1, <1>3, <1>4

\* The contexts one by one, and the removals.
LEMMA NextContext ==
    ASSUME PlaceInv, PlaceInv', ContextInv, [Next]_vars
    PROVE  ContextInv'
<1>0. aps \subseteq Nets /\ contexts \subseteq Contexts /\ left \in Seq(CtxNames)
  BY DEF ContextInv
<1>1. AddOrder \in Seq(CtxNames) /\ RemoveOrder \in Seq(CtxNames)
      /\ << >> \in Seq(CtxNames) /\ (left # << >> => Tail(left) \in Seq(CtxNames))
  BY <1>0 DEF AddOrder, RemoveOrder, CtxNames
<1>2. (pc \in Idle \cup Between \cup {"loop", "scan_wait"}
          /\ state \in {"FW_LOADED", "SCANNING"} /\ install = << >>) => ~OnItsWay
  BY DEF OnItsWay, Idle, Between, Waits, Connecting
<1>3. (pc' \in Idle \cup Between \cup {"loop", "scan_wait"}
          /\ state' \in {"FW_LOADED", "SCANNING"} /\ install' = << >>) => ~OnItsWay'
  BY DEF OnItsWay, Idle, Between, Waits, Connecting
<1>4. CASE UNCHANGED <<contexts, cur_ap, cur_ssid, pc, state, install, aps, left>>
  <2>1. OnItsWay' => OnItsWay
    BY <1>4 DEF OnItsWay
  <2> QED  BY <1>0, <1>4, <2>1, ContextKept
<1>5. CASE UNCHANGED vars \/ (\E r \in Requests : Enqueue(r)) \/ RxMsg1
           \/ RxScanComplete
  BY <1>4, <1>5 DEF vars, Enqueue, RxMsg1, RxScanComplete, mlme, scan, fw, work
<1>6. CASE TakeCmd \/ NoCmd \/ AutoStart \/ AutoNext \/ ConnectSame \/ ConnectIdle
  <2>1. UNCHANGED <<contexts, cur_ap, cur_ssid, state, install, aps, left>>
    BY <1>6 DEF TakeCmd, NoCmd, AutoStart, AutoNext, ConnectSame, ConnectIdle,
       mlme, scan, fw
  <2>2. pc \notin Waits /\ pc' \notin Waits \cup {"add"}
    BY <1>6, ReturnTo DEF TakeCmd, NoCmd, AutoStart, AutoNext, ConnectSame,
       ConnectIdle, SeekAp, Goto, At, Waits
  <2>3. OnItsWay' => OnItsWay
    BY <2>1, <2>2 DEF OnItsWay
  <2> QED  BY <1>0, <2>1, <2>2, <2>3, ContextKept
<1>7. CASE ScanStart \/ ScanEnd \/ ScanTimeout \/ ConnectOther \/ Disconnected
  <2>1. UNCHANGED contexts /\ aps' \subseteq Nets /\ left' \in Seq(CtxNames)
    BY <1>0, <1>1, <1>7 DEF ScanStart, ScanEnd, ScanTimeout, ConnectOther,
       Disconnected, scan, fw
  <2>2. state' \in {"FW_LOADED", "SCANNING"} /\ install' = << >>
    BY <1>7 DEF ScanStart, ScanEnd, ScanTimeout, ConnectOther, Disconnected, At,
       PlaceInv, Idle
  <2>3. pc' \in {"scan_wait", "auto", "auto_next", "loop", "begin", "disconnect",
                 "scan"}
    BY <1>7, ReturnTo DEF ScanStart, ScanEnd, ScanTimeout, ConnectOther,
       Disconnected, SeekAp, Goto
  <2>4. ~OnItsWay'
    BY <1>3, <2>2, <2>3 DEF Idle, Between
  <2> QED  BY <1>0, <2>1, <2>3, <2>4, ContextDown
<1>8. CASE NoSuchAp \/ Undone
  <2>1. UNCHANGED <<contexts, aps, left>>
    BY <1>8 DEF NoSuchAp, Undone, scan, fw
  <2>2. state' = "FW_LOADED" /\ install' = << >>
    BY <1>8 DEF NoSuchAp, Undone, At, PlaceInv, Idle, mlme
  <2>3. pc' \in {"auto", "auto_next", "loop"}
    BY <1>8, ReturnTo DEF NoSuchAp, Undone, GiveUp
  <2>4. ~OnItsWay'
    BY <1>3, <2>2, <2>3 DEF Between
  <2> QED  BY <1>0, <2>1, <2>3, <2>4, ContextDown
<1>9. CASE Begin
  <2>1. /\ UNCHANGED <<contexts, aps, state, install>>
        /\ left' = AddOrder /\ cur_ap' = job.ssid /\ cur_ssid' = job.ssid
        /\ pc' = "add" /\ pc = "begin" /\ install = << >> /\ job.ssid \in Nets
    BY <1>0, <1>9 DEF Begin, At, Goto, scan, fw
  <2>2. Left' = CtxNames
    <3>1. Left' = {AddOrder[i] : i \in 1 .. 4}
      BY <2>1 DEF Left, AddOrder
    <3>2. 1 .. 4 = {1, 2, 3, 4}
      OBVIOUS
    <3>3. Left' = {AddOrder[1], AddOrder[2], AddOrder[3], AddOrder[4]}
      BY <3>1, <3>2
    <3> QED  BY <3>3 DEF AddOrder, CtxNames
  <2>3. ~OnItsWay'
    BY <1>3, <2>1 DEF PlaceInv, Idle
  <2>4. \A x \in contexts : x[1] \in CtxNames
    BY <1>0 DEF Contexts
  <2> QED  BY <1>0, <1>1, <2>1, <2>2, <2>3, <2>4 DEF ContextInv
<1>10. CASE AddContext
  <2>1. /\ pc = "add" /\ left # << >> /\ install = << >> /\ state = "FW_LOADED"
        /\ UNCHANGED <<aps, state, install, cur_ap>>
    BY <1>10 DEF AddContext, At, PlaceInv, Idle, mlme, scan
  <2>2. Head(left) \in CtxNames /\ cur_ap \in Nets
    BY <1>0, <2>1 DEF ContextInv
  <2>3. contexts' \subseteq Contexts
    BY <1>0, <1>10, <2>2 DEF AddContext, Without, Contexts
  <2>4. ~OnItsWay'
    <3>1. pc' \in {"add", "auto", "auto_next", "loop"}
      BY <1>10, <2>1, ReturnTo DEF AddContext, GiveUp
    <3> QED  BY <1>3, <2>1, <3>1 DEF Idle, Between
  <2>5. CASE pc' # "add"
    <3>1. left' \in Seq(CtxNames)
      BY <1>1, <1>10, <2>1 DEF AddContext
    <3> QED  BY <1>0, <2>1, <2>3, <2>4, <2>5, <3>1, ContextDown
  <2>6. CASE pc' = "add"
    <3>1. /\ contexts' = Without(Head(left)) \cup {<<Head(left), cur_ap>>}
          /\ left' = Tail(left) /\ cur_ssid' = cur_ssid
      BY <1>10, <2>6, ReturnTo DEF AddContext, Outcomes, GiveUp
    <3>2. left' \in Seq(CtxNames)
      BY <1>1, <2>1, <3>1
    <3>3. Left \subseteq Left' \cup {Head(left)}
      BY <1>0, <2>1, <3>1, LeftTail
    <3>4. ASSUME NEW c \in CtxNames \ Left' PROVE <<c, cur_ap>> \in contexts'
      BY <2>1, <3>1, <3>3 DEF ContextInv, Without
    <3>5. ASSUME NEW x \in contexts', x[1] \notin Left' PROVE x[2] = cur_ap
      BY <2>1, <3>1, <3>3, <3>5 DEF ContextInv, Without
    <3> QED  BY <1>0, <2>1, <2>2, <2>3, <2>4, <3>1, <3>2, <3>4, <3>5 DEF ContextInv
  <2> QED  BY <2>5, <2>6
<1>11. CASE AllocQueue
  <2>1. /\ pc = "add" /\ left = << >> /\ install = << >>
        /\ UNCHANGED <<aps, contexts, install, cur_ap, left>>
    BY <1>11 DEF AllocQueue, At, scan, fw
  <2>2. contexts = CtxNames \X {cur_ap} /\ cur_ssid = cur_ap
    <3>1. Left = {}
      BY <2>1 DEF Left
    <3>2. \A x \in contexts : x = <<x[1], x[2]>> /\ x[1] \in CtxNames
      BY <1>0 DEF Contexts
    <3>3. /\ \A c \in CtxNames : <<c, cur_ap>> \in contexts
          /\ \A x \in contexts : x[2] = cur_ap
          /\ cur_ssid = cur_ap
      BY <2>1, <3>1 DEF ContextInv
    <3> QED  BY <3>2, <3>3
  <2>3. CASE pc' = "auth_wait" /\ UNCHANGED cur_ssid
    BY <1>0, <2>1, <2>2, <2>3 DEF ContextInv
  <2>4. CASE pc' \in {"auto", "auto_next", "loop"} /\ UNCHANGED state
    <3>1. ~OnItsWay'
      BY <1>3, <2>1, <2>4 DEF PlaceInv, Idle, Between
    <3> QED  BY <1>0, <2>1, <2>4, <3>1, ContextDown
  <2> QED  BY <1>11, <2>3, <2>4, ReturnTo DEF AllocQueue, GiveUp, Goto
<1>12. CASE Authenticated \/ Associated \/ Connected
  <2>1. UNCHANGED <<contexts, cur_ap, cur_ssid, state, install, aps, left>>
        /\ pc \in Waits
    BY <1>12 DEF Authenticated, Associated, Connected, Reached, mlme, scan, fw, At,
       Waits
  <2>2. pc' # "add"
    BY <1>12, ReturnTo DEF Authenticated, Associated, Connected, Reached, Goto
  <2>3. OnItsWay' => OnItsWay
    BY <2>1 DEF OnItsWay
  <2> QED  BY <1>0, <2>1, <2>2, <2>3, ContextKept
<1>13. CASE WaitFailed \/ ModifyMac
  <2>1. CASE Fail /\ install = << >>
    <3>1. /\ UNCHANGED <<contexts, aps>> /\ left' = RemoveOrder
          /\ state' = "FW_LOADED" /\ install' = << >> /\ pc' = "undo"
      BY <2>1 DEF Fail, Goto, scan, fw
    <3>2. ~OnItsWay'
      BY <1>3, <3>1 DEF Idle
    <3> QED  BY <1>0, <1>1, <3>1, <3>2, ContextDown
  <2>2. CASE pc = "modify" /\ pc' = "key_wait"
             /\ UNCHANGED <<contexts, cur_ap, cur_ssid, state, install, aps, left>>
    <3>1. OnItsWay
      BY <2>2 DEF OnItsWay, Waits
    <3> QED  BY <1>0, <2>2, <3>1, ContextKept
  <2> QED
    BY <1>13, <2>1, <2>2 DEF WaitFailed, ModifyMac, At, Goto, mlme, scan, fw
<1>14. CASE RemoveContext
  <2>1. /\ UNCHANGED <<aps, state, install, pc>> /\ install = << >>
        /\ pc \in {"disconnect", "undo"} /\ left' = Tail(left) /\ left # << >>
    BY <1>14 DEF RemoveContext, At, mlme, scan
  <2>2. contexts' \subseteq Contexts
    BY <1>0, <1>14 DEF RemoveContext, Without
  <2>3. ~OnItsWay'
    BY <1>3, <2>1 DEF PlaceInv, Idle
  <2> QED  BY <1>0, <1>1, <2>1, <2>2, <2>3, ContextDown
<1>15. CASE Install
  <2>1. UNCHANGED <<contexts, cur_ap, cur_ssid, pc, aps, left>> /\ install # << >>
    BY <1>15 DEF Install, InstallPtk, InstallGtk, InstallGroup, scan
  <2>2. OnItsWay
    BY <2>1 DEF OnItsWay
  <2> QED  BY <1>0, <2>1, <2>2, ContextKept
<1>16. ASSUME NEW n \in Nets, RxAuth(n) \/ RxAssoc(n) \/ RxDeauth(n)
       PROVE  ContextInv'
  <2>1. UNCHANGED <<contexts, cur_ap, cur_ssid, pc, install, aps, left>>
        /\ state \in Connecting
    BY <1>16 DEF RxAuth, RxAssoc, RxDeauth, SetState, Connecting, scan, fw, work
  <2>2. OnItsWay
    BY <2>1 DEF OnItsWay
  <2> QED  BY <1>0, <2>1, <2>2, ContextKept
<1>17. ASSUME NEW n \in Nets, RxBeacon(n) PROVE ContextInv'
  <2>1. UNCHANGED <<contexts, cur_ap, cur_ssid, pc, install, state, left>>
        /\ aps' \subseteq Nets
    BY <1>0, <1>17 DEF RxBeacon, mlme, fw, work
  <2>2. OnItsWay' => OnItsWay
    BY <2>1 DEF OnItsWay
  <2> QED  BY <1>0, <2>1, <2>2, ContextKept
<1>18. CASE RxMsg3 \/ RxGroup
  <2>1. UNCHANGED <<contexts, cur_ap, cur_ssid, pc, aps, left>>
        /\ state \in Connecting
    BY <1>18 DEF RxMsg3, RxGroup, RxEapol, Connecting, mlme, scan, fw
  <2>2. OnItsWay
    BY <2>1 DEF OnItsWay
  <2> QED  BY <1>0, <2>1, <2>2, ContextKept
<1> QED
  BY <1>5, <1>6, <1>7, <1>8, <1>9, <1>10, <1>11, <1>12, <1>13, <1>14, <1>15,
     <1>16, <1>17, <1>18 DEF Next, Worker, Rx

-----------------------------------------------------------------------------
\* The keys, in the order of iwlm_mlme_rx_eapol.
LEMMA NextKey ==
    ASSUME PlaceInv, PlaceInv', KeyInv, NonceInv, [Next]_vars
    PROVE  KeyInv'
<1>0. install \in Seq(Kinds)
  BY DEF PlaceInv
<1>1. CASE UNCHANGED <<keys, pairwise_key_set, fresh>> /\ (GtkAsked' => GtkAsked)
           /\ (state' = "CONNECTED" => state = "CONNECTED")
  BY <1>1 DEF KeyInv
<1>2. CASE keys' \subseteq {"ptk", "gtk"} /\ state' # "CONNECTED" /\ install' = << >>
  <2>1. ~GtkAsked'
    BY <1>2 DEF GtkAsked
  <2> QED  BY <1>2, <2>1 DEF KeyInv
<1>3. CASE UNCHANGED install /\ UNCHANGED <<keys, pairwise_key_set, fresh>>
           /\ (state' = "CONNECTED" => state = "CONNECTED")
  <2>1. GtkAsked' => GtkAsked
    BY <1>3 DEF GtkAsked
  <2> QED  BY <1>1, <1>3, <2>1
<1>4. CASE UNCHANGED vars \/ (\E r \in Requests : Enqueue(r)) \/ RxScanComplete
  BY <1>3, <1>4 DEF vars, Enqueue, RxScanComplete, mlme, flags, fw, work
<1>5. CASE TakeCmd \/ NoCmd \/ AutoStart \/ AutoNext \/ ConnectSame \/ ConnectIdle
  BY <1>3, <1>5 DEF TakeCmd, NoCmd, AutoStart, AutoNext, ConnectSame, ConnectIdle,
     mlme, flags, fw
<1>6. CASE ScanStart \/ ScanEnd \/ ScanTimeout
  BY <1>3, <1>6 DEF ScanStart, ScanEnd, ScanTimeout, flags, fw
<1>7. CASE NoSuchAp \/ Undone \/ AddContext \/ AllocQueue
  BY <1>3, <1>7 DEF NoSuchAp, Undone, AddContext, AllocQueue, mlme, flags, fw
<1>8. CASE Begin \/ Disconnected \/ RemoveContext
  <2>1. pc \in Idle /\ install = << >> /\ UNCHANGED <<state, install>>
    BY <1>8 DEF Begin, Disconnected, RemoveContext, At, Idle, mlme
  <2>2. keys' \subseteq {"ptk", "gtk"}
    BY <1>8 DEF Begin, Disconnected, RemoveContext, KeyInv, fw
  <2> QED  BY <1>2, <2>1, <2>2 DEF PlaceInv
<1>9. CASE Authenticated \/ Associated \/ Connected
  BY <1>3, <1>9 DEF Authenticated, Associated, Connected, Reached, mlme, flags, fw
<1>10. CASE WaitFailed \/ ModifyMac \/ ConnectOther
  <2>1. CASE keys' = keys /\ state' = "FW_LOADED" /\ install' = << >>
    BY <1>2, <2>1 DEF KeyInv
  <2>2. CASE UNCHANGED <<install, keys, pairwise_key_set, fresh, state>>
    BY <1>3, <2>2
  <2> QED
    BY <1>10, <2>1, <2>2 DEF WaitFailed, ModifyMac, ConnectOther, Fail, At, mlme,
       flags, fw
<1>11. CASE InstallPtk
  <2>1. PICK o \in Outcomes :
          /\ SecKeyAdd("ptk", o)
          /\ pairwise_key_set' = (o.ok \/ pairwise_key_set)
          /\ ~o.ok => Returned
    BY <1>11 DEF InstallPtk
  <2>2. install # << >> /\ "nonce" \in fresh /\ UNCHANGED state
    BY <1>11 DEF InstallPtk, NonceInv
  <2>3. /\ keys \subseteq keys' /\ keys' \subseteq {"ptk", "gtk"}
        /\ fresh \subseteq fresh' /\ (pairwise_key_set = TRUE => pairwise_key_set' = TRUE)
        /\ o.ok => "ptk" \in keys' /\ "ptk" \in fresh' /\ pairwise_key_set' = TRUE
    BY <2>1, <2>2 DEF SecKeyAdd, KeyInv, Outcomes
  <2>4. ~o.ok => (GtkAsked' => GtkAsked)
    BY <1>0, <2>1, <2>2, Stack
  <2> QED  BY <2>2, <2>3, <2>4 DEF KeyInv
<1>12. CASE InstallGtk
  <2>1. PICK o \in Outcomes :
          /\ SecKeyAdd("gtk", o)
          /\ state' = IF o.ok THEN "CONNECTED" ELSE state
    BY <1>12 DEF InstallGtk
  <2>2. /\ install # << >> /\ Innermost = "gtk" /\ Returned
        /\ "nonce" \in fresh /\ UNCHANGED pairwise_key_set
    BY <1>12 DEF InstallGtk, NonceInv
  <2>3. GtkAsked /\ (GtkAsked' => GtkAsked)
    BY <1>0, <2>2, Stack
  <2>4. /\ keys \subseteq keys' /\ keys' \subseteq {"ptk", "gtk"}
        /\ fresh \subseteq fresh' /\ (o.ok => "gtk" \in keys' /\ "gtk" \in fresh')
    BY <2>1, <2>2 DEF SecKeyAdd, KeyInv, Outcomes
  <2> QED  BY <2>1, <2>2, <2>3, <2>4 DEF KeyInv
<1>13. CASE InstallGroup
  <2>1. PICK o \in Outcomes : SecKeyAdd("gtk", o)
    BY <1>13 DEF InstallGroup
  <2>2. GtkAsked' => GtkAsked
    BY <1>0, <1>13, Stack DEF InstallGroup
  <2>3. /\ keys \subseteq keys' /\ keys' \subseteq {"ptk", "gtk"}
        /\ fresh \subseteq fresh'
    BY <2>1 DEF SecKeyAdd, KeyInv
  <2>4. UNCHANGED <<state, pairwise_key_set>>
    BY <1>13 DEF InstallGroup
  <2> QED  BY <2>2, <2>3, <2>4 DEF KeyInv
<1>14. ASSUME NEW n \in Nets, RxAuth(n) \/ RxAssoc(n) \/ RxDeauth(n) \/ RxBeacon(n)
       PROVE  KeyInv'
  BY <1>3, <1>14 DEF RxAuth, RxAssoc, RxDeauth, RxBeacon, SetState, mlme, flags, fw,
     work
<1>15. CASE RxMsg1
  <2>1. /\ UNCHANGED <<keys, pairwise_key_set, install, state>>
        /\ fresh \subseteq fresh'
    BY <1>15 DEF RxMsg1, fw, work
  <2>2. GtkAsked' => GtkAsked
    BY <2>1 DEF GtkAsked
  <2> QED  BY <2>1, <2>2 DEF KeyInv
<1>16. CASE RxMsg3 \/ RxGroup
  <2>1. GtkAsked' => GtkAsked
    BY <1>0, <1>16, Stack DEF RxMsg3, RxGroup
  <2> QED  BY <1>1, <1>16, <2>1 DEF RxMsg3, RxGroup, mlme, flags, fw
<1> QED
  BY <1>4, <1>5, <1>6, <1>7, <1>8, <1>9, <1>10, <1>11, <1>12, <1>13, <1>14, <1>15,
     <1>16 DEF Next, Worker, Install, Rx

\* No nonce but one of the present attempt is ever used.
LEMMA NextNonce ==
    ASSUME PlaceInv, NonceInv, [Next]_vars
    PROVE  NonceInv'
<1>1. CASE UNCHANGED <<fresh, have_ptk, install>>
           /\ (state' = "CONNECTED" => state = "CONNECTED")
           /\ (pc' = "add" \/ state' \in Connecting => pc = "add" \/ state \in Connecting)
  BY <1>1 DEF NonceInv
<1>2. CASE install' = << >> /\ pc' # "add" /\ state' \notin Connecting
  BY <1>2 DEF NonceInv, Connecting
<1>3. CASE fresh \subseteq fresh' /\ UNCHANGED <<have_ptk, pc>>
           /\ "nonce" \in fresh
  BY <1>3 DEF NonceInv
<1>4. CASE UNCHANGED vars \/ (\E r \in Requests : Enqueue(r)) \/ RxScanComplete
  BY <1>1, <1>4 DEF vars, Enqueue, RxScanComplete, mlme, flags, work
<1>5. CASE TakeCmd \/ NoCmd \/ AutoStart \/ AutoNext \/ ConnectSame \/ ConnectIdle
  BY <1>1, <1>5, ReturnTo DEF TakeCmd, NoCmd, AutoStart, AutoNext, ConnectSame,
     ConnectIdle, SeekAp, Goto, mlme, flags
<1>6. CASE ScanStart \/ ScanEnd \/ ScanTimeout
  BY <1>2, <1>6, ReturnTo DEF ScanStart, ScanEnd, ScanTimeout, Goto, At, Connecting
<1>7. CASE NoSuchAp \/ Undone \/ Disconnected \/ RemoveContext
  <2>1. pc \in {"begin", "undo", "disconnect"} /\ install' = << >> /\ UNCHANGED state
    BY <1>7 DEF NoSuchAp, Undone, Disconnected, RemoveContext, At, mlme
  <2>2. pc' # "add"
    BY <1>7, <2>1, ReturnTo DEF NoSuchAp, Undone, Disconnected, RemoveContext, GiveUp,
       SeekAp, Goto
  <2> QED  BY <1>2, <2>1, <2>2 DEF PlaceInv, Idle, Connecting
<1>8. CASE Begin
  <2>1. pc = "begin" /\ install' = << >> /\ have_ptk' = FALSE /\ UNCHANGED state
    BY <1>8 DEF Begin, At
  <2> QED  BY <2>1 DEF NonceInv, PlaceInv, Idle
<1>9. CASE AddContext \/ AllocQueue
  <2>1. pc = "add" /\ UNCHANGED <<fresh, have_ptk, install>> /\ state' # "CONNECTED"
    BY <1>9 DEF AddContext, AllocQueue, At, PlaceInv, Idle, mlme, flags
  <2> QED  BY <1>1, <2>1
<1>10. CASE Authenticated \/ Associated \/ Connected
  BY <1>1, <1>10, ReturnTo DEF Authenticated, Associated, Connected, Reached, Goto,
     mlme, flags
<1>11. CASE WaitFailed \/ ModifyMac \/ ConnectOther
  <2>1. CASE state' = "FW_LOADED" /\ install' = << >> /\ pc' # "add"
    BY <1>2, <2>1 DEF Connecting
  <2>2. CASE UNCHANGED <<install, have_ptk, fresh, state>> /\ pc' # "add"
    BY <1>1, <2>2
  <2> QED
    BY <1>11, <2>1, <2>2 DEF WaitFailed, ModifyMac, ConnectOther, Fail, Goto, At,
       mlme, flags
<1>12. CASE Install
  <2>1. install # << >> /\ UNCHANGED <<have_ptk, pc>> /\ fresh \subseteq fresh'
    BY <1>12 DEF Install, InstallPtk, InstallGtk, InstallGroup, SecKeyAdd
  <2> QED  BY <1>3, <2>1 DEF NonceInv
<1>13. ASSUME NEW n \in Nets, RxAuth(n) \/ RxAssoc(n) \/ RxDeauth(n) \/ RxBeacon(n)
       PROVE  NonceInv'
  BY <1>1, <1>13 DEF RxAuth, RxAssoc, RxDeauth, RxBeacon, SetState, Connecting, mlme,
     flags, work
<1>14. CASE RxMsg1
  BY <1>14 DEF RxMsg1, NonceInv
<1>15. CASE RxMsg3 \/ RxGroup
  <2>1. "nonce" \in fresh /\ UNCHANGED <<fresh, have_ptk, pc>>
    BY <1>15 DEF RxMsg3, RxGroup, RxEapol, NonceInv, Connecting, mlme, flags
  <2> QED  BY <1>3, <2>1
<1> QED
  BY <1>4, <1>5, <1>6, <1>7, <1>8, <1>9, <1>10, <1>11, <1>12, <1>13, <1>14, <1>15
     DEF Next, Worker, Rx

\* IInv is inductive.
LEMMA IInvHolds == Init /\ [][Next]_vars => []IInv
<1>1. Init => IInv
  BY DEF Init, IInv, PlaceInv, ContextInv, KeyInv, NonceInv, GtkAsked, OnItsWay, Waits,
     Between, Idle, Connecting
<1>2. IInv /\ [Next]_vars => IInv'
  BY NextPlace, NextContext, NextKey, NextNonce DEF IInv
<1> QED  BY <1>1, <1>2, PTL

(***************************************************************************)
(* Whatever commands fail and whenever the AP leaves, a station that       *)
(* reports CONNECTED has all its contexts and both keys in the firmware,   *)
(* those of the AP it names.                                               *)
(***************************************************************************)
THEOREM ConnectedIsRealHolds == Spec => []ConnectedIsReal
<1>1. IInv => ConnectedIsReal
  BY DEF IInv, ContextInv, KeyInv, ConnectedIsReal, OnItsWay, Connecting
<1> QED  BY <1>1, IInvHolds, PTL DEF Spec

(***************************************************************************)
(* Whatever fails, however late a message of the handshake comes and       *)
(* however deep its handlers nest, a station that is CONNECTED has in the  *)
(* firmware two keys that this attempt has installed, from a nonce the AP  *)
(* sent during it.                                                         *)
(***************************************************************************)
THEOREM KeysOfThisAttemptHolds == Spec => []KeysOfThisAttempt
<1>1. IInv => KeysOfThisAttempt
  BY DEF IInv, KeyInv, NonceInv, KeysOfThisAttempt
<1> QED  BY <1>1, IInvHolds, PTL DEF Spec

(***************************************************************************)
(* The one-slot mailbox loses, repeats and reorders no request.            *)
(***************************************************************************)
THEOREM CmdsInOrderHolds == Spec => []CmdsInOrder
<1>1. Init => CmdsInOrder
  BY DEF Init, CmdsInOrder
<1>2. CmdsInOrder /\ [Next]_vars => CmdsInOrder'
  <2> SUFFICES ASSUME CmdsInOrder, [Next]_vars PROVE CmdsInOrder'
    OBVIOUS
  <2>1. CASE UNCHANGED mailbox
    BY <2>1 DEF CmdsInOrder, mailbox
  <2>2. CASE TakeCmd
    BY <2>2 DEF TakeCmd, CmdsInOrder
  <2>3. ASSUME NEW r \in Requests, Enqueue(r) PROVE CmdsInOrder'
    <3>1. r # NoJob
      BY DEF Requests, NoJob, None
    <3> QED  BY <2>3, <3>1 DEF Enqueue, CmdsInOrder
  <2>4. CASE NoCmd \/ AutoStart \/ AutoNext \/ ScanStart \/ ScanEnd \/ ScanTimeout
             \/ ConnectSame \/ ConnectOther \/ ConnectIdle
    BY <2>1, <2>4 DEF NoCmd, AutoStart, AutoNext, ScanStart, ScanEnd, ScanTimeout,
       ConnectSame, ConnectOther, ConnectIdle
  <2>5. CASE NoSuchAp \/ Begin \/ AddContext \/ AllocQueue \/ RemoveContext
             \/ Disconnected \/ Undone
    BY <2>1, <2>5 DEF NoSuchAp, Begin, AddContext, AllocQueue, RemoveContext,
       Disconnected, Undone
  <2>6. CASE Authenticated \/ Associated \/ Connected \/ WaitFailed \/ ModifyMac
    BY <2>1, <2>6 DEF Authenticated, Associated, Connected, Reached, WaitFailed,
       ModifyMac, Fail
  <2>7. CASE Install
    BY <2>1, <2>7 DEF Install, InstallPtk, InstallGtk, InstallGroup
  <2>8. CASE Rx
    BY <2>1, <2>8 DEF Rx, RxAuth, RxAssoc, RxDeauth, RxBeacon, SetState, RxMsg1,
       RxMsg3, RxGroup, RxScanComplete
  <2>9. CASE UNCHANGED vars
    BY <2>1, <2>9 DEF vars
  <2> QED
    BY <2>2, <2>3, <2>4, <2>5, <2>6, <2>7, <2>8, <2>9 DEF Next, Worker
<1> QED  BY <1>1, <1>2, PTL DEF Spec

-----------------------------------------------------------------------------
\* Commands that succeed.
LEMMA Succeeds == ~FwFails => \A o \in Outcomes : o.done = TRUE /\ o.ok = TRUE
  BY DEF Outcomes

\* The list of removals covers all contexts.
LEMMA AllLeft == left' = RemoveOrder => Left' = CtxNames
<1> SUFFICES ASSUME left' = RemoveOrder PROVE Left' = CtxNames
  OBVIOUS
<1>1. Left' = {RemoveOrder[i] : i \in 1 .. 4}
  BY DEF Left, RemoveOrder
<1>2. 1 .. 4 = {1, 2, 3, 4}
  OBVIOUS
<1>3. Left' = {RemoveOrder[1], RemoveOrder[2], RemoveOrder[3], RemoveOrder[4]}
  BY <1>1, <1>2
<1> QED  BY <1>3 DEF RemoveOrder, CtxNames

\* Every way down removes what the way up has added.
LEMMA NextSlate ==
    ASSUME ~FwFails, ~ApLeaves, IInv, SlateInv, [Next]_vars
    PROVE  SlateInv'
<1>0. contexts \subseteq Contexts /\ left \in Seq(CtxNames) /\ PlaceInv
  BY DEF IInv, ContextInv
<1>1. CASE UNCHANGED <<contexts, pc, state, left>>
  BY <1>1 DEF SlateInv, Left
<1>2. CASE contexts' = {} /\ pc' \notin {"disconnect", "undo"}
  BY <1>2 DEF SlateInv
<1>3. CASE pc' \in Waits \cup {"add"}
  BY <1>3 DEF SlateInv, Waits, Between
<1>4. CASE state' # "FW_LOADED" /\ pc' \in Between \cup {"loop"}
  BY <1>4 DEF SlateInv, Between
<1>5. CASE UNCHANGED contexts /\ pc' \in {"disconnect", "undo"} /\ left' = RemoveOrder
  <2>1. \A x \in contexts : x[1] \in CtxNames
    BY <1>0 DEF Contexts
  <2>2. Left' = CtxNames
    BY <1>5, AllLeft
  <2> QED  BY <1>5, <2>1, <2>2 DEF SlateInv, Between
<1>6. CASE UNCHANGED vars \/ (\E r \in Requests : Enqueue(r)) \/ RxMsg1
           \/ RxScanComplete \/ RxMsg3 \/ RxGroup \/ InstallPtk \/ InstallGroup
           \/ \E n \in Nets : RxBeacon(n)
  BY <1>1, <1>6 DEF vars, Enqueue, RxMsg1, RxScanComplete, RxMsg3, RxGroup, InstallPtk,
     InstallGroup, RxBeacon, mlme, fw, work
<1>7. CASE TakeCmd \/ NoCmd \/ AutoStart \/ AutoNext \/ ConnectIdle
  <2>1. /\ UNCHANGED <<contexts, state>> /\ pc \in Between \cup {"loop"}
        /\ pc' \in Between \cup {"loop", "scan", "begin"}
        /\ pc' \in {"scan", "begin"} => state = "FW_LOADED"
    BY <1>0, <1>7 DEF TakeCmd, NoCmd, AutoStart, AutoNext, ConnectIdle, SeekAp, Goto,
       At, Between, PlaceInv, mlme, fw
  <2>2. state \in {"FW_LOADED", "CONNECTED"}
    BY <1>0, <2>1 DEF PlaceInv
  <2>3. CASE state = "FW_LOADED"
    BY <1>2, <2>1, <2>3 DEF SlateInv, Between
  <2>4. CASE state = "CONNECTED"
    BY <1>4, <2>1, <2>4 DEF Between
  <2> QED  BY <2>2, <2>3, <2>4
<1>8. CASE ScanStart \/ ScanEnd \/ ScanTimeout \/ NoSuchAp
  <2>1. UNCHANGED contexts /\ pc \in {"scan", "scan_wait", "begin"}
    BY <1>8 DEF ScanStart, ScanEnd, ScanTimeout, NoSuchAp, At, fw
  <2>2. pc' \in {"scan_wait", "begin", "auto", "auto_next", "loop"}
    BY <1>8, ReturnTo DEF ScanStart, ScanEnd, ScanTimeout, NoSuchAp, Goto
  <2> QED  BY <1>2, <2>1, <2>2 DEF SlateInv
<1>9. CASE ConnectSame \/ Connected
  <2>1. state' = "CONNECTED" /\ pc' \in {"auto", "auto_next", "loop"}
    BY <1>9, ReturnTo DEF ConnectSame, Connected, Reached, mlme
  <2> QED  BY <1>4, <2>1 DEF Between
<1>10. CASE ConnectOther \/ WaitFailed
  BY <1>5, <1>10 DEF ConnectOther, WaitFailed, Fail, Goto, fw
<1>11. CASE Begin \/ AddContext \/ AllocQueue \/ ModifyMac
  BY <1>3, <1>11, Succeeds DEF Begin, AddContext, AllocQueue, ModifyMac, Goto, At,
     Waits
<1>12. CASE Authenticated \/ Associated
  BY <1>3, <1>12 DEF Authenticated, Associated, Reached, Goto, Waits
<1>13. CASE RemoveContext
  <2>1. /\ contexts' = Without(Head(left)) /\ left' = Tail(left) /\ left # << >>
        /\ UNCHANGED <<pc, state>> /\ pc \in {"disconnect", "undo"}
    BY <1>13, Succeeds DEF RemoveContext, At, mlme
  <2>2. Left \subseteq Left' \cup {Head(left)}
    BY <1>0, <2>1, LeftTail
  <2>3. \A x \in contexts' : x \in contexts /\ x[1] # Head(left)
    BY <2>1 DEF Without
  <2> QED  BY <2>1, <2>2, <2>3 DEF SlateInv, Between
<1>14. CASE Disconnected \/ Undone
  <2>1. UNCHANGED contexts /\ left = << >> /\ pc \in {"disconnect", "undo"}
    BY <1>14 DEF Disconnected, Undone, At, fw
  <2>2. contexts = {}
    BY <2>1 DEF SlateInv, Left
  <2>3. pc' \in {"auto", "auto_next", "loop", "begin", "scan"}
    BY <1>14, ReturnTo DEF Disconnected, Undone, SeekAp, GiveUp, Goto
  <2> QED  BY <1>2, <2>1, <2>2, <2>3
<1>15. CASE InstallGtk
  <2>1. UNCHANGED <<contexts, pc, left>> /\ state' \in {state, "CONNECTED"}
        /\ pc \notin {"scan", "scan_wait", "begin", "disconnect", "undo"}
    BY <1>0, <1>15 DEF InstallGtk, PlaceInv, Between, Idle
  <2> QED  BY <1>0, <1>1, <1>3, <1>4, <2>1 DEF PlaceInv, Idle, Between, Waits
<1>16. ASSUME NEW n \in Nets, RxAuth(n) \/ RxAssoc(n) \/ RxDeauth(n)
       PROVE  SlateInv'
  <2>1. state \in {"AUTHENTICATING", "ASSOCIATING"} /\ UNCHANGED pc
    BY <1>16 DEF RxAuth, RxAssoc, RxDeauth, SetState, Connecting, work
  <2>2. pc \in Waits
    BY <1>0, <2>1 DEF PlaceInv
  <2> QED  BY <1>3, <2>1, <2>2
<1> QED
  BY <1>6, <1>7, <1>8, <1>9, <1>10, <1>11, <1>12, <1>13, <1>14, <1>15, <1>16
     DEF Next, Worker, Install, Rx

(***************************************************************************)
(* With commands that succeed and an AP that stays, iwlm_mvm_connect adds  *)
(* its first context to a firmware that holds none, also when scans or     *)
(* waits time out.                                                         *)
(***************************************************************************)
THEOREM CleanSlateHolds == ~FwFails /\ ~ApLeaves => (Spec => []CleanSlate)
<1> SUFFICES ASSUME ~FwFails, ~ApLeaves PROVE Spec => []CleanSlate
  OBVIOUS
<1>1. Init => SlateInv
  BY DEF Init, SlateInv
<1>2. IInv /\ SlateInv /\ [Next]_vars => SlateInv'
  BY NextSlate
<1>3. SlateInv => CleanSlate
  BY DEF SlateInv, CleanSlate
<1> QED  BY <1>1, <1>2, <1>3, IInvHolds, PTL DEF Spec

-----------------------------------------------------------------------------
\* One scan at a time, and none but the one waited for.
LEMMA NextScan ==
    ASSUME ~FwFails, ~ScanLate, ScanInv, [Next]_vars
    PROVE  ScanInv'
<1>1. CASE UNCHANGED <<scan_done, scan_ready, scans, pc>>
  BY <1>1 DEF ScanInv
<1>2. CASE UNCHANGED <<scan_done, scan_ready, scans>> /\ pc # "scan_wait"
           /\ pc' # "scan_wait"
  BY <1>2 DEF ScanInv
<1>3. CASE ScanStart
  <2>1. pc = "scan" /\ pc' = "scan_wait" /\ scans' = scans + 1
        /\ scan_ready' = FALSE /\ scan_done' = FALSE
    BY <1>3, Succeeds DEF ScanStart, Goto, At
  <2>2. scans = 0
    BY <2>1 DEF ScanInv
  <2>3. scans' = 1
    BY ONLY <2>1, <2>2
  <2>4. {scan_done', scan_ready'} \subseteq BOOLEAN
    BY ONLY <2>1
  <2> QED  BY <2>1, <2>3, <2>4, Zenon DEF ScanInv
<1>4. CASE ScanEnd
  <2>1. pc = "scan_wait" /\ scan_done /\ pc' # "scan_wait"
        /\ UNCHANGED <<scans, scan_done>> /\ scan_ready' = TRUE
    BY <1>4, ReturnTo DEF ScanEnd, Goto, At, fw
  <2> QED  BY <2>1 DEF ScanInv
<1>5. CASE ScanTimeout
  BY <1>5 DEF ScanTimeout
<1>6. CASE RxScanComplete
  <2>1. scans > 0 /\ scans' = scans - 1 /\ scan_done' = TRUE
        /\ UNCHANGED <<scan_ready, pc>>
    BY <1>6 DEF RxScanComplete, work
  <2>2. pc = "scan_wait" /\ scans = 1
    BY <2>1 DEF ScanInv
  <2>3. scans' = 0
    BY <2>1, <2>2
  <2> QED  BY <2>1, <2>3 DEF ScanInv
<1>7. CASE TakeCmd \/ NoCmd \/ AutoStart \/ AutoNext \/ ConnectSame
           \/ ConnectOther \/ ConnectIdle
  BY <1>2, <1>7, ReturnTo DEF TakeCmd, NoCmd, AutoStart, AutoNext, ConnectSame,
     ConnectOther, ConnectIdle, SeekAp, Goto, At, scan, fw
<1>8. CASE NoSuchAp \/ Begin \/ AllocQueue \/ Disconnected \/ Undone
  BY <1>2, <1>8, ReturnTo DEF NoSuchAp, Begin, AllocQueue, Disconnected, Undone,
     GiveUp, SeekAp, Goto, At, scan, fw
<1>9. CASE AddContext \/ RemoveContext
  BY <1>2, <1>9, ReturnTo DEF AddContext, RemoveContext, GiveUp, At, scan
<1>10. CASE Authenticated \/ Associated \/ Connected
  BY <1>2, <1>10, ReturnTo DEF Authenticated, Associated, Connected, Reached, Goto,
     At, scan, fw
<1>11. CASE WaitFailed \/ ModifyMac
  BY <1>2, <1>11 DEF WaitFailed, ModifyMac, Fail, Goto, At, scan, fw
<1>12. CASE Install
  BY <1>1, <1>12 DEF Install, InstallPtk, InstallGtk, InstallGroup, scan
<1>13. ASSUME NEW n \in Nets, RxAuth(n) \/ RxAssoc(n) \/ RxDeauth(n) \/ RxBeacon(n)
       PROVE  ScanInv'
  BY <1>1, <1>13 DEF RxAuth, RxAssoc, RxDeauth, RxBeacon, SetState, scan, fw, work
<1>14. CASE RxMsg1 \/ RxMsg3 \/ RxGroup \/ UNCHANGED vars
            \/ \E r \in Requests : Enqueue(r)
  BY <1>1, <1>14 DEF RxMsg1, RxMsg3, RxGroup, vars, Enqueue, scan, fw, work
<1> QED
  BY <1>3, <1>4, <1>5, <1>6, <1>7, <1>8, <1>9, <1>10, <1>11, <1>12, <1>13, <1>14
     DEF Next, Worker, Rx

(***************************************************************************)
(* With commands that succeed and scans that end in time, scan_ready means *)
(* that the firmware has no scan under way, even when the AP leaves.       *)
(***************************************************************************)
THEOREM ScanReadyFinishedHolds ==
    ~FwFails /\ ~ScanLate => (Spec => []ScanReadyFinished)
<1> SUFFICES ASSUME ~FwFails, ~ScanLate PROVE Spec => []ScanReadyFinished
  OBVIOUS
<1>1. Init => ScanInv
  BY DEF Init, ScanInv
<1>2. ScanInv /\ [Next]_vars => ScanInv'
  BY NextScan
<1>3. ScanInv => ScanReadyFinished
  BY DEF ScanInv, ScanReadyFinished
<1> QED  BY <1>1, <1>2, <1>3, PTL DEF Spec
=============================================================================
