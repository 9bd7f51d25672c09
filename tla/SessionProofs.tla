---------------------------- MODULE SessionProofs ----------------------------
(***************************************************************************)
(* Proofs about Session, for every value of its constants: its types, and  *)
(* that the indicator tells the truth, refused writes stay disabled, a     *)
(* choice is put back, and the row converges.                              *)
(***************************************************************************)
EXTENDS Session, FiniteSetTheorems, SequenceTheorems, TLAPS

USE DEF workerVars, historyVars, vars

-----------------------------------------------------------------------------
(* The window: a handler changes the row, the access, or what is read.     *)

Window ==
    [connected: BOOLEAN, access: AccessState \cup {None}, denials: SUBSET Write,
     rules_stale: BOOLEAN, visible: BOOLEAN,
     indicator: {"Checking", "Connected", "ReadOnly", "Denied", "Disconnected"},
     banner: {"hidden", "lost", "problem"}, blocks: SUBSET Write,
     known: Versions \cup {None}, selected: Allowed \cup {None}, sensitive: BOOLEAN,
     asking: Allowed \cup {None}, probing: Nat, reading: Nat, listing: Nat]

SameRow(a, b) ==
    /\ a.known = b.known /\ a.selected = b.selected /\ a.sensitive = b.sensitive
    /\ a.asking = b.asking /\ a.blocks = b.blocks
SameAccess(a, b) ==
    /\ a.connected = b.connected /\ a.access = b.access /\ a.denials = b.denials
    /\ a.indicator = b.indicator /\ a.banner = b.banner /\ a.probing = b.probing
SamePage(a, b) ==
    /\ a.rules_stale = b.rules_stale /\ a.visible = b.visible
    /\ a.connected = b.connected /\ a.reading = b.reading

\* The row is on or off as the refusals say.
RowOK(win) ==
    /\ win.blocks = win.denials
    /\ win.sensitive = (Offered(win.known) /\ "Parameters" \notin win.denials)

\* The banner and the indicator agree with the diagnosis.
AccessOK(win) ==
    /\ win.banner # "hidden" => win.indicator # "Checking"
    /\ AccessProblem(win) => win.banner = "problem"
    /\ win.connected /\ ~AccessProblem(win) =>
            win.banner = "hidden" /\ win.indicator = ConnectedIndicator(win)
    /\ win.indicator \in {"Connected", "ReadOnly"} => win.connected /\ win.banner = "hidden"

\* The page is marked, and will ask once it is visible and connected.
Marked(win) == win.rules_stale /\ ~(win.visible /\ win.connected)

\* No mark and no read is lost between two windows.
Cared(a, b) ==
    /\ Marked(a) => Marked(b) \/ b.reading > 0
    /\ a.reading <= b.reading

LEMMA ReloadWindow ==
    ASSUME NEW win \in Window, NEW new, new = ReloadPolicyIfNeeded(win)
    PROVE  /\ new \in Window /\ SameRow(new, win) /\ SameAccess(new, win)
           /\ win.reading <= new.reading /\ new.visible = win.visible
           /\ win.rules_stale => Marked(new) \/ new.reading > 0
<1>1. CASE win.visible /\ win.rules_stale /\ win.connected
  <2>1. new = [win EXCEPT !.rules_stale = FALSE, !.reading = @ + 1]
    BY <1>1 DEF ReloadPolicyIfNeeded
  <2>2. new.reading = win.reading + 1 /\ win.reading \in Nat
    BY <2>1 DEF Window
  <2>3. new \in Window
    <3>1. win.reading + 1 \in Nat
      BY DEF Window
    <3>2. \A n \in Nat : [win EXCEPT !.rules_stale = FALSE, !.reading = n] \in Window
      BY DEF Window
    <3>. QED
      BY <2>1, <3>1, <3>2
  <2>. QED
    BY <2>1, <2>2, <2>3 DEF Window, SameRow, SameAccess
<1>2. CASE ~(win.visible /\ win.rules_stale /\ win.connected)
  <2>1. new = win /\ win.reading \in Nat
    BY <1>2 DEF ReloadPolicyIfNeeded, Window
  <2>. QED
    BY <1>2, <2>1 DEF SameRow, SameAccess, Marked
<1>. QED
  BY <1>1, <1>2

LEMMA MarkWindow ==
    ASSUME NEW win \in Window, NEW new, new = MarkRulesStale(win)
    PROVE  /\ new \in Window /\ SameRow(new, win) /\ SameAccess(new, win)
           /\ win.reading <= new.reading /\ new.visible = win.visible
           /\ Marked(new) \/ new.reading > 0
<1>. DEFINE stale == [win EXCEPT !.rules_stale = TRUE]
<1>1. /\ stale \in Window /\ stale.rules_stale = TRUE
      /\ SameRow(stale, win) /\ SameAccess(stale, win)
      /\ stale.reading = win.reading /\ stale.visible = win.visible
  BY DEF Window, SameRow, SameAccess
<1>2. new = ReloadPolicyIfNeeded(stale)
  BY DEF MarkRulesStale
<1>. HIDE DEF stale
<1>3. /\ new \in Window /\ SameRow(new, stale) /\ SameAccess(new, stale)
      /\ stale.reading <= new.reading /\ new.visible = stale.visible
      /\ stale.rules_stale => Marked(new) \/ new.reading > 0
  BY <1>1, <1>2, ReloadWindow
<1>. QED
  BY <1>1, <1>3 DEF SameRow, SameAccess

LEMMA ShownType == \A version : Shown(version) \in Allowed \cup {None}
BY DEF Shown, Offered

LEMMA SetParameterWindow ==
    ASSUME NEW win \in Window, NEW version \in Versions,
           NEW new, new = SetParameter(win, version)
    PROVE  /\ new \in Window /\ SameAccess(new, win) /\ SamePage(new, win)
           /\ new.known = version /\ new.selected = Shown(version) /\ new.asking = win.asking
           /\ RowOK(win) => RowOK(new)
<1>1. new = [win EXCEPT !.known = version, !.selected = Shown(version),
                        !.sensitive = Offered(version) /\ "Parameters" \notin win.blocks]
  BY DEF SetParameter
<1>2. (Offered(version) /\ "Parameters" \notin win.blocks) \in BOOLEAN
  BY DEF Offered
<1>3. new \in Window
  <2>1. \A s \in Allowed \cup {None}, b \in BOOLEAN :
            [win EXCEPT !.known = version, !.selected = s, !.sensitive = b] \in Window
    BY DEF Window
  <2>. QED
    BY <1>1, <1>2, <2>1, ShownType
<1>4. SameAccess(new, win) /\ SamePage(new, win)
  BY <1>1 DEF Window, SameAccess, SamePage
<1>5. /\ new.known = version /\ new.selected = Shown(version) /\ new.asking = win.asking
      /\ new.sensitive = (Offered(version) /\ "Parameters" \notin win.blocks)
      /\ new.blocks = win.blocks /\ new.denials = win.denials
  BY <1>1 DEF Window
<1>6. RowOK(win) => RowOK(new)
  BY <1>5 DEF RowOK
<1>. QED
  BY <1>3, <1>4, <1>5, <1>6

LEMMA RevertWindow ==
    ASSUME NEW win \in Window, NEW new, new = RevertParameter(win)
    PROVE  /\ new \in Window /\ SameAccess(new, win) /\ SamePage(new, win)
           /\ new.known = win.known /\ new.asking = win.asking
           /\ win.known # None => new.selected = Shown(new.known)
           /\ win.known = None => new.selected = win.selected
           /\ RowOK(win) => RowOK(new)
<1>1. CASE win.known = None
  BY <1>1 DEF RevertParameter, SameAccess, SamePage
<1>2. CASE win.known # None
  <2>1. win.known \in Versions /\ new = SetParameter(win, win.known)
    BY <1>2 DEF Window, RevertParameter
  <2>. QED
    BY <1>2, <2>1, SetParameterWindow
<1>. QED
  BY <1>1, <1>2

LEMMA DenialsWindow ==
    ASSUME NEW win \in Window, NEW new, new = ApplyDenials(win)
    PROVE  /\ new \in Window /\ SamePage(new, win)
           /\ new.known = win.known /\ new.selected = win.selected /\ new.asking = win.asking
           /\ new.access = win.access /\ new.probing = win.probing /\ new.banner = win.banner
           /\ new.denials = win.denials /\ RowOK(new)
           /\ new.indicator = IF win.connected /\ ~AccessProblem(win)
                              THEN ConnectedIndicator(win) ELSE win.indicator
<1>. DEFINE on == Offered(win.known) /\ "Parameters" \notin win.denials
            blocked == [win EXCEPT !.blocks = win.denials, !.sensitive = on]
            shown == IF win.connected /\ ~AccessProblem(win)
                     THEN ConnectedIndicator(win) ELSE win.indicator
<1>1. on \in BOOLEAN
  BY DEF Offered
<1>2. blocked \in Window
  BY <1>1 DEF Window
<1>3. shown \in {"Checking", "Connected", "ReadOnly", "Denied", "Disconnected"}
  BY DEF ConnectedIndicator, Window
<1>4. new = [blocked EXCEPT !.indicator = shown]
  <2>1. blocked.indicator = win.indicator
    BY DEF Window
  <2>2. SetBlocks(win) = blocked
    BY DEF SetBlocks
  <2>. QED
    BY <2>1, <2>2 DEF ApplyDenials
<1>. HIDE DEF blocked, shown
<1>5. new \in Window
  <2>1. \A i \in {"Checking", "Connected", "ReadOnly", "Denied", "Disconnected"}, a \in Window :
            [a EXCEPT !.indicator = i] \in Window
    BY DEF Window
  <2>. QED
    BY <1>2, <1>3, <1>4, <2>1
<1>6. /\ new.blocks = win.denials /\ new.denials = win.denials /\ new.known = win.known
      /\ new.sensitive = on /\ new.indicator = shown /\ SamePage(new, win)
      /\ new.selected = win.selected /\ new.asking = win.asking
      /\ new.access = win.access /\ new.probing = win.probing /\ new.banner = win.banner
  BY <1>4 DEF Window, SamePage, blocked
<1>7. RowOK(new)
  BY <1>6 DEF RowOK
<1>. QED
  BY <1>5, <1>6, <1>7 DEF shown

SameChoice(a, b) == a.known = b.known /\ a.selected = b.selected /\ a.asking = b.asking

\* What a handler makes of a window that is as it should be, whatever it does
\* to the connection.
Handled(a, b) ==
    /\ b \in Window
    /\ RowOK(a) => RowOK(b)
    /\ AccessOK(a) => AccessOK(b)
    /\ Cared(a, b)
    /\ b.access = a.access /\ a.probing <= b.probing

LEMMA HandledTwice ==
    ASSUME NEW a \in Window, NEW b, NEW c, Handled(a, b), Handled(b, c)
    PROVE  Handled(a, c)
<1>1. /\ a.reading \in Nat /\ b.reading \in Nat /\ c.reading \in Nat
      /\ a.probing \in Nat /\ b.probing \in Nat /\ c.probing \in Nat
  BY DEF Handled, Window
<1>2. /\ a.reading <= b.reading /\ b.reading <= c.reading
      /\ a.probing <= b.probing /\ b.probing <= c.probing
  BY DEF Handled, Cared
<1>3. a.reading <= c.reading /\ a.probing <= c.probing /\ (b.reading > 0 => c.reading > 0)
  BY <1>1, <1>2
<1>4. Marked(a) => Marked(c) \/ c.reading > 0
  BY <1>3 DEF Handled, Cared
<1>. QED
  BY <1>3, <1>4 DEF Handled, Cared

LEMMA SameRowKeeps ==
    ASSUME NEW a, NEW b, SameRow(b, a), b.denials = a.denials
    PROVE  RowOK(a) => RowOK(b)
BY DEF SameRow, RowOK

LEMMA SameAccessKeeps ==
    ASSUME NEW a, NEW b, SameAccess(b, a)
    PROVE  AccessOK(a) => AccessOK(b)
BY DEF SameAccess, AccessOK, AccessProblem, ConnectedIndicator

LEMMA SamePageKeeps ==
    ASSUME NEW a \in Window, NEW b, SamePage(b, a)
    PROVE  Cared(a, b)
<1>1. a.reading \in Nat
  BY DEF Window
<1>. QED
  BY <1>1 DEF SamePage, Cared, Marked

LEMMA ReloadHandled ==
    ASSUME NEW win \in Window, NEW new, new = ReloadPolicyIfNeeded(win)
    PROVE  /\ Handled(win, new) /\ SameChoice(new, win) /\ new.connected = win.connected
           /\ new.visible = win.visible
<1>1. /\ new \in Window /\ SameRow(new, win) /\ SameAccess(new, win)
      /\ win.reading <= new.reading /\ new.visible = win.visible
      /\ win.rules_stale => Marked(new) \/ new.reading > 0
  BY ReloadWindow
<1>2. win.probing \in Nat
  BY DEF Window
<1>3. Cared(win, new)
  BY <1>1 DEF Cared, Marked
<1>. QED
  BY <1>1, <1>2, <1>3, SameRowKeeps, SameAccessKeeps DEF Handled, SameChoice, SameRow, SameAccess

LEMMA MarkHandled ==
    ASSUME NEW win \in Window, NEW new, new = MarkRulesStale(win)
    PROVE  /\ Handled(win, new) /\ SameChoice(new, win) /\ new.connected = win.connected
           /\ Marked(new) \/ new.reading > 0
<1>1. /\ new \in Window /\ SameRow(new, win) /\ SameAccess(new, win)
      /\ win.reading <= new.reading /\ new.visible = win.visible
      /\ Marked(new) \/ new.reading > 0
  BY MarkWindow
<1>2. win.probing \in Nat
  BY DEF Window
<1>3. Cared(win, new)
  BY <1>1 DEF Cared
<1>. QED
  BY <1>1, <1>2, <1>3, SameRowKeeps, SameAccessKeeps DEF Handled, SameChoice, SameRow, SameAccess

LEMMA SetParameterHandled ==
    ASSUME NEW win \in Window, NEW version \in Versions,
           NEW new, new = SetParameter(win, version)
    PROVE  /\ Handled(win, new) /\ new.connected = win.connected
           /\ new.known = version /\ new.selected = Shown(version) /\ new.asking = win.asking
<1>1. /\ new \in Window /\ SameAccess(new, win) /\ SamePage(new, win)
      /\ new.known = version /\ new.selected = Shown(version) /\ new.asking = win.asking
      /\ RowOK(win) => RowOK(new)
  BY SetParameterWindow
<1>2. win.probing \in Nat
  BY DEF Window
<1>. QED
  BY <1>1, <1>2, SameAccessKeeps, SamePageKeeps DEF Handled, SameAccess

LEMMA RevertHandled ==
    ASSUME NEW win \in Window, NEW new, new = RevertParameter(win)
    PROVE  /\ Handled(win, new) /\ new.connected = win.connected
           /\ new.known = win.known /\ new.asking = win.asking
           /\ win.known # None => new.selected = Shown(new.known)
<1>1. /\ new \in Window /\ SameAccess(new, win) /\ SamePage(new, win)
      /\ new.known = win.known /\ new.asking = win.asking
      /\ win.known # None => new.selected = Shown(new.known)
      /\ RowOK(win) => RowOK(new)
  BY RevertWindow
<1>2. win.probing \in Nat
  BY DEF Window
<1>. QED
  BY <1>1, <1>2, SameAccessKeeps, SamePageKeeps DEF Handled, SameAccess

\* Refusals change the indicator with the controls.
LEMMA ReportHandled ==
    ASSUME NEW win \in Window, NEW write \in Write, NEW error,
           NEW new, new = Report(win, write, error)
    PROVE  Handled(win, new) /\ SameChoice(new, win) /\ new.connected = win.connected
<1>0. win.probing \in Nat /\ win.reading \in Nat
  BY DEF Window
<1>1. CASE new = win
  BY <1>0, <1>1 DEF Handled, SameChoice, Cared
<1>2. CASE new = DenyWrite(win, write)
  <2>. DEFINE denied == [win EXCEPT !.denials = @ \cup {write}]
  <2>1. /\ denied \in Window /\ SamePage(denied, win) /\ SameChoice(denied, win)
        /\ denied.access = win.access /\ denied.probing = win.probing
        /\ denied.banner = win.banner /\ denied.indicator = win.indicator
    BY DEF Window, SamePage, SameChoice
  <2>2. new = ApplyDenials(denied)
    BY <1>2 DEF DenyWrite
  <2>. HIDE DEF denied
  <2>3. /\ new \in Window /\ SamePage(new, denied)
        /\ new.known = denied.known /\ new.selected = denied.selected /\ new.asking = denied.asking
        /\ new.access = denied.access /\ new.probing = denied.probing /\ new.banner = denied.banner
        /\ new.denials = denied.denials /\ RowOK(new)
        /\ new.indicator = IF denied.connected /\ ~AccessProblem(denied)
                           THEN ConnectedIndicator(denied) ELSE denied.indicator
    BY <2>1, <2>2, DenialsWindow
  <2>4. SamePage(new, win) /\ SameChoice(new, win)
    BY <2>1, <2>3 DEF SamePage, SameChoice
  <2>5. AccessOK(win) => AccessOK(new)
    BY <2>1, <2>3 DEF AccessOK, AccessProblem, ConnectedIndicator, SamePage
  <2>. QED
    BY <1>0, <2>1, <2>3, <2>4, <2>5, SamePageKeeps DEF Handled, SamePage
<1>. QED
  BY <1>1, <1>2 DEF Report

\* The list of devices makes the connection.
LEMMA SnapshotHandled ==
    ASSUME NEW win \in Window, NEW new, new = ApplySnapshot(win)
    PROVE  /\ Handled(win, new) /\ SameChoice(new, win) /\ new.connected = TRUE
           /\ UnreachableReported(win) => new.probing > 0
<1>. DEFINE live == [win EXCEPT !.connected = TRUE]
            next == IF UnreachableReported(live) THEN [live EXCEPT !.probing = @ + 1]
                    ELSE IF AccessProblem(live) THEN live
                    ELSE [live EXCEPT !.banner = "hidden", !.indicator = ConnectedIndicator(live)]
<1>1. new = ReloadPolicyIfNeeded(next)
  BY DEF ApplySnapshot
<1>2. /\ live \in Window /\ live.connected = TRUE /\ SameRow(live, win) /\ SameChoice(live, win)
      /\ live.access = win.access /\ live.denials = win.denials /\ live.probing = win.probing
      /\ live.banner = win.banner /\ live.indicator = win.indicator
      /\ live.rules_stale = win.rules_stale /\ live.reading = win.reading
      /\ live.visible = win.visible
      /\ win.probing \in Nat /\ win.reading \in Nat
  BY DEF Window, SameRow, SameChoice
<1>. HIDE DEF live
<1>3. ConnectedIndicator(live) \in {"Connected", "ReadOnly"}
  BY DEF ConnectedIndicator
<1>4. /\ next \in Window /\ SameRow(next, live) /\ SameChoice(next, live)
      /\ next.connected = TRUE /\ next.access = live.access /\ next.denials = live.denials
      /\ live.probing <= next.probing /\ (UnreachableReported(live) => next.probing > 0)
      /\ next.rules_stale = live.rules_stale /\ next.reading = live.reading
      /\ next.visible = live.visible
      /\ AccessProblem(live) => next.banner = live.banner /\ next.indicator = live.indicator
      /\ ~AccessProblem(live) => next.banner = "hidden" /\ next.indicator = ConnectedIndicator(live)
  <2>1. CASE UnreachableReported(live)
    <3>1. AccessProblem(live)
      BY <2>1, NoneIsAbsent DEF UnreachableReported, AccessProblem, AccessState, Unreachable
    <3>2. live.probing + 1 \in Nat /\ live.probing + 1 > 0 /\ live.probing <= live.probing + 1
      BY <1>2
    <3>3. \A n \in Nat : [live EXCEPT !.probing = n] \in Window
      BY <1>2 DEF Window
    <3>4. next = [live EXCEPT !.probing = live.probing + 1]
      BY <2>1
    <3>. QED
      BY <1>2, <2>1, <3>1, <3>2, <3>3, <3>4 DEF Window, SameRow, SameChoice
  <2>2. CASE ~UnreachableReported(live) /\ AccessProblem(live)
    <3>1. next = live
      BY <2>2
    <3>. HIDE DEF next
    <3>. QED
      BY <1>2, <2>2, <3>1 DEF SameRow, SameChoice
  <2>3. CASE ~UnreachableReported(live) /\ ~AccessProblem(live)
    <3>1. next = [live EXCEPT !.banner = "hidden", !.indicator = ConnectedIndicator(live)]
      BY <2>3
    <3>2. \A i \in {"Connected", "ReadOnly"} :
              [live EXCEPT !.banner = "hidden", !.indicator = i] \in Window
      BY <1>2 DEF Window
    <3>. HIDE DEF next
    <3>3. next \in Window
      BY <1>3, <3>1, <3>2
    <3>. QED
      BY <1>2, <2>3, <3>1, <3>3 DEF Window, SameRow, SameChoice
  <2>. QED
    BY <2>1, <2>2, <2>3
<1>. HIDE DEF next
<1>5. RowOK(win) => RowOK(next)
  BY <1>2, <1>4 DEF RowOK, SameRow
<1>6. AccessOK(win) => AccessOK(next)
  <2>1. AccessProblem(next) = AccessProblem(win) /\ AccessProblem(live) = AccessProblem(win)
    BY <1>2, <1>4 DEF AccessProblem
  <2>2. ConnectedIndicator(next) = ConnectedIndicator(live)
    BY <1>4 DEF ConnectedIndicator
  <2>. QED
    BY <1>2, <1>3, <1>4, <2>1, <2>2 DEF AccessOK
<1>7. /\ Handled(next, new) /\ SameChoice(new, next) /\ new.connected = TRUE
      /\ new.visible = next.visible
      /\ next.reading <= new.reading
      /\ next.rules_stale => Marked(new) \/ new.reading > 0
  BY <1>1, <1>4, ReloadHandled, ReloadWindow
<1>8. Cared(win, new)
  BY <1>2, <1>4, <1>7 DEF Cared, Marked
<1>9. new.probing \in Nat /\ next.probing \in Nat /\ live.probing \in Nat
  BY <1>2, <1>4, <1>7 DEF Handled, Window
<1>10. win.probing <= new.probing /\ (UnreachableReported(win) => new.probing > 0)
  BY <1>2, <1>4, <1>7, <1>9 DEF Handled, UnreachableReported
<1>. QED
  BY <1>2, <1>4, <1>5, <1>6, <1>7, <1>8, <1>10 DEF Handled, SameChoice

LEMMA LostHandled ==
    ASSUME NEW win \in Window, NEW new, new = ApplyConnectionLost(win)
    PROVE  Handled(win, new) /\ SameChoice(new, win) /\ new.connected = FALSE
<1>. DEFINE banner == IF AccessProblem(win) THEN win.banner ELSE "lost"
<1>1. new = [win EXCEPT !.connected = FALSE, !.indicator = "Disconnected", !.banner = banner]
  BY DEF ApplyConnectionLost
<1>2. banner \in {"hidden", "lost", "problem"}
  BY DEF Window
<1>. HIDE DEF banner
<1>3. new \in Window
  BY <1>1, <1>2 DEF Window
<1>4. /\ SameRow(new, win) /\ SameChoice(new, win) /\ new.denials = win.denials
      /\ new.connected = FALSE /\ new.indicator = "Disconnected" /\ new.banner = banner
      /\ new.access = win.access /\ new.probing = win.probing
      /\ new.rules_stale = win.rules_stale /\ new.visible = win.visible
      /\ new.reading = win.reading /\ win.probing \in Nat /\ win.reading \in Nat
  BY <1>1 DEF Window, SameRow, SameChoice
<1>5. AccessOK(win) => AccessOK(new)
  BY <1>4 DEF AccessOK, AccessProblem, banner
<1>6. Cared(win, new)
  BY <1>4 DEF Cared, Marked
<1>. QED
  BY <1>3, <1>4, <1>5, <1>6, SameRowKeeps DEF Handled

LEMMA ReconnectedHandled ==
    ASSUME NEW win \in Window, NEW new, new = ApplyReconnected(win)
    PROVE  /\ Handled(win, new) /\ SameChoice(new, win) /\ new.connected = win.connected
           /\ new.probing > 0
<1>. DEFINE cleared == [win EXCEPT !.rules_stale = TRUE, !.denials = {}]
            denied == ApplyDenials(cleared)
<1>1. new = [denied EXCEPT !.probing = @ + 1]
  BY DEF ApplyReconnected
<1>2. /\ cleared \in Window /\ SameChoice(cleared, win)
      /\ cleared.access = win.access /\ cleared.probing = win.probing
      /\ cleared.banner = win.banner /\ cleared.indicator = win.indicator
      /\ cleared.connected = win.connected /\ cleared.visible = win.visible
      /\ cleared.rules_stale = TRUE /\ cleared.reading = win.reading
      /\ win.probing \in Nat /\ win.reading \in Nat
  BY DEF Window, SameChoice
<1>. HIDE DEF cleared
<1>3. /\ denied \in Window /\ SamePage(denied, cleared)
      /\ denied.known = cleared.known /\ denied.selected = cleared.selected
      /\ denied.asking = cleared.asking
      /\ denied.access = cleared.access /\ denied.probing = cleared.probing
      /\ denied.banner = cleared.banner
      /\ denied.denials = cleared.denials /\ RowOK(denied)
      /\ denied.indicator = IF cleared.connected /\ ~AccessProblem(cleared)
                            THEN ConnectedIndicator(cleared) ELSE cleared.indicator
  BY <1>2, DenialsWindow
<1>. HIDE DEF denied
<1>4. denied.probing + 1 \in Nat /\ denied.probing + 1 > 0 /\ win.probing <= denied.probing + 1
  BY <1>2, <1>3
<1>5. new \in Window
  <2>1. \A n \in Nat : [denied EXCEPT !.probing = n] \in Window
    BY <1>3 DEF Window
  <2>. QED
    BY <1>1, <1>4, <2>1
<1>6. /\ SameRow(new, denied) /\ SamePage(new, denied) /\ SameChoice(new, denied)
      /\ new.denials = denied.denials /\ new.access = denied.access
      /\ new.banner = denied.banner /\ new.indicator = denied.indicator
      /\ new.probing = denied.probing + 1
  BY <1>1, <1>3 DEF Window, SameRow, SamePage, SameChoice
<1>7. RowOK(new)
  BY <1>3, <1>6, SameRowKeeps
<1>8. AccessOK(win) => AccessOK(new)
  BY <1>2, <1>3, <1>6 DEF AccessOK, AccessProblem, ConnectedIndicator, SamePage
<1>9. Cared(win, new)
  BY <1>2, <1>3, <1>6 DEF Cared, Marked, SamePage
<1>. QED
  BY <1>2, <1>3, <1>4, <1>5, <1>6, <1>7, <1>8, <1>9 DEF Handled, SameChoice, SamePage

LEMMA AccessHandled ==
    ASSUME NEW win \in Window, NEW access \in AccessState,
           NEW new, new = ApplyAccess(win, access)
    PROVE  /\ new \in Window /\ SamePage(new, win) /\ SameRow(new, win)
           /\ new.denials = win.denials /\ new.access = access /\ new.probing = win.probing
           /\ AccessOK(win) => AccessOK(new)
<1>1. access # None
  BY NoneIsAbsent
<1>2. CASE access = "Ok" /\ win.connected
  <2>1. new = [win EXCEPT !.access = access, !.indicator = ConnectedIndicator(win),
                          !.banner = "hidden"]
    BY <1>2 DEF ApplyAccess
  <2>2. ConnectedIndicator(win) \in {"Connected", "ReadOnly"}
    BY DEF ConnectedIndicator
  <2>3. new \in Window
    <3>1. \A i \in {"Connected", "ReadOnly"} :
              [win EXCEPT !.access = access, !.indicator = i, !.banner = "hidden"] \in Window
      BY DEF Window
    <3>. QED
      BY <2>1, <2>2, <3>1
  <2>4. /\ SamePage(new, win) /\ SameRow(new, win) /\ new.denials = win.denials
        /\ new.access = access /\ new.probing = win.probing /\ new.banner = "hidden"
        /\ new.indicator = ConnectedIndicator(win)
    BY <2>1 DEF Window, SamePage, SameRow
  <2>5. AccessOK(new)
    BY <1>2, <2>2, <2>4 DEF AccessOK, AccessProblem, ConnectedIndicator, SamePage
  <2>. QED
    BY <2>3, <2>4, <2>5
<1>3. CASE access = "Ok" /\ ~win.connected
  <2>1. new = [win EXCEPT !.access = access]
    BY <1>3 DEF ApplyAccess
  <2>2. new \in Window
    BY <2>1 DEF Window
  <2>3. /\ SamePage(new, win) /\ SameRow(new, win) /\ new.denials = win.denials
        /\ new.access = access /\ new.probing = win.probing /\ new.banner = win.banner
        /\ new.indicator = win.indicator
    BY <2>1 DEF Window, SamePage, SameRow
  <2>4. AccessOK(win) => AccessOK(new)
    BY <1>3, <2>3 DEF AccessOK, AccessProblem, SamePage
  <2>. QED
    BY <2>2, <2>3, <2>4
<1>4. CASE access # "Ok"
  <2>. DEFINE shown == IF access \in Denials THEN "Denied" ELSE "Disconnected"
  <2>1. new = [win EXCEPT !.access = access, !.banner = "problem", !.indicator = shown]
    BY <1>4 DEF ApplyAccess
  <2>2. shown \in {"Denied", "Disconnected"}
    OBVIOUS
  <2>. HIDE DEF shown
  <2>3. new \in Window
    BY <2>1, <2>2 DEF Window
  <2>4. /\ SamePage(new, win) /\ SameRow(new, win) /\ new.denials = win.denials
        /\ new.access = access /\ new.probing = win.probing /\ new.banner = "problem"
        /\ new.indicator = shown
    BY <2>1 DEF Window, SamePage, SameRow
  <2>5. AccessOK(new)
    BY <1>1, <1>4, <2>2, <2>4 DEF AccessOK, AccessProblem
  <2>. QED
    BY <2>3, <2>4, <2>5
<1>. QED
  BY <1>2, <1>3, <1>4

LEMMA FinishHandled ==
    ASSUME NEW win \in Window, NEW write \in Write, NEW result,
           NEW new, new = Finish(win, write, result)
    PROVE  /\ Handled(win, new) /\ SameChoice(new, win) /\ new.connected = win.connected
           /\ result.type = "Inconclusive" => Marked(new) \/ new.reading > 0
<1>. DEFINE listed == [win EXCEPT !.listing = @ + 1]
            reread == IF result.type = "Inconclusive" THEN MarkRulesStale(listed) ELSE win
<1>1. new = IF write = "Rules" THEN MarkRulesStale(reread) ELSE reread
  BY DEF Finish
<1>0. win.reading \in Nat /\ win.probing \in Nat /\ win.listing + 1 \in Nat
  BY DEF Window
<1>2. Handled(win, win) /\ SameChoice(win, win)
  BY <1>0 DEF Handled, SameChoice, Cared
<1>3. Handled(win, listed) /\ SameChoice(listed, win) /\ listed.connected = win.connected
  <2>1. listed \in Window
    <3>1. \A n \in Nat : [win EXCEPT !.listing = n] \in Window
      BY DEF Window
    <3>. QED
      BY <1>0, <3>1
  <2>2. /\ SameRow(listed, win) /\ SameAccess(listed, win) /\ SamePage(listed, win)
        /\ SameChoice(listed, win)
    BY DEF Window, SameRow, SameAccess, SamePage, SameChoice
  <2>. HIDE DEF listed
  <2>. QED
    BY <1>0, <2>1, <2>2, SameRowKeeps, SameAccessKeeps, SamePageKeeps DEF Handled, SameAccess
<1>. HIDE DEF listed
<1>4. /\ Handled(win, reread) /\ SameChoice(reread, win) /\ reread.connected = win.connected
      /\ result.type = "Inconclusive" => Marked(reread) \/ reread.reading > 0
  <2>1. CASE result.type = "Inconclusive"
    <3>1. /\ Handled(listed, reread) /\ SameChoice(reread, listed)
          /\ reread.connected = listed.connected
          /\ Marked(reread) \/ reread.reading > 0
      BY <1>3, <2>1, MarkHandled DEF Handled
    <3>. HIDE DEF reread
    <3>. QED
      BY <1>3, <3>1, HandledTwice DEF SameChoice
  <2>2. CASE result.type # "Inconclusive"
    BY <1>2, <2>2
  <2>. QED
    BY <2>1, <2>2
<1>. HIDE DEF reread
<1>5. CASE write = "Rules"
  <2>1. /\ Handled(reread, new) /\ SameChoice(new, reread) /\ new.connected = reread.connected
        /\ Marked(new) \/ new.reading > 0
    BY <1>1, <1>4, <1>5, MarkHandled DEF Handled
  <2>. QED
    BY <1>4, <2>1, HandledTwice DEF SameChoice
<1>6. CASE write # "Rules"
  BY <1>1, <1>4, <1>6
<1>. QED
  BY <1>5, <1>6

\* A refused, failed or unanswered change puts the row back.
LEMMA RefusedHandled ==
    ASSUME NEW win \in Window, NEW version, NEW result, result.type # "Ok",
           NEW new, new = FinishParameter(win, version, result)
    PROVE  /\ Handled(win, new) /\ new.connected = win.connected
           /\ new.known = win.known /\ new.asking = win.asking
           /\ win.known # None => new.selected = Shown(new.known)
           /\ result.type = "Inconclusive" => Marked(new) \/ new.reading > 0
<1>. DEFINE finished == Finish(win, "Parameters", result)
            reverted == RevertParameter(finished)
<1>1. new = Report(reverted, "Parameters", result)
  BY DEF FinishParameter
<1>2. /\ Handled(win, finished) /\ SameChoice(finished, win)
      /\ finished.connected = win.connected
      /\ result.type = "Inconclusive" => Marked(finished) \/ finished.reading > 0
  BY FinishHandled DEF Write
<1>. HIDE DEF finished
<1>3. finished \in Window
  BY <1>2 DEF Handled
<1>4. /\ Handled(finished, reverted) /\ reverted.connected = finished.connected
      /\ reverted.known = finished.known /\ reverted.asking = finished.asking
      /\ finished.known # None => reverted.selected = Shown(reverted.known)
  BY <1>3, RevertHandled
<1>. HIDE DEF reverted
<1>5. reverted \in Window
  BY <1>4 DEF Handled
<1>6. Handled(reverted, new) /\ SameChoice(new, reverted) /\ new.connected = reverted.connected
  BY <1>1, <1>5, ReportHandled DEF Write
<1>7. Handled(finished, new) /\ Handled(win, new)
  BY <1>2, <1>3, <1>4, <1>6, HandledTwice
<1>8. Marked(finished) \/ finished.reading > 0 => Marked(new) \/ new.reading > 0
  <2>1. finished.reading \in Nat /\ new.reading \in Nat
    BY <1>3, <1>7 DEF Handled, Window
  <2>. QED
    BY <1>7, <2>1 DEF Handled, Cared
<1>. QED
  BY <1>2, <1>4, <1>6, <1>7, <1>8 DEF SameChoice

-----------------------------------------------------------------------------
(* The inductive invariant.                                                *)

WorkerEvent ==
    [type: {"ConnectionLost", "Reconnected", "DeviceSnapshot", "InvalidateRuleCache"}]
    \cup [type: {"ParameterChanged"}, version: Versions]

OpState == [phase: {"idle", "done"}] \cup [phase: {"calling"}, new: Allowed, version: Nat]

Typed ==
    /\ values \in Seq(Values) /\ link \in BOOLEAN /\ ever \in BOOLEAN
    /\ feed \in Seq(WorkerEvent) /\ w \in Window
    /\ disturbances \in 0..MaxDisturbances /\ choices \in 0..MaxChoices
    /\ answered \in [Versions -> Nat] /\ op \in [Ops -> OpState]
    /\ heard \in Nat /\ failed \in BOOLEAN /\ late \in BOOLEAN

\* Every version in circulation has been a value.
Happened ==
    /\ \A i \in 1..Len(feed) :
         feed[i].type = "ParameterChanged" => feed[i].version <= Len(values)
    /\ \A v \in Versions : answered[v] > 0 => v <= Len(values)
    /\ \A o \in Ops : op[o].phase = "calling" => op[o].version <= Len(values)
    /\ heard <= Len(values)

\* Each operation changes the value once.
Executed ==
    {o \in Ops : op[o].phase = "done" \/ (op[o].phase = "calling" /\ op[o].version > 0)}
Counted == 1 <= Len(values) /\ Len(values) <= 1 + disturbances + Cardinality(Executed)

\* While a value is asked about or sent there is one to go back to.
Calling == \E o \in Ops : op[o].phase = "calling"
ChoiceOK ==
    /\ w.selected # Shown(w.known) => w.asking # None \/ Calling
    /\ w.asking # None \/ Calling => w.known # None

\* A bridge that was not reachable and lists its devices is probed.
LateOK == UnreachableReported(w) /\ w.connected => late \/ w.probing > 0

\* The window is connected, or will be when it has applied the feed.
NoLossAfter(n) == \A j \in 1..Len(feed) : j > n => feed[j].type # "ConnectionLost"
LiveOK ==
    link => \/ \E i \in 1..Len(feed) : feed[i].type = "DeviceSnapshot" /\ NoLossAfter(i)
            \/ w.connected /\ NoLossAfter(0)

\* The row knows nothing newer than what was heard.
HeardOK ==
    /\ w.known # None => w.known <= heard
    /\ heard > 0 => w.known # None

\* The current value was heard, or will be.
Announced ==
    \E i \in 1..Len(feed) :
        \/ feed[i].type = "InvalidateRuleCache"
        \/ feed[i].type = "ParameterChanged" /\ feed[i].version = Len(values)
Confirmed == \E o \in Ops : op[o].phase = "calling" /\ op[o].version = Len(values)
CurrentOK ==
    \/ heard = Len(values) \/ failed \/ ~link \/ Marked(w) \/ w.reading > 0
    \/ answered[Len(values)] > 0 \/ Announced \/ Confirmed

IInv ==
    /\ Typed /\ Happened /\ Counted /\ RowOK(w) /\ AccessOK(w)
    /\ ChoiceOK /\ LateOK /\ LiveOK /\ HeardOK /\ CurrentOK

-----------------------------------------------------------------------------
(* What the parts come to.                                                 *)

LEMMA VersionsAre ==
    /\ Cardinality(Ops) \in Nat /\ MaxDisturbances \in Nat
    /\ \A v : v \in Versions <=> v \in Nat /\ 1 <= v /\ v <= MaxDisturbances + Cardinality(Ops) + 1
<1>1. Cardinality(Ops) \in Nat /\ MaxDisturbances \in Nat
  BY SessionAssumption, FS_CardinalityType
<1>. QED
  BY <1>1 DEF Versions

LEMMA ExecutedAtMost ==
    /\ IsFiniteSet(Executed) /\ Cardinality(Executed) \in Nat
    /\ Cardinality(Executed) <= Cardinality(Ops)
<1>1. IsFiniteSet(Ops) /\ Executed \subseteq Ops
  BY SessionAssumption DEF Executed
<1>. QED
  BY <1>1, FS_Subset, FS_CardinalityType

LEMMA CurrentIsVersion ==
    ASSUME Typed, Counted
    PROVE  Len(values) \in Versions
<1>1. Len(values) \in Nat /\ disturbances \in Nat /\ disturbances <= MaxDisturbances
  BY VersionsAre DEF Typed
<1>. QED
  BY <1>1, VersionsAre, ExecutedAtMost DEF Counted

LEMMA DiagnosesAreStates == Diagnoses \subseteq AccessState
<1>1. \A err, agent : Classify(err, agent) \in AccessState
  BY DEF Classify, AccessState, Unreachable, Denials
<1>2. \A o \in Outages : Outage[o] \in AccessState
  BY SessionAssumption DEF Outage, AccessState, Unreachable
<1>. QED
  BY <1>1, <1>2 DEF Diagnoses, AccessState

LEMMA RefusalsAreErrors == \A result \in Refusals : result.type # "Ok"
<1>1. \A err : AppError(err).type \in {"Unreachable", "Rejected", "Denied"}
  BY DEF AppError, ToAppError, Error, Denied
<1>2. \A err : MutationError(err).type \in {"Inconclusive", "Rejected", "Denied"}
  BY <1>1 DEF MutationError, Error
<1>. QED
  BY <1>2 DEF Refusals

LEMMA AppendFeed ==
    ASSUME feed \in Seq(WorkerEvent), NEW event \in WorkerEvent, NEW new,
           new = Append(feed, event)
    PROVE  /\ new \in Seq(WorkerEvent) /\ Len(new) = Len(feed) + 1 /\ Len(feed) \in Nat
           /\ \A i \in 1..Len(feed) : new[i] = feed[i]
           /\ new[Len(feed) + 1] = event
OBVIOUS

LEMMA TailFeed ==
    ASSUME feed \in Seq(WorkerEvent), feed # <<>>, NEW new, new = Tail(feed)
    PROVE  /\ new \in Seq(WorkerEvent) /\ Len(new) = Len(feed) - 1
           /\ Len(feed) \in Nat /\ Len(feed) >= 1 /\ Head(feed) = feed[1]
           /\ Head(feed) \in WorkerEvent
           /\ \A i \in 1..Len(feed) - 1 : new[i] = feed[i + 1]
OBVIOUS

-----------------------------------------------------------------------------
(* What steps have in common.                                              *)

LEMMA InitOK == Init => IInv
<1>. SUFFICES ASSUME Init PROVE IInv
  OBVIOUS
<1>1. PICK v \in Allowed : values = <<v>>
  BY DEF Init
<1>2. v \in Values /\ None \notin Allowed /\ Len(values) = 1
  BY <1>1, SessionAssumption
<1>3. PICK mapped \in BOOLEAN, page \in BOOLEAN : w = NewWindow(mapped, page)
  BY DEF Init
<1>4. /\ w.connected = FALSE /\ w.access = None /\ w.denials = {} /\ w.rules_stale = TRUE
      /\ w.visible = page /\ w.indicator = "Checking" /\ w.banner = "hidden" /\ w.blocks = {}
      /\ w.known = None /\ w.selected = None /\ w.sensitive = FALSE /\ w.asking = None
      /\ w.probing \in Nat /\ w.reading = 0
  BY <1>3 DEF NewWindow
<1>5. w \in Window
  BY <1>3 DEF NewWindow, Window, Write
<1>6. Typed
  <2>1. values \in Seq(Values)
    BY <1>1, <1>2
  <2>2. /\ link \in BOOLEAN /\ ever \in BOOLEAN /\ feed \in Seq(WorkerEvent)
        /\ heard \in Nat /\ failed \in BOOLEAN /\ late \in BOOLEAN
    <3>1. link = FALSE /\ ever = FALSE /\ failed = FALSE /\ late = FALSE
      BY DEF Init
    <3>2. feed = <<>> /\ heard = 0
      BY DEF Init
    <3>3. feed \in Seq(WorkerEvent) /\ heard \in Nat
      BY <3>2
    <3>. QED
      BY <3>1, <3>3
  <2>3. disturbances \in 0..MaxDisturbances /\ choices \in 0..MaxChoices
    <3>1. disturbances = 0 /\ choices = 0
      BY DEF Init
    <3>2. MaxDisturbances \in Nat /\ MaxChoices \in Nat
      BY SessionAssumption
    <3>. QED
      BY <3>1, <3>2
  <2>4. answered \in [Versions -> Nat]
    BY DEF Init
  <2>5. op \in [Ops -> OpState]
    BY DEF Init, OpState
  <2>. QED
    BY <1>5, <2>1, <2>2, <2>3, <2>4, <2>5 DEF Typed
<1>7. Happened
  <2>1. /\ \A v0 \in Versions : answered[v0] = 0
        /\ \A o \in Ops : op[o].phase = "idle"
        /\ feed = <<>> /\ heard = 0
    BY DEF Init
  <2>. QED
    BY <1>2, <2>1 DEF Happened
<1>8. Counted
  BY <1>2, ExecutedAtMost DEF Init, Counted
<1>9. RowOK(w) /\ AccessOK(w)
  BY <1>4 DEF RowOK, Offered, AccessOK, AccessProblem
<1>10. ChoiceOK
  <2>1. \A o \in Ops : op[o].phase = "idle"
    BY DEF Init
  <2>. QED
    BY <1>4, <2>1 DEF ChoiceOK, Calling, Shown, Offered
<1>11. LateOK /\ LiveOK /\ HeardOK /\ CurrentOK
  BY <1>4 DEF Init, LateOK, LiveOK, HeardOK, CurrentOK
<1>. QED
  BY <1>6, <1>7, <1>8, <1>9, <1>10, <1>11 DEF IInv

LEMMA TypesFollow == IInv /\ revived \in BOOLEAN => TypeOK
<1>. SUFFICES ASSUME IInv, revived \in BOOLEAN PROVE TypeOK
  OBVIOUS
<1>1. Typed /\ Happened /\ Counted /\ AccessOK(w)
  BY DEF IInv
<1>2. Len(values) \in Versions /\ Len(values) \in Nat /\ \A v \in DOMAIN values : values[v] \in Values
  BY <1>1, CurrentIsVersion DEF Typed
<1>3. DOMAIN values = 1..Len(values) /\ DOMAIN feed = 1..Len(feed)
  BY <1>1 DEF Typed
<1>4. \A i \in DOMAIN feed :
        \/ feed[i].type \in {"ConnectionLost", "Reconnected", "DeviceSnapshot",
                             "InvalidateRuleCache"}
        \/ feed[i].type = "ParameterChanged" /\ feed[i].version \in DOMAIN values
  <2>. SUFFICES ASSUME NEW i \in 1..Len(feed), feed[i].type = "ParameterChanged"
                PROVE  feed[i].version \in 1..Len(values)
    <3>1. \A i \in 1..Len(feed) : feed[i] \in WorkerEvent
      BY <1>1 DEF Typed
    <3>. QED
      BY <1>3, <3>1 DEF WorkerEvent
  <2>1. feed[i].version \in Versions
    BY <1>1 DEF Typed, WorkerEvent
  <2>. QED
    BY <1>1, <1>2, <2>1, VersionsAre DEF Happened
<1>5. w.known \in DOMAIN values \cup {None}
  <2>1. w.known # None => w.known \in Versions /\ w.known <= Len(values) /\ w.known \in Nat
    <3>1. heard \in Nat /\ heard <= Len(values) /\ (w.known # None => w.known <= heard)
      BY <1>1 DEF IInv, Typed, Happened, HeardOK
    <3>2. w.known # None => w.known \in Versions /\ w.known \in Nat
      BY <1>1, VersionsAre DEF Typed, Window
    <3>. QED
      BY <1>2, <3>1, <3>2
  <2>. QED
    BY <1>2, <1>3, <2>1, VersionsAre
<1>6. heard \in 0..Len(values)
  BY <1>1, <1>2 DEF Typed, Happened
<1>7. /\ w.connected \in BOOLEAN /\ w.rules_stale \in BOOLEAN /\ w.visible \in BOOLEAN
      /\ w.access \in AccessState \cup {None}
      /\ w.denials \subseteq Write /\ w.blocks \subseteq Write
      /\ w.indicator \in {"Checking", "Connected", "ReadOnly", "Denied", "Disconnected"}
      /\ w.banner \in {"hidden", "lost", "problem"}
      /\ w.selected \in Allowed \cup {None}
      /\ w.sensitive \in BOOLEAN /\ w.asking \in Allowed \cup {None}
      /\ w.probing \in Nat /\ w.reading \in Nat /\ w.listing \in Nat
  BY <1>1 DEF Typed, Window
<1>8. /\ link \in BOOLEAN /\ ever \in BOOLEAN
      /\ disturbances \in 0..MaxDisturbances /\ choices \in 0..MaxChoices
      /\ answered \in [Versions -> Nat] /\ DOMAIN op = Ops
      /\ failed \in BOOLEAN /\ late \in BOOLEAN
  BY <1>1 DEF Typed
<1>9. \A o \in Ops : op[o].phase \in {"idle", "calling", "done"}
  BY <1>1 DEF Typed, OpState
<1>10. w.banner # "hidden" => w.indicator # "Checking"
  BY <1>1 DEF AccessOK
<1>. QED
  BY <1>2, <1>4, <1>5, <1>6, <1>7, <1>8, <1>9, <1>10 DEF TypeOK

\* A handler that leaves the values and the connection alone.
LEMMA AccessKept ==
    ASSUME IInv, Handled(w, w'), values' = values, w'.connected = w.connected,
           late' = (late /\ w'.probing <= w.probing)
    PROVE  w' \in Window /\ RowOK(w)' /\ AccessOK(w)' /\ LateOK'
<1>1. w \in Window /\ RowOK(w) /\ AccessOK(w) /\ LateOK /\ w' \in Window
  BY DEF IInv, Typed, Handled
<1>2. w.probing \in Nat /\ w'.probing \in Nat
  BY <1>1 DEF Window
<1>3. RowOK(w)'
  BY <1>1 DEF Handled, RowOK, Offered
<1>4. AccessOK(w)'
  BY <1>1 DEF Handled, AccessOK, AccessProblem, ConnectedIndicator
<1>5. LateOK'
  <2>1. w'.probing <= w.probing /\ w.probing <= w'.probing => w'.probing = w.probing
    BY <1>2
  <2>2. w'.probing <= w.probing \/ w'.probing > 0
    BY <1>2
  <2>. QED
    BY <1>1, <2>1, <2>2 DEF Handled, LateOK, UnreachableReported
<1>. QED
  BY <1>1, <1>3, <1>4, <1>5

\* A row that hears a version, or nothing.
LEMMA HearingKept ==
    ASSUME IInv, NEW version \in Versions \cup {None},
           version # None => version <= Len(values) /\ w'.known = version,
           version = None => w'.known = w.known,
           heard' = IF version # None /\ version > heard THEN version ELSE heard
    PROVE  /\ heard' \in Nat /\ heard <= heard' /\ heard' <= Len(values) /\ HeardOK'
           /\ version = Len(values) => heard' = Len(values)
<1>1. /\ heard \in Nat /\ heard <= Len(values) /\ Len(values) \in Nat /\ HeardOK
      /\ w.known \in Versions \cup {None}
  BY DEF IInv, Typed, Happened, Window
<1>2. CASE version = None
  <2>1. Len(values) \in Versions
    BY CurrentIsVersion DEF IInv
  <2>2. version # Len(values)
    BY <1>2, <2>1, NoneIsAbsent
  <2>. QED
    BY <1>1, <1>2, <2>2, NoneIsAbsent DEF HeardOK
<1>3. CASE version # None
  <2>1. version \in Nat
    BY <1>3, VersionsAre
  <2>. QED
    BY <1>1, <1>3, <2>1 DEF HeardOK
<1>. QED
  BY <1>2, <1>3

\* The current value is still to come, or was heard.
LEMMA CurrentKept ==
    ASSUME IInv, values' = values, link' = link, w' \in Window, Cared(w, w'),
           failed' = (failed /\ w'.reading <= w.reading),
           heard' \in Nat, heard <= heard', heard' <= Len(values),
           answered[Len(values)] > 0 => answered'[Len(values)] > 0 \/ heard' = Len(values),
           Announced => Announced' \/ heard' = Len(values) \/ Marked(w') \/ w'.reading > 0,
           Confirmed => Confirmed' \/ heard' = Len(values) \/ Marked(w') \/ w'.reading > 0
    PROVE  CurrentOK'
<1>1. w \in Window /\ heard \in Nat /\ Len(values) \in Nat
  BY DEF IInv, Typed
<1>2. w.reading \in Nat /\ w'.reading \in Nat
  BY <1>1 DEF Window
<1>3. Marked(w)' = Marked(w')
  BY DEF Marked
<1>4. w.reading > 0 => w'.reading > 0
  BY <1>2 DEF Cared
<1>5. failed => failed' \/ w'.reading > 0
  <2>1. w'.reading <= w.reading \/ w'.reading > 0
    BY <1>2
  <2>. QED
    BY <2>1
<1>6. heard = Len(values) => heard' = Len(values)
  BY <1>1
<1>. QED
  BY <1>3, <1>4, <1>5, <1>6 DEF IInv, CurrentOK, Cared

LEMMA LiveKept ==
    ASSUME IInv, link' = link, feed' = feed, w'.connected = w.connected \/ w'.connected = TRUE
    PROVE  LiveOK'
BY DEF IInv, LiveOK, NoLossAfter

LEMMA SameChoiceKept ==
    ASSUME IInv, SameChoice(w', w), op' = op, values' = values
    PROVE  ChoiceOK'
BY DEF IInv, ChoiceOK, Calling, SameChoice, Shown, Offered

LEMMA KnownChoice ==
    ASSUME w'.known # None, w'.selected = Shown(w'.known), values' = values
    PROVE  ChoiceOK'
BY DEF ChoiceOK, Shown, Offered

LEMMA HappenedKept ==
    ASSUME IInv, values' = values, feed' = feed, heard' <= Len(values),
           \A v \in Versions : answered'[v] <= answered[v],
           answered' \in [Versions -> Nat],
           \A o \in Ops : op'[o].phase = "calling" =>
                op[o].phase = "calling" /\ op'[o].version = op[o].version
    PROVE  Happened'
<1>1. answered \in [Versions -> Nat]
  BY DEF IInv, Typed
<1>2. \A v \in Versions : answered'[v] > 0 => answered[v] > 0
  BY <1>1
<1>. QED
  BY <1>2 DEF IInv, Happened

LEMMA CountKept ==
    ASSUME IInv, values' = values, op' = op, disturbances' \in Nat, disturbances <= disturbances'
    PROVE  Counted'
<1>1. Executed' = Executed
  BY DEF Executed
<1>2. disturbances \in Nat /\ Cardinality(Executed) \in Nat /\ Len(values) \in Nat
  BY ExecutedAtMost, VersionsAre DEF IInv, Typed
<1>. QED
  BY <1>1, <1>2 DEF IInv, Counted

-----------------------------------------------------------------------------
(* The daemon and the worker.                                              *)

LEMMA EventVersions ==
    ASSUME feed \in Seq(WorkerEvent), NEW i \in 1..Len(feed), feed[i].type = "ParameterChanged"
    PROVE  feed[i].version \in Versions
<1>1. feed[i] \in WorkerEvent
  OBVIOUS
<1>. QED
  BY <1>1 DEF WorkerEvent

LEMMA Unaffected ==
    ASSUME IInv, w' = w, heard' = heard, late' = late
    PROVE  AccessOK(w)' /\ LateOK' /\ HeardOK'
<1>1. AccessOK(w)'
  BY DEF IInv, AccessOK, AccessProblem, ConnectedIndicator
<1>2. LateOK'
  BY DEF IInv, LateOK, UnreachableReported
<1>3. HeardOK'
  BY DEF IInv, HeardOK
<1>. QED
  BY <1>1, <1>2, <1>3

LEMMA RowUnaffected ==
    ASSUME IInv, w' = w, values' = values, op' = op
    PROVE  RowOK(w)' /\ ChoiceOK'
<1>1. RowOK(w)'
  BY DEF IInv, RowOK, Offered
<1>2. ChoiceOK'
  BY SameChoiceKept DEF SameChoice
<1>. QED
  BY <1>1, <1>2

\* Events other than a loss keep the promise of a connection.
LEMMA FeedGrows ==
    ASSUME IInv, NEW event \in WorkerEvent, event.type # "ConnectionLost",
           feed' = Append(feed, event), link' = link, w' = w
    PROVE  LiveOK'
<1>1. /\ Len(feed') = Len(feed) + 1 /\ Len(feed) \in Nat
      /\ \A i \in 1..Len(feed) : feed'[i] = feed[i]
      /\ feed'[Len(feed) + 1] = event
  BY AppendFeed DEF IInv, Typed
<1>2. \A i \in 1..Len(feed') : i \in 1..Len(feed) \/ i = Len(feed) + 1
  BY <1>1
<1>3. 1..Len(feed) \subseteq 1..Len(feed')
  BY <1>1
<1>4. \A n : NoLossAfter(n) => NoLossAfter(n)'
  BY <1>1, <1>2 DEF NoLossAfter
<1>. QED
  BY <1>1, <1>3, <1>4 DEF IInv, LiveOK

\* The daemon changes the parameter.
LEMMA ChangeKept ==
    ASSUME IInv, NEW value \in Values, Change(value), Len(values) + 1 \in Versions,
           w' = w, link' = link, answered' = answered, heard' = heard, late' = late
    PROVE  /\ values' \in Seq(Values) /\ Len(values') = Len(values) + 1 /\ Len(values) \in Nat
           /\ feed' \in Seq(WorkerEvent)
           /\ \A i \in 1..Len(feed') :
                feed'[i].type = "ParameterChanged" => feed'[i].version <= Len(values')
           /\ \A v \in Versions : answered'[v] > 0 => v <= Len(values')
           /\ heard' <= Len(values')
           /\ Shown(w.known)' = Shown(w.known) /\ RowOK(w)' /\ AccessOK(w)'
           /\ LateOK' /\ LiveOK' /\ HeardOK'
           /\ link => Announced'
<1>. DEFINE event == [type |-> "ParameterChanged", version |-> Len(values')]
<1>0. /\ values \in Seq(Values) /\ feed \in Seq(WorkerEvent) /\ heard \in Nat
      /\ w \in Window /\ Happened /\ HeardOK /\ answered \in [Versions -> Nat]
  BY DEF IInv, Typed
<1>1. /\ values' \in Seq(Values) /\ Len(values') = Len(values) + 1 /\ Len(values) \in Nat
      /\ \A i \in 1..Len(values) : values'[i] = values[i]
  BY <1>0 DEF Change
<1>2. event \in WorkerEvent
  BY <1>1 DEF WorkerEvent
<1>3. feed' = IF link THEN Append(feed, event) ELSE feed
  BY DEF Change
<1>4. event.type = "ParameterChanged" /\ event.version = Len(values) + 1
  BY <1>1
<1>. HIDE DEF event
<1>5. w.known # None => w.known \in 1..Len(values)
  <2>1. w.known # None => w.known \in Nat /\ 1 <= w.known
    BY <1>0, VersionsAre DEF Window
  <2>. QED
    BY <1>0, <1>1, <2>1 DEF Happened, HeardOK
<1>6. Offered(w.known)' = Offered(w.known) /\ Shown(w.known)' = Shown(w.known)
  BY <1>1, <1>5 DEF Offered, Shown
<1>7. RowOK(w)'
  BY <1>6 DEF IInv, RowOK
<1>8. \A v \in Versions : answered'[v] > 0 => v <= Len(values')
  BY <1>0, <1>1, VersionsAre DEF Happened
<1>9. heard' <= Len(values')
  BY <1>0, <1>1 DEF Happened
<1>10. \A i \in 1..Len(feed) :
         feed[i].type = "ParameterChanged" => feed[i].version <= Len(values')
  <2>1. \A i \in 1..Len(feed) :
          feed[i].type = "ParameterChanged" => feed[i].version \in Nat
    BY <1>0, EventVersions, VersionsAre
  <2>. QED
    BY <1>0, <1>1, <2>1 DEF Happened
<1>11. CASE ~link
  <2>1. feed' = feed
    BY <1>3, <1>11
  <2>2. LiveOK'
    BY <1>11 DEF LiveOK
  <2>. QED
    BY <1>0, <1>1, <1>6, <1>7, <1>8, <1>9, <1>10, <1>11, <2>1, <2>2, Unaffected
<1>12. CASE link
  <2>1. feed' = Append(feed, event)
    BY <1>3, <1>12
  <2>2. /\ feed' \in Seq(WorkerEvent) /\ Len(feed') = Len(feed) + 1 /\ Len(feed) \in Nat
        /\ \A i \in 1..Len(feed) : feed'[i] = feed[i]
        /\ feed'[Len(feed) + 1] = event
    BY <1>0, <1>2, <2>1, AppendFeed
  <2>3. \A i \in 1..Len(feed') : i \in 1..Len(feed) \/ i = Len(feed) + 1
    BY <2>2
  <2>4. \A i \in 1..Len(feed') :
          feed'[i].type = "ParameterChanged" => feed'[i].version <= Len(values')
    <3>. SUFFICES ASSUME NEW i \in 1..Len(feed'), feed'[i].type = "ParameterChanged"
                  PROVE  feed'[i].version <= Len(values')
      OBVIOUS
    <3>1. CASE i \in 1..Len(feed)
      BY <1>10, <2>2, <3>1
    <3>2. CASE i = Len(feed) + 1
      BY <1>1, <1>4, <2>2, <3>2
    <3>. QED
      BY <2>3, <3>1, <3>2
  <2>5. LiveOK'
    BY <1>2, <1>4, <2>1, FeedGrows
  <2>6. Announced'
    <3>1. Len(feed) + 1 \in 1..Len(feed')
      BY <2>2
    <3>. QED
      BY <1>1, <1>4, <2>2, <3>1 DEF Announced
  <2>. QED
    BY <1>1, <1>6, <1>7, <1>8, <1>9, <2>2, <2>4, <2>5, <2>6, Unaffected
<1>. QED
  BY <1>11, <1>12

LEMMA ForeignChangeOK == IInv /\ ForeignChange => IInv'
<1>. SUFFICES ASSUME IInv, ForeignChange PROVE IInv'
  OBVIOUS
<1>1. PICK value \in Values : Change(value)
  BY DEF ForeignChange
<1>2. /\ w' = w /\ link' = link /\ ever' = ever /\ answered' = answered /\ heard' = heard
      /\ failed' = failed /\ late' = late /\ op' = op /\ choices' = choices
      /\ disturbances < MaxDisturbances /\ disturbances' = disturbances + 1
  BY DEF ForeignChange, Disturb
<1>3. /\ Typed /\ Happened /\ Counted /\ disturbances \in Nat /\ Len(values) \in Nat
      /\ w \in Window
  BY VersionsAre DEF IInv, Typed
<1>4. Executed' = Executed
  BY <1>2 DEF Executed
<1>5. Len(values) + 1 \in Versions
  BY <1>2, <1>3, VersionsAre, ExecutedAtMost DEF Counted
<1>6. /\ values' \in Seq(Values) /\ Len(values') = Len(values) + 1
      /\ feed' \in Seq(WorkerEvent)
      /\ \A i \in 1..Len(feed') :
           feed'[i].type = "ParameterChanged" => feed'[i].version <= Len(values')
      /\ \A v \in Versions : answered'[v] > 0 => v <= Len(values')
      /\ heard' <= Len(values')
      /\ Shown(w.known)' = Shown(w.known) /\ RowOK(w)' /\ AccessOK(w)'
      /\ LateOK' /\ LiveOK' /\ HeardOK'
      /\ link => Announced'
  BY <1>1, <1>2, <1>5, ChangeKept
<1>7. disturbances' \in 0..MaxDisturbances
  BY <1>2, <1>3, VersionsAre
<1>8. Typed'
  BY <1>2, <1>3, <1>6, <1>7 DEF Typed
<1>9. Counted'
  BY <1>2, <1>3, <1>4, <1>6, ExecutedAtMost DEF Counted
<1>10. Happened'
  <2>1. \A o \in Ops : op[o].phase = "calling" => op[o].version <= Len(values')
    <3>1. \A o \in Ops : op[o].phase = "calling" => op[o].version \in Nat
      BY <1>3 DEF Typed, OpState
    <3>. QED
      BY <1>3, <1>6, <3>1 DEF Happened
  <2>. QED
    BY <1>2, <1>6, <2>1 DEF Happened
<1>11. ChoiceOK'
  BY <1>2, <1>6 DEF IInv, ChoiceOK, Calling
<1>12. CurrentOK'
  BY <1>2, <1>6 DEF CurrentOK
<1>. QED
  BY <1>6, <1>8, <1>9, <1>10, <1>11, <1>12 DEF IInv

LEMMA ExecuteOK == ASSUME NEW o \in Ops PROVE IInv /\ Execute(o) => IInv'
<1>. SUFFICES ASSUME IInv, Execute(o) PROVE IInv'
  OBVIOUS
<1>1. /\ op[o].phase = "calling" /\ op[o].version = 0
      /\ op' = [op EXCEPT ![o].version = Len(values')]
      /\ w' = w /\ link' = link /\ ever' = ever /\ answered' = answered /\ heard' = heard
      /\ failed' = failed /\ late' = late /\ disturbances' = disturbances
      /\ choices' = choices
  BY DEF Execute
<1>2. /\ Typed /\ Happened /\ Counted /\ disturbances \in Nat /\ Len(values) \in Nat
      /\ w \in Window /\ op \in [Ops -> OpState] /\ answered \in [Versions -> Nat]
  BY VersionsAre DEF IInv, Typed
<1>3. op[o].new \in Allowed /\ op[o].new \in Values
  BY <1>1, <1>2, SessionAssumption DEF OpState
<1>4. o \notin Executed /\ Executed \cup {o} \subseteq Ops
  BY <1>1 DEF Executed
<1>5. Cardinality(Executed \cup {o}) = Cardinality(Executed) + 1
  BY <1>4, ExecutedAtMost, FS_AddElement
<1>6. Cardinality(Executed) + 1 <= Cardinality(Ops)
  <2>1. IsFiniteSet(Ops)
    BY SessionAssumption
  <2>2. Cardinality(Executed \cup {o}) <= Cardinality(Ops)
    BY <1>4, <2>1, FS_Subset
  <2>. QED
    BY <1>5, <2>2
<1>7. /\ values' \in Seq(Values) /\ Len(values') \in Nat /\ Len(values') > 0
      /\ Len(values) <= Len(values') /\ Len(values') <= Len(values) + 1
      /\ feed' \in Seq(WorkerEvent)
      /\ \A i \in 1..Len(feed') :
           feed'[i].type = "ParameterChanged" => feed'[i].version <= Len(values')
      /\ \A v \in Versions : answered'[v] > 0 => v <= Len(values')
      /\ heard' <= Len(values')
      /\ Shown(w.known)' = Shown(w.known) /\ RowOK(w)' /\ AccessOK(w)'
      /\ LateOK' /\ LiveOK' /\ HeardOK'
  <2>1. CASE values' = values /\ feed' = feed
    <3>1. LiveOK'
      BY <1>1, <2>1, LiveKept
    <3>2. RowOK(w)' /\ Shown(w.known)' = Shown(w.known)
      BY <1>1, <2>1 DEF IInv, RowOK, Offered, Shown
    <3>3. AccessOK(w)' /\ LateOK' /\ HeardOK'
      BY <1>1, Unaffected
    <3>4. values \in Seq(Values) /\ feed \in Seq(WorkerEvent)
      BY <1>2 DEF Typed
    <3>5. Len(values) > 0
      BY <1>2 DEF Counted
    <3>. QED
      BY <1>1, <1>2, <2>1, <3>1, <3>2, <3>3, <3>4, <3>5 DEF Happened
  <2>2. CASE Change(op[o].new)
    <3>1. Len(values) + 1 \in Versions
      <4>1. disturbances <= MaxDisturbances
        BY <1>2, VersionsAre DEF Typed
      <4>2. Len(values) <= 1 + disturbances + Cardinality(Executed)
        BY <1>2 DEF Counted
      <4>3. Len(values) + 1 <= MaxDisturbances + Cardinality(Ops) + 1
        BY <1>2, <1>6, <4>1, <4>2, VersionsAre, ExecutedAtMost
      <4>. QED
        BY <1>2, <4>3, VersionsAre
    <3>2. /\ values' \in Seq(Values) /\ Len(values') = Len(values) + 1
          /\ feed' \in Seq(WorkerEvent)
          /\ \A i \in 1..Len(feed') :
               feed'[i].type = "ParameterChanged" => feed'[i].version <= Len(values')
          /\ \A v \in Versions : answered'[v] > 0 => v <= Len(values')
          /\ heard' <= Len(values')
          /\ Shown(w.known)' = Shown(w.known) /\ RowOK(w)' /\ AccessOK(w)'
          /\ LateOK' /\ LiveOK' /\ HeardOK'
      BY <1>1, <1>3, <2>2, <3>1, ChangeKept
    <3>. QED
      BY <1>2, <3>2
  <2>. QED
    BY <2>1, <2>2 DEF Execute
<1>8. /\ \A p \in Ops : op'[p].phase = op[p].phase /\ (p # o => op'[p] = op[p])
      /\ op'[o].phase = "calling" /\ op'[o].version = Len(values')
      /\ op' \in [Ops -> OpState]
  <2>1. op[o] \in [phase: {"calling"}, new: Allowed, version: Nat]
    BY <1>1, <1>2 DEF OpState
  <2>2. [op[o] EXCEPT !.version = Len(values')] \in [phase: {"calling"}, new: Allowed, version: Nat]
    BY <1>7, <2>1
  <2>3. /\ [op[o] EXCEPT !.version = Len(values')].phase = "calling"
        /\ [op[o] EXCEPT !.version = Len(values')].version = Len(values')
    BY <2>1
  <2>4. op' = [op EXCEPT ![o] = [op[o] EXCEPT !.version = Len(values')]]
    BY <1>1
  <2>5. op'[o] = [op[o] EXCEPT !.version = Len(values')] /\ \A p \in Ops : p # o => op'[p] = op[p]
    BY <1>2, <2>4
  <2>6. op' \in [Ops -> OpState]
    BY <1>2, <2>2, <2>4 DEF OpState
  <2>. QED
    BY <1>1, <2>3, <2>5, <2>6
<1>9. Executed' = Executed \cup {o}
  BY <1>1, <1>7, <1>8 DEF Executed
<1>10. Typed'
  BY <1>1, <1>2, <1>7, <1>8 DEF Typed
<1>11. Counted'
  BY <1>1, <1>2, <1>5, <1>7, <1>9, ExecutedAtMost DEF Counted
<1>12. Happened'
  <2>1. \A p \in Ops : op'[p].phase = "calling" => op'[p].version <= Len(values')
    <3>1. \A p \in Ops : op[p].phase = "calling" => op[p].version \in Nat
      BY <1>2 DEF OpState
    <3>2. \A p \in Ops : op[p].phase = "calling" => op[p].version <= Len(values')
      BY <1>2, <1>7, <3>1 DEF Happened
    <3>. QED
      BY <1>7, <1>8, <3>2
  <2>. QED
    BY <1>7, <2>1 DEF Happened
<1>13. ChoiceOK'
  BY <1>1, <1>7, <1>8 DEF IInv, ChoiceOK, Calling
<1>14. CurrentOK'
  BY <1>8 DEF CurrentOK, Confirmed
<1>. QED
  BY <1>7, <1>10, <1>11, <1>12, <1>13, <1>14 DEF IInv

\* A step of the worker alone.
LEMMA WorkerStep ==
    ASSUME IInv, w' = w, values' = values, op' = op, answered' = answered, choices' = choices,
           heard' = heard, failed' = failed, late' = late,
           disturbances' \in 0..MaxDisturbances, disturbances <= disturbances',
           feed' \in Seq(WorkerEvent), link' \in BOOLEAN, ever' \in BOOLEAN,
           \A i \in 1..Len(feed') :
              feed'[i].type = "ParameterChanged" => feed'[i].version <= Len(values),
           LiveOK',
           link' => Announced' \/ (link /\ (Announced => Announced'))
    PROVE  IInv'
<1>1. Typed /\ Happened /\ Counted /\ CurrentOK /\ disturbances' \in Nat
  BY VersionsAre DEF IInv
<1>2. Typed'
  BY <1>1 DEF Typed
<1>3. Happened'
  BY <1>1 DEF Happened
<1>4. Counted'
  BY <1>1, CountKept
<1>5. RowOK(w)' /\ ChoiceOK'
  BY RowUnaffected
<1>6. AccessOK(w)' /\ LateOK' /\ HeardOK'
  BY Unaffected
<1>7. CurrentOK'
  BY <1>1 DEF CurrentOK, Confirmed, Marked
<1>. QED
  BY <1>2, <1>3, <1>4, <1>5, <1>6, <1>7 DEF IInv

LEMMA PlainEvent ==
    \A type \in {"ConnectionLost", "Reconnected", "DeviceSnapshot", "InvalidateRuleCache"} :
        Event(type) \in WorkerEvent /\ Event(type).type = type
BY DEF Event, WorkerEvent

\* The events in `feed' and one more.
LEMMA OneMore ==
    ASSUME IInv, NEW event \in WorkerEvent, feed' = Append(feed, event), values' = values,
           event.type # "ParameterChanged"
    PROVE  /\ feed' \in Seq(WorkerEvent)
           /\ \A i \in 1..Len(feed') :
                feed'[i].type = "ParameterChanged" => feed'[i].version <= Len(values)
           /\ Announced => Announced'
<1>1. /\ feed' \in Seq(WorkerEvent) /\ Len(feed') = Len(feed) + 1 /\ Len(feed) \in Nat
      /\ \A i \in 1..Len(feed) : feed'[i] = feed[i]
      /\ feed'[Len(feed) + 1] = event
  BY AppendFeed DEF IInv, Typed
<1>2. \A i \in 1..Len(feed') : i \in 1..Len(feed) \/ i = Len(feed) + 1
  BY <1>1
<1>3. 1..Len(feed) \subseteq 1..Len(feed')
  BY <1>1
<1>4. \A i \in 1..Len(feed') :
        feed'[i].type = "ParameterChanged" => feed'[i].version <= Len(values)
  BY <1>1, <1>2 DEF IInv, Happened
<1>. QED
  BY <1>1, <1>3, <1>4 DEF Announced

LEMMA Disturbed ==
    ASSUME Typed, Disturb
    PROVE  disturbances' \in 0..MaxDisturbances /\ disturbances <= disturbances'
BY VersionsAre DEF Typed, Disturb

LEMMA ConnectFailsOK == IInv /\ ConnectFails => IInv'
<1>. SUFFICES ASSUME IInv, ConnectFails PROVE IInv'
  OBVIOUS
<1>1. /\ link' = link /\ link = FALSE /\ feed' = Append(feed, Event("ConnectionLost"))
      /\ w' = w /\ values' = values /\ op' = op /\ answered' = answered /\ choices' = choices
      /\ heard' = heard /\ failed' = failed /\ late' = late /\ ever' = ever
  BY DEF ConnectFails, IInv, Typed
<1>2. disturbances' \in 0..MaxDisturbances /\ disturbances <= disturbances'
  BY Disturbed DEF ConnectFails, IInv
<1>3. /\ feed' \in Seq(WorkerEvent)
      /\ \A i \in 1..Len(feed') :
           feed'[i].type = "ParameterChanged" => feed'[i].version <= Len(values)
  BY <1>1, PlainEvent, OneMore
<1>4. LiveOK'
  BY <1>1 DEF LiveOK
<1>5. ever \in BOOLEAN
  BY DEF IInv, Typed
<1>. QED
  BY <1>1, <1>2, <1>3, <1>4, <1>5, WorkerStep

LEMMA ResyncOK == IInv /\ Resync => IInv'
<1>. SUFFICES ASSUME IInv, Resync PROVE IInv'
  OBVIOUS
<1>1. /\ link' = link /\ link = TRUE /\ feed' = Append(feed, Event("DeviceSnapshot"))
      /\ w' = w /\ values' = values /\ op' = op /\ answered' = answered /\ choices' = choices
      /\ heard' = heard /\ failed' = failed /\ late' = late /\ ever' = ever
  BY DEF Resync, IInv, Typed
<1>2. disturbances' \in 0..MaxDisturbances /\ disturbances <= disturbances'
  BY Disturbed DEF Resync, IInv
<1>3. /\ feed' \in Seq(WorkerEvent)
      /\ \A i \in 1..Len(feed') :
           feed'[i].type = "ParameterChanged" => feed'[i].version <= Len(values)
      /\ Announced => Announced'
  BY <1>1, PlainEvent, OneMore
<1>4. LiveOK'
  BY <1>1, PlainEvent, FeedGrows
<1>5. ever \in BOOLEAN
  BY DEF IInv, Typed
<1>. QED
  BY <1>1, <1>2, <1>3, <1>4, <1>5, WorkerStep

\* A connection begins with the devices, and with the rules and parameters
\* having to be read.
LEMMA ConnectOK == IInv /\ Connect => IInv'
<1>. SUFFICES ASSUME IInv, Connect PROVE IInv'
  OBVIOUS
<1>. DEFINE first == feed \o (IF ever THEN <<Event("Reconnected")>> ELSE <<>>)
            last == <<Event("DeviceSnapshot"), Event("InvalidateRuleCache")>>
<1>1. /\ link' = TRUE /\ ever' = TRUE /\ feed' = first \o last
      /\ w' = w /\ values' = values /\ op' = op /\ answered' = answered /\ choices' = choices
      /\ heard' = heard /\ failed' = failed /\ late' = late /\ disturbances' = disturbances
  BY DEF Connect
<1>2. /\ feed \in Seq(WorkerEvent) /\ Happened /\ disturbances \in 0..MaxDisturbances
      /\ disturbances \in Nat
  BY VersionsAre DEF IInv, Typed
<1>3. /\ first \in Seq(WorkerEvent)
      /\ \A i \in 1..Len(first) :
           first[i].type = "ParameterChanged" => first[i].version <= Len(values)
  <2>1. CASE ever
    <3>1. <<Event("Reconnected")>> \in Seq(WorkerEvent) /\ Len(<<Event("Reconnected")>>) = 1
      BY PlainEvent
    <3>2. first = feed \o <<Event("Reconnected")>>
      BY <2>1
    <3>3. /\ first \in Seq(WorkerEvent) /\ Len(first) = Len(feed) + 1
          /\ \A i \in 1..Len(feed) + 1 :
               first[i] = IF i <= Len(feed) THEN feed[i] ELSE <<Event("Reconnected")>>[i - Len(feed)]
      BY <1>2, <3>1, <3>2, ConcatProperties
    <3>. HIDE DEF first
    <3>4. Len(feed) \in Nat
      BY <1>2
    <3>5. \A i \in 1..Len(first) : i \in 1..Len(feed) \/ i = Len(feed) + 1
      BY <3>3, <3>4
    <3>6. first[Len(feed) + 1] = Event("Reconnected")
      BY <3>3, <3>4
    <3>7. \A i \in 1..Len(feed) : first[i] = feed[i]
      BY <3>3, <3>4
    <3>8. Event("Reconnected").type = "Reconnected"
      BY PlainEvent
    <3>. QED
      BY <1>2, <3>3, <3>5, <3>6, <3>7, <3>8 DEF Happened
  <2>2. CASE ~ever
    <3>1. first = feed \o <<>>
      BY <2>2
    <3>2. first = feed
      BY <1>2, <3>1, ConcatEmptySeq
    <3>. QED
      BY <1>2, <3>2 DEF Happened
  <2>. QED
    BY <2>1, <2>2
<1>. HIDE DEF first
<1>4. /\ last \in Seq(WorkerEvent) /\ Len(last) = 2
      /\ last[1].type = "DeviceSnapshot" /\ last[2].type = "InvalidateRuleCache"
  BY PlainEvent
<1>. HIDE DEF last
<1>5. /\ feed' \in Seq(WorkerEvent) /\ Len(feed') = Len(first) + 2 /\ Len(first) \in Nat
      /\ \A i \in 1..Len(first) + 2 :
           feed'[i] = IF i <= Len(first) THEN first[i] ELSE last[i - Len(first)]
  <2>1. /\ first \o last \in Seq(WorkerEvent) /\ Len(first \o last) = Len(first) + Len(last)
        /\ \A i \in 1..Len(first) + Len(last) :
             (first \o last)[i] = IF i <= Len(first) THEN first[i] ELSE last[i - Len(first)]
    BY <1>3, <1>4, ConcatProperties
  <2>2. Len(first) \in Nat
    BY <1>3
  <2>. QED
    BY <1>1, <1>4, <2>1, <2>2
<1>6. /\ \A i \in 1..Len(first) : feed'[i] = first[i]
      /\ feed'[Len(first) + 1] = last[1] /\ feed'[Len(first) + 2] = last[2]
      /\ \A i \in 1..Len(feed') :
           i \in 1..Len(first) \/ i = Len(first) + 1 \/ i = Len(first) + 2
      /\ Len(first) + 1 \in 1..Len(feed') /\ Len(first) + 2 \in 1..Len(feed')
  BY <1>5
<1>7. \A i \in 1..Len(feed') :
        feed'[i].type = "ParameterChanged" => feed'[i].version <= Len(values)
  BY <1>3, <1>4, <1>6
<1>8. LiveOK'
  <2>1. \A j \in 1..Len(feed') : j > Len(first) + 1 => j = Len(first) + 2
    BY <1>5
  <2>2. (feed'[Len(first) + 1]).type = "DeviceSnapshot"
        /\ (feed'[Len(first) + 2]).type = "InvalidateRuleCache"
    BY <1>4, <1>6
  <2>3. \A j \in 1..Len(feed') : j > Len(first) + 1 => feed'[j].type # "ConnectionLost"
    BY <2>1, <2>2
  <2>. QED
    BY <1>6, <2>2, <2>3 DEF LiveOK, NoLossAfter
<1>9. Announced'
  BY <1>4, <1>6 DEF Announced
<1>10. disturbances <= disturbances'
  BY <1>1, <1>2
<1>. QED
  BY <1>1, <1>2, <1>5, <1>7, <1>8, <1>9, <1>10, WorkerStep

LEMMA LinkLostOK == IInv /\ LinkLost => IInv'
<1>. SUFFICES ASSUME IInv, LinkLost PROVE IInv'
  OBVIOUS
<1>1. PICK n \in 0..Len(feed) : feed' = Append(SubSeq(feed, 1, n), Event("ConnectionLost"))
  BY DEF LinkLost
<1>2. /\ link' = FALSE /\ ever' = ever
      /\ w' = w /\ values' = values /\ op' = op /\ answered' = answered /\ choices' = choices
      /\ heard' = heard /\ failed' = failed /\ late' = late
  BY DEF LinkLost
<1>3. disturbances' \in 0..MaxDisturbances /\ disturbances <= disturbances'
  BY Disturbed DEF LinkLost, IInv
<1>4. feed \in Seq(WorkerEvent) /\ Happened /\ ever \in BOOLEAN /\ Len(feed) \in Nat
  BY DEF IInv, Typed
<1>. DEFINE kept == SubSeq(feed, 1, n)
<1>5. n \in Int /\ 1 \in Int /\ n - 1 + 1 = n /\ \A i \in 1..n : i \in 1..Len(feed)
  BY <1>4
<1>6. \A i \in 1..n : feed[i] \in WorkerEvent
  BY <1>4, <1>5
<1>7. /\ kept \in Seq(WorkerEvent) /\ Len(kept) = n
      /\ \A i \in 1..n : kept[i] = feed[i]
  <2>1. /\ kept \in Seq(WorkerEvent) /\ Len(kept) = (IF 1 <= n THEN n - 1 + 1 ELSE 0)
        /\ \A i \in 1..n - 1 + 1 : kept[i] = feed[1 + i - 1]
    BY <1>5, <1>6, SubSeqProperties
  <2>. HIDE DEF kept
  <2>2. \A i \in 1..n : 1 + i - 1 = i
    BY <1>5
  <2>. QED
    BY <1>5, <2>1, <2>2
<1>. HIDE DEF kept
<1>8. feed' = Append(kept, Event("ConnectionLost"))
  BY <1>1 DEF kept
<1>9. Event("ConnectionLost") \in WorkerEvent /\ Event("ConnectionLost").type = "ConnectionLost"
  BY PlainEvent
<1>10. /\ feed' \in Seq(WorkerEvent) /\ Len(feed') = n + 1
       /\ \A i \in 1..n : feed'[i] = feed[i]
       /\ feed'[n + 1] = Event("ConnectionLost")
  BY <1>5, <1>7, <1>8, <1>9
<1>11. \A i \in 1..Len(feed') :
         feed'[i].type = "ParameterChanged" => feed'[i].version <= Len(values)
  <2>1. \A i \in 1..Len(feed') : i \in 1..n \/ i = n + 1
    BY <1>5, <1>10
  <2>. QED
    BY <1>4, <1>5, <1>9, <1>10, <2>1 DEF Happened
<1>12. LiveOK'
  BY <1>2 DEF LiveOK
<1>. QED
  BY <1>2, <1>3, <1>4, <1>10, <1>11, <1>12, WorkerStep

\* reload_parameters answers.
LEMMA ReadAnswersOK == IInv /\ ReadAnswers => IInv'
<1>. SUFFICES ASSUME IInv, ReadAnswers PROVE IInv'
  OBVIOUS
<1>1. /\ w.reading > 0 /\ w' = [w EXCEPT !.reading = w.reading - 1]
      /\ values' = values /\ link' = link /\ ever' = ever /\ feed' = feed /\ heard' = heard
      /\ late' = late /\ op' = op /\ choices' = choices
  BY DEF ReadAnswers
<1>2. /\ Typed /\ Happened /\ Counted /\ w \in Window /\ answered \in [Versions -> Nat]
      /\ Len(values) \in Versions
  BY CurrentIsVersion DEF IInv, Typed
<1>3. w' \in Window
  <2>1. w.reading - 1 \in Nat
    BY <1>1, <1>2 DEF Window
  <2>2. \A k \in Nat : [w EXCEPT !.reading = k] \in Window
    BY <1>2 DEF Window
  <2>. QED
    BY <1>1, <2>1, <2>2
<1>4. /\ SameRow(w', w) /\ SameAccess(w', w) /\ SameChoice(w', w) /\ w'.denials = w.denials
      /\ w'.rules_stale = w.rules_stale /\ w'.visible = w.visible
  BY <1>1, <1>2 DEF Window, SameRow, SameAccess, SameChoice
<1>5. /\ disturbances' \in 0..MaxDisturbances /\ disturbances <= disturbances' /\ disturbances' \in Nat
      /\ failed' \in BOOLEAN /\ answered' \in [Versions -> Nat]
      /\ \A v \in Versions : answered'[v] > 0 => answered[v] > 0 \/ v = Len(values)
      /\ \/ answered'[Len(values)] > 0
         \/ failed' = TRUE
  <2>0. disturbances \in Nat /\ disturbances <= disturbances /\ disturbances \in 0..MaxDisturbances
        /\ failed \in BOOLEAN
    BY <1>2, VersionsAre DEF Typed
  <2>1. CASE answered' = [answered EXCEPT ![Len(values)] = @ + 1] /\ UNCHANGED <<failed, disturbances>>
    <3>1. answered'[Len(values)] = answered[Len(values)] + 1 /\ answered[Len(values)] \in Nat
      BY <1>2, <2>1
    <3>2. answered' \in [Versions -> Nat]
      BY <1>2, <2>1
    <3>3. \A v \in Versions : v # Len(values) => answered'[v] = answered[v]
      BY <1>2, <2>1
    <3>4. answered'[Len(values)] > 0
      BY <3>1
    <3>. QED
      BY <2>0, <2>1, <3>2, <3>3, <3>4
  <2>2. CASE Disturb /\ failed' = TRUE /\ UNCHANGED answered
    <3>1. disturbances' \in 0..MaxDisturbances /\ disturbances <= disturbances'
      BY <1>2, <2>2, Disturbed
    <3>2. disturbances' \in Nat
      BY <3>1, VersionsAre
    <3>. QED
      BY <1>2, <2>2, <3>1, <3>2
  <2>. QED
    BY <2>1, <2>2 DEF ReadAnswers
<1>6. Typed'
  BY <1>1, <1>2, <1>3, <1>5 DEF Typed
<1>7. Happened'
  <2>1. Len(values) \in Nat
    BY <1>2, VersionsAre
  <2>2. \A v \in Versions : answered'[v] > 0 => v <= Len(values)
    BY <1>2, <1>5, <2>1 DEF Happened
  <2>. QED
    BY <1>1, <1>2, <2>2 DEF Happened
<1>8. Counted'
  BY <1>1, <1>5, CountKept
<1>9. RowOK(w)' /\ AccessOK(w)'
  <2>1. RowOK(w') /\ AccessOK(w')
    BY <1>4, SameRowKeeps, SameAccessKeeps DEF IInv
  <2>. QED
    BY <1>1, <2>1 DEF RowOK, Offered, AccessOK, AccessProblem, ConnectedIndicator
<1>10. ChoiceOK'
  BY <1>1, <1>4, SameChoiceKept
<1>11. LateOK'
  BY <1>1, <1>4 DEF IInv, LateOK, UnreachableReported, SameAccess
<1>12. LiveOK'
  BY <1>1, <1>4, LiveKept DEF SameAccess
<1>13. HeardOK'
  BY <1>1, <1>4 DEF IInv, HeardOK, SameChoice
<1>14. CurrentOK'
  BY <1>1, <1>5 DEF CurrentOK
<1>. QED
  BY <1>6, <1>7, <1>8, <1>9, <1>10, <1>11, <1>12, <1>13, <1>14 DEF IInv

-----------------------------------------------------------------------------
(* The window.                                                             *)

SameFeed(kept) ==
    /\ kept \in Seq(WorkerEvent)
    /\ \A i \in 1..Len(kept) : kept[i].type = "ParameterChanged" => kept[i].version <= Len(values)

LEMMA FeedUnchanged ==
    ASSUME IInv, feed' = feed, values' = values
    PROVE  SameFeed(feed') /\ (Announced => Announced')
BY DEF IInv, Typed, Happened, SameFeed, Announced

GoodOps(operations) ==
    /\ operations \in [Ops -> OpState]
    /\ \A o \in Ops : operations[o].phase = "calling" => operations[o].version <= Len(values)

LEMMA OpsUnchanged ==
    ASSUME IInv, op' = op, values' = values
    PROVE  GoodOps(op') /\ Executed \subseteq Executed' /\ (Confirmed => Confirmed')
BY DEF IInv, Typed, Happened, GoodOps, Executed, Confirmed

LEMMA WindowStep ==
    ASSUME IInv, Handled(w, w'), values' = values, link' = link, ever' = ever,
           NEW version \in Versions \cup {None},
           version # None => version <= Len(values) /\ w'.known = version,
           version = None => w'.known = w.known,
           heard' = IF version # None /\ version > heard THEN version ELSE heard,
           failed' = (failed /\ w'.reading <= w.reading),
           late' = (late /\ w'.probing <= w.probing),
           choices' \in 0..MaxChoices,
           disturbances' \in 0..MaxDisturbances, disturbances <= disturbances',
           SameFeed(feed'), GoodOps(op'), Executed \subseteq Executed',
           answered' \in [Versions -> Nat], \A v \in Versions : answered'[v] <= answered[v],
           LateOK', LiveOK', ChoiceOK',
           answered[Len(values)] > 0 => answered'[Len(values)] > 0 \/ version = Len(values),
           Announced => Announced' \/ version = Len(values) \/ Marked(w') \/ w'.reading > 0,
           Confirmed => Confirmed' \/ version = Len(values) \/ Marked(w') \/ w'.reading > 0
    PROVE  IInv'
<1>1. Typed /\ Happened /\ Counted /\ RowOK(w) /\ AccessOK(w) /\ w' \in Window
  BY DEF IInv, Handled
<1>2. /\ heard' \in Nat /\ heard <= heard' /\ heard' <= Len(values) /\ HeardOK'
      /\ version = Len(values) => heard' = Len(values)
  BY HearingKept
<1>3. failed' \in BOOLEAN /\ late' \in BOOLEAN
  OBVIOUS
<1>4. Typed'
  BY <1>1, <1>2, <1>3 DEF Typed, SameFeed, GoodOps
<1>5. Happened'
  <2>1. \A v \in Versions : answered'[v] > 0 => answered[v] > 0
    BY <1>1 DEF Typed
  <2>. QED
    BY <1>1, <1>2, <2>1 DEF Happened, SameFeed, GoodOps
<1>6. Counted'
  <2>1. disturbances \in Nat /\ disturbances' \in Nat /\ Len(values) \in Nat
    BY <1>1, VersionsAre DEF Typed
  <2>2. Executed' \subseteq Ops /\ IsFiniteSet(Ops)
    BY SessionAssumption DEF Executed
  <2>3. IsFiniteSet(Executed') /\ Cardinality(Executed') \in Nat
    BY <2>2, FS_Subset, FS_CardinalityType
  <2>4. Cardinality(Executed) <= Cardinality(Executed') /\ Cardinality(Executed) \in Nat
    BY <2>3, FS_Subset, ExecutedAtMost
  <2>. QED
    BY <1>1, <2>1, <2>3, <2>4 DEF Counted
<1>7. RowOK(w)'
  BY <1>1 DEF Handled, RowOK, Offered
<1>8. AccessOK(w)'
  BY <1>1 DEF Handled, AccessOK, AccessProblem, ConnectedIndicator
<1>9. CurrentOK'
  BY <1>1, <1>2, CurrentKept DEF Handled
<1>. QED
  BY <1>2, <1>4, <1>5, <1>6, <1>7, <1>8, <1>9 DEF IInv

\* What every step finds.
LEMMA Before ==
    ASSUME IInv
    PROVE  /\ w \in Window /\ answered \in [Versions -> Nat] /\ op \in [Ops -> OpState]
           /\ choices \in 0..MaxChoices /\ disturbances \in 0..MaxDisturbances
           /\ disturbances <= disturbances /\ None \in Versions \cup {None}
           /\ Len(values) \in Versions /\ Len(values) \in Nat
           /\ \A v \in Versions : answered[v] <= answered[v] /\ answered[v] \in Nat
<1>1. Typed /\ Counted
  BY DEF IInv
<1>2. /\ answered \in [Versions -> Nat] /\ disturbances \in Nat
      /\ Len(values) \in Versions /\ Len(values) \in Nat
  BY <1>1, VersionsAre, CurrentIsVersion DEF Typed
<1>3. \A v \in Versions : answered[v] <= answered[v] /\ answered[v] \in Nat
  BY <1>2
<1>. QED
  BY <1>1, <1>2, <1>3 DEF Typed

\* A window that keeps its row, and has one more worker event applied.
LEMMA EventStep ==
    ASSUME IInv, feed # <<>>, feed' = Tail(feed), values' = values, link' = link, ever' = ever,
           answered' = answered, disturbances' = disturbances, op' = op, choices' = choices,
           NEW version \in Versions \cup {None}, Note(version), Handled(w, w'),
           version # None => version <= Len(values) /\ w'.known = version,
           version = None => w'.known = w.known,
           LateOK', ChoiceOK',
           Head(feed).type = "ParameterChanged" => version = Head(feed).version,
           Head(feed).type = "InvalidateRuleCache" => Marked(w') \/ w'.reading > 0,
           Head(feed).type = "DeviceSnapshot" => w'.connected = TRUE,
           Head(feed).type \notin {"DeviceSnapshot", "ConnectionLost"} =>
                w'.connected = w.connected
    PROVE  IInv'
<1>1. feed \in Seq(WorkerEvent) /\ Happened /\ LiveOK
  BY DEF IInv, Typed
<1>2. /\ feed' \in Seq(WorkerEvent) /\ Len(feed') = Len(feed) - 1
      /\ Len(feed) \in Nat /\ Len(feed) >= 1 /\ Head(feed) = feed[1]
      /\ Head(feed) \in WorkerEvent
      /\ \A i \in 1..Len(feed) - 1 : feed'[i] = feed[i + 1]
  BY <1>1, TailFeed
<1>3. \A i \in 1..Len(feed') : i + 1 \in 1..Len(feed) /\ feed'[i] = feed[i + 1]
  BY <1>2
<1>4. \A i \in 1..Len(feed) : i = 1 \/ (i - 1 \in 1..Len(feed') /\ feed'[i - 1] = feed[i])
  <2>1. \A i \in 1..Len(feed) : i = 1 \/ (i - 1 \in 1..Len(feed') /\ (i - 1) + 1 = i)
    BY <1>2
  <2>. QED
    BY <1>3, <2>1
<1>5. SameFeed(feed')
  BY <1>1, <1>2, <1>3 DEF SameFeed, Happened
<1>6. Announced => Announced' \/ version = Len(values) \/ Marked(w') \/ w'.reading > 0
  <2>. SUFFICES ASSUME NEW i \in 1..Len(feed),
                       \/ feed[i].type = "InvalidateRuleCache"
                       \/ feed[i].type = "ParameterChanged" /\ feed[i].version = Len(values)
                PROVE  Announced' \/ version = Len(values) \/ Marked(w') \/ w'.reading > 0
    BY DEF Announced
  <2>1. CASE i = 1
    BY <1>2, <2>1
  <2>2. CASE i # 1
    BY <1>4, <2>2 DEF Announced
  <2>. QED
    BY <2>1, <2>2
<1>7. LiveOK'
  <2>. SUFFICES ASSUME link PROVE LiveOK'
    BY DEF LiveOK
  <2>0. \A n \in Nat : NoLossAfter(n + 1) => NoLossAfter(n)'
    <3>. SUFFICES ASSUME NEW n \in Nat, NoLossAfter(n + 1), NEW j \in 1..Len(feed'), j > n
                  PROVE  feed'[j].type # "ConnectionLost"
      BY DEF NoLossAfter
    <3>1. j + 1 > n + 1
      OBVIOUS
    <3>. QED
      BY <1>3, <3>1 DEF NoLossAfter
  <2>1. CASE w.connected /\ NoLossAfter(0)
    <3>1. Head(feed).type # "ConnectionLost"
      <4>1. 1 \in 1..Len(feed) /\ 1 > 0
        BY <1>2
      <4>. QED
        BY <1>2, <2>1, <4>1 DEF NoLossAfter
    <3>2. w'.connected
      BY <2>1, <3>1
    <3>3. NoLossAfter(0 + 1)
      <4>1. \A j \in 1..Len(feed) : j > 1 => j > 0
        BY <1>2
      <4>. QED
        BY <2>1, <4>1 DEF NoLossAfter
    <3>. QED
      BY <2>0, <3>2, <3>3 DEF LiveOK
  <2>2. ASSUME NEW i \in 1..Len(feed), feed[i].type = "DeviceSnapshot", NoLossAfter(i)
        PROVE  LiveOK'
    <3>1. CASE i = 1
      <4>1. w'.connected
        BY <1>2, <2>2, <3>1
      <4>2. NoLossAfter(0)'
        BY <2>0, <2>2, <3>1
      <4>. QED
        BY <4>1, <4>2 DEF LiveOK
    <3>2. CASE i # 1
      <4>1. i - 1 \in 1..Len(feed') /\ feed'[i - 1] = feed[i]
        BY <1>4, <3>2
      <4>2. i - 1 \in Nat /\ (i - 1) + 1 = i
        BY <1>2, <3>2
      <4>3. NoLossAfter(i - 1)'
        BY <2>0, <2>2, <4>2
      <4>. QED
        BY <2>2, <4>1, <4>3 DEF LiveOK
    <3>. QED
      BY <3>1, <3>2
  <2>. QED
    BY <1>1, <2>1, <2>2 DEF LiveOK
<1>8. GoodOps(op') /\ Executed \subseteq Executed' /\ (Confirmed => Confirmed')
  BY OpsUnchanged
<1>. QED
  BY <1>5, <1>6, <1>7, <1>8, Before, WindowStep DEF Note

LEMMA ApplyWorkerEventOK == IInv /\ ApplyWorkerEvent => IInv'
<1>. SUFFICES ASSUME IInv, ApplyWorkerEvent PROVE IInv'
  OBVIOUS
<1>1. /\ feed # <<>> /\ feed' = Tail(feed) /\ values' = values /\ link' = link /\ ever' = ever
      /\ answered' = answered /\ disturbances' = disturbances /\ op' = op /\ choices' = choices
  BY DEF ApplyWorkerEvent
<1>2. /\ w \in Window /\ Head(feed) \in WorkerEvent /\ None \in Versions \cup {None}
      /\ Head(feed) = feed[1] /\ 1 \in 1..Len(feed)
  <2>1. feed \in Seq(WorkerEvent)
    BY DEF IInv, Typed
  <2>2. Len(feed) \in Nat /\ Len(feed) >= 1 /\ Head(feed) = feed[1] /\ Head(feed) \in WorkerEvent
    BY <1>1, <2>1, TailFeed
  <2>. QED
    BY <2>2, Before
<1>3. CASE Head(feed).type = "DeviceSnapshot" /\ w' = ApplySnapshot(w) /\ Note(None)
  <2>1. /\ Handled(w, w') /\ SameChoice(w', w) /\ w'.connected = TRUE
        /\ UnreachableReported(w) => w'.probing > 0
    BY <1>2, <1>3, SnapshotHandled
  <2>2. LateOK'
    BY <2>1 DEF LateOK, Handled, UnreachableReported
  <2>3. ChoiceOK'
    BY <1>1, <2>1, SameChoiceKept
  <2>. QED
    BY <1>1, <1>2, <1>3, <2>1, <2>2, <2>3, EventStep DEF SameChoice
<1>4. CASE Head(feed).type = "InvalidateRuleCache" /\ w' = MarkRulesStale(w) /\ Note(None)
  <2>1. /\ Handled(w, w') /\ SameChoice(w', w) /\ w'.connected = w.connected
        /\ Marked(w') \/ w'.reading > 0
    BY <1>2, <1>4, MarkHandled
  <2>2. LateOK'
    BY <1>1, <1>4, <2>1, AccessKept DEF Note
  <2>3. ChoiceOK'
    BY <1>1, <2>1, SameChoiceKept
  <2>. QED
    BY <1>1, <1>2, <1>4, <2>1, <2>2, <2>3, EventStep DEF SameChoice
<1>5. CASE Head(feed).type = "ConnectionLost" /\ w' = ApplyConnectionLost(w) /\ Note(None)
  <2>1. Handled(w, w') /\ SameChoice(w', w) /\ w'.connected = FALSE
    BY <1>2, <1>5, LostHandled
  <2>2. LateOK'
    BY <2>1 DEF LateOK
  <2>3. ChoiceOK'
    BY <1>1, <2>1, SameChoiceKept
  <2>. QED
    BY <1>1, <1>2, <1>5, <2>1, <2>2, <2>3, EventStep DEF SameChoice
<1>6. CASE Head(feed).type = "Reconnected" /\ w' = ApplyReconnected(w) /\ Note(None)
  <2>1. Handled(w, w') /\ SameChoice(w', w) /\ w'.connected = w.connected /\ w'.probing > 0
    BY <1>2, <1>6, ReconnectedHandled
  <2>2. LateOK'
    BY <2>1 DEF LateOK
  <2>3. ChoiceOK'
    BY <1>1, <2>1, SameChoiceKept
  <2>. QED
    BY <1>1, <1>2, <1>6, <2>1, <2>2, <2>3, EventStep DEF SameChoice
<1>7. CASE /\ Head(feed).type = "ParameterChanged"
           /\ w' = SetParameter(w, Head(feed).version) /\ Note(Head(feed).version)
  <2>. DEFINE version == Head(feed).version
  <2>1. version \in Versions
    BY <1>2, <1>7 DEF WorkerEvent
  <2>2. version <= Len(values)
    BY <1>2, <1>7 DEF IInv, Happened
  <2>3. version # None
    BY <2>1, NoneIsAbsent
  <2>4. w' = SetParameter(w, version) /\ Note(version)
    BY <1>7
  <2>5. Head(feed).type = "ParameterChanged" => version = Head(feed).version
    OBVIOUS
  <2>. HIDE DEF version
  <2>6. /\ Handled(w, w') /\ w'.connected = w.connected
        /\ w'.known = version /\ w'.selected = Shown(version)
    BY <1>2, <2>1, <2>4, SetParameterHandled
  <2>7. LateOK'
    BY <1>1, <2>4, <2>6, AccessKept DEF Note
  <2>8. ChoiceOK'
    BY <1>1, <2>3, <2>6, KnownChoice
  <2>. QED
    BY <1>1, <1>2, <1>7, <2>1, <2>2, <2>3, <2>4, <2>5, <2>6, <2>7, <2>8, EventStep
<1>. QED
  BY <1>3, <1>4, <1>5, <1>6, <1>7 DEF ApplyWorkerEvent

\* A step of the window that leaves the events and the operations alone.
LEMMA QuietStep ==
    ASSUME IInv, Handled(w, w'), values' = values, link' = link, ever' = ever, feed' = feed,
           answered' = answered, op' = op, Note(None), w'.known = w.known,
           choices' \in 0..MaxChoices,
           disturbances' \in 0..MaxDisturbances, disturbances <= disturbances',
           w'.connected = w.connected \/ w'.connected = TRUE, LateOK', ChoiceOK'
    PROVE  IInv'
<1>1. SameFeed(feed') /\ (Announced => Announced')
  BY FeedUnchanged
<1>2. GoodOps(op') /\ Executed \subseteq Executed' /\ (Confirmed => Confirmed')
  BY OpsUnchanged
<1>3. LiveOK'
  BY LiveKept
<1>. QED
  BY <1>1, <1>2, <1>3, Before, WindowStep DEF Note

\* A diagnosis replaces the last one.
LEMMA ApplyDiagnosisOK == IInv /\ ApplyDiagnosis => IInv'
<1>. SUFFICES ASSUME IInv, ApplyDiagnosis PROVE IInv'
  OBVIOUS
<1>1. /\ w.probing > 0 /\ values' = values /\ link' = link /\ ever' = ever /\ feed' = feed
      /\ answered' = answered /\ heard' = heard /\ failed' = failed
      /\ disturbances' = disturbances /\ op' = op /\ choices' = choices
  BY DEF ApplyDiagnosis
<1>2. PICK d \in Diagnoses :
        /\ w' = [ApplyAccess(w, d) EXCEPT !.probing = @ - 1]
        /\ late' = (w.connected /\ d \in Unreachable)
  BY DEF ApplyDiagnosis
<1>3. /\ w \in Window /\ w.probing \in Nat /\ w.reading \in Nat
      /\ Typed /\ Happened /\ Counted /\ RowOK(w) /\ AccessOK(w)
  BY Before DEF IInv, Window
<1>. DEFINE shown == ApplyAccess(w, d)
<1>4. /\ shown \in Window /\ SamePage(shown, w) /\ SameRow(shown, w)
      /\ shown.denials = w.denials /\ shown.access = d /\ shown.probing = w.probing
      /\ AccessOK(shown)
  BY <1>3, DiagnosesAreStates, AccessHandled
<1>5. w' = [shown EXCEPT !.probing = w.probing - 1]
  BY <1>2, <1>4
<1>. HIDE DEF shown
<1>6. w' \in Window
  <2>1. w.probing - 1 \in Nat
    BY <1>1, <1>3
  <2>2. \A n \in Nat : [shown EXCEPT !.probing = n] \in Window
    BY <1>4 DEF Window
  <2>. QED
    BY <1>5, <2>1, <2>2
<1>7. /\ SamePage(w', w) /\ SameRow(w', w) /\ w'.denials = w.denials /\ w'.access = d
      /\ w'.indicator = shown.indicator /\ w'.banner = shown.banner
      /\ w'.connected = shown.connected /\ w'.denials = shown.denials
      /\ w'.access = shown.access
  BY <1>4, <1>5 DEF Window, SamePage, SameRow
<1>8. SameChoice(w', w) /\ w'.reading = w.reading /\ w'.connected = w.connected
  BY <1>7 DEF SamePage, SameRow, SameChoice
<1>9. late' \in BOOLEAN
  BY <1>2, <1>3 DEF Window
<1>10. Typed'
  BY <1>1, <1>3, <1>6, <1>9 DEF Typed
<1>11. Happened'
  BY <1>1, <1>3 DEF Happened
<1>12. Counted'
  BY <1>1, Before, CountKept, VersionsAre
<1>13. RowOK(w)'
  BY <1>1, <1>3, <1>7 DEF RowOK, Offered, SameRow
<1>14. AccessOK(w)'
  BY <1>4, <1>7 DEF AccessOK, AccessProblem, ConnectedIndicator
<1>15. ChoiceOK'
  BY <1>1, <1>8, SameChoiceKept
<1>16. LateOK'
  BY <1>2, <1>7, <1>8 DEF LateOK, UnreachableReported
<1>17. LiveOK'
  BY <1>1, <1>8, LiveKept
<1>18. HeardOK'
  BY <1>1, <1>8 DEF IInv, HeardOK, SameChoice
<1>19. CurrentOK'
  BY <1>1, <1>7 DEF IInv, CurrentOK, Marked, SamePage, Announced, Confirmed
<1>. QED
  BY <1>10, <1>11, <1>12, <1>13, <1>14, <1>15, <1>16, <1>17, <1>18, <1>19 DEF IInv

LEMMA ApplyReadOK == IInv /\ ApplyRead => IInv'
<1>. SUFFICES ASSUME IInv, ApplyRead PROVE IInv'
  OBVIOUS
<1>1. /\ values' = values /\ link' = link /\ ever' = ever /\ feed' = feed
      /\ disturbances' = disturbances /\ op' = op /\ choices' = choices
  BY DEF ApplyRead
<1>2. PICK v \in Versions :
        /\ answered[v] > 0 /\ answered' = [answered EXCEPT ![v] = @ - 1]
        /\ w' = SetParameter(w, v) /\ Note(v)
  BY DEF ApplyRead
<1>3. v <= Len(values) /\ v # None
  BY <1>2, NoneIsAbsent DEF IInv, Happened
<1>4. /\ Handled(w, w') /\ w'.connected = w.connected
      /\ w'.known = v /\ w'.selected = Shown(v)
  BY <1>2, Before, SetParameterHandled
<1>5. LateOK'
  BY <1>1, <1>2, <1>4, AccessKept DEF Note
<1>6. LiveOK'
  BY <1>1, <1>4, LiveKept
<1>7. ChoiceOK'
  BY <1>1, <1>3, <1>4, KnownChoice
<1>8. /\ answered' \in [Versions -> Nat] /\ \A x \in Versions : answered'[x] <= answered[x]
      /\ \A x \in Versions : x # v => answered'[x] = answered[x]
  <2>1. /\ \A x \in Versions : answered[x] \in Nat /\ answered[x] <= answered[x]
        /\ answered \in [Versions -> Nat]
    BY Before
  <2>2. answered[v] - 1 \in Nat /\ answered[v] - 1 <= answered[v]
    BY <1>2, <2>1
  <2>3. answered'[v] = answered[v] - 1 /\ \A x \in Versions : x # v => answered'[x] = answered[x]
    BY <1>2, <2>1
  <2>4. answered' \in [Versions -> Nat]
    BY <1>2, <2>1, <2>2
  <2>. QED
    BY <2>1, <2>2, <2>3, <2>4
<1>9. answered[Len(values)] > 0 => answered'[Len(values)] > 0 \/ v = Len(values)
  BY <1>8, Before
<1>10. SameFeed(feed') /\ (Announced => Announced')
  BY <1>1, FeedUnchanged
<1>11. GoodOps(op') /\ Executed \subseteq Executed' /\ (Confirmed => Confirmed')
  BY <1>1, OpsUnchanged
<1>12. choices' \in 0..MaxChoices /\ disturbances' \in 0..MaxDisturbances
       /\ disturbances <= disturbances'
  BY <1>1, Before
<1>. QED
  BY <1>1, <1>2, <1>3, <1>4, <1>5, <1>6, <1>7, <1>8, <1>9, <1>10, <1>11, <1>12, WindowStep DEF Note

LEMMA ApplyListOK == IInv /\ ApplyList => IInv'
<1>. SUFFICES ASSUME IInv, ApplyList PROVE IInv'
  OBVIOUS
<1>. DEFINE rest == [w EXCEPT !.listing = @ - 1]
<1>1. /\ values' = values /\ link' = link /\ ever' = ever /\ feed' = feed
      /\ answered' = answered /\ disturbances' = disturbances /\ op' = op /\ choices' = choices
      /\ w.listing > 0 /\ (w' = rest \/ w' = ApplySnapshot(rest)) /\ Note(None)
  BY DEF ApplyList
<1>2. /\ w \in Window /\ choices' \in 0..MaxChoices /\ disturbances' \in 0..MaxDisturbances
      /\ disturbances <= disturbances'
  BY <1>1, Before
<1>3. rest \in Window
  <2>1. w.listing - 1 \in Nat
    BY <1>1, <1>2 DEF Window
  <2>2. \A n \in Nat : [w EXCEPT !.listing = n] \in Window
    BY <1>2 DEF Window
  <2>. QED
    BY <2>1, <2>2
<1>4. /\ SameRow(rest, w) /\ SameAccess(rest, w) /\ SamePage(rest, w) /\ SameChoice(rest, w)
      /\ w.probing \in Nat
  BY <1>2 DEF Window, SameRow, SameAccess, SamePage, SameChoice
<1>. HIDE DEF rest
<1>5. Handled(w, rest)
  <2>1. rest.denials = w.denials /\ rest.access = w.access /\ w.probing <= rest.probing
    BY <1>4 DEF SameAccess
  <2>. QED
    BY <1>2, <1>3, <1>4, <2>1, SameRowKeeps, SameAccessKeeps, SamePageKeeps DEF Handled
<1>6. /\ Handled(w, w') /\ SameChoice(w', w) /\ LateOK'
      /\ (w'.connected = w.connected \/ w'.connected = TRUE)
  <2>1. CASE w' = rest
    <3>1. Handled(w, w') /\ SameChoice(w', w) /\ w'.connected = w.connected
      BY <1>4, <1>5, <2>1 DEF SameAccess
    <3>2. LateOK'
      BY <1>1, <3>1, AccessKept DEF Note
    <3>. QED
      BY <3>1, <3>2
  <2>2. CASE w' = ApplySnapshot(rest)
    <3>1. /\ Handled(rest, w') /\ SameChoice(w', rest) /\ w'.connected = TRUE
          /\ UnreachableReported(rest) => w'.probing > 0
      BY <1>3, <2>2, SnapshotHandled
    <3>2. Handled(w, w')
      BY <1>2, <1>5, <3>1, HandledTwice
    <3>3. LateOK'
      BY <3>1 DEF LateOK, Handled, UnreachableReported
    <3>. QED
      BY <1>4, <3>1, <3>2, <3>3 DEF SameChoice
  <2>. QED
    BY <1>1, <2>1, <2>2
<1>7. ChoiceOK'
  BY <1>1, <1>6, SameChoiceKept
<1>. QED
  BY <1>1, <1>2, <1>6, <1>7, QuietStep DEF SameChoice

LEMMA ApplyWriteOK == IInv /\ ApplyWrite => IInv'
<1>. SUFFICES ASSUME IInv, ApplyWrite PROVE IInv'
  OBVIOUS
<1>1. /\ values' = values /\ link' = link /\ ever' = ever /\ feed' = feed
      /\ answered' = answered /\ op' = op /\ choices' = choices /\ Note(None)
  BY DEF ApplyWrite
<1>2. PICK write \in {"Devices", "Rules"}, result \in Refusals \cup {[type |-> "Ok"]} :
        w' = Report(Finish(w, write, result), write, result)
  BY DEF ApplyWrite
<1>3. disturbances' \in 0..MaxDisturbances /\ disturbances <= disturbances'
  BY Disturbed DEF ApplyWrite, IInv
<1>4. w \in Window /\ choices' \in 0..MaxChoices /\ write \in Write
  BY <1>1, Before DEF Write
<1>. DEFINE finished == Finish(w, write, result)
<1>5. Handled(w, finished) /\ SameChoice(finished, w) /\ finished.connected = w.connected
  BY <1>4, FinishHandled
<1>6. w' = Report(finished, write, result)
  BY <1>2
<1>. HIDE DEF finished
<1>7. finished \in Window
  BY <1>5 DEF Handled
<1>8. Handled(finished, w') /\ SameChoice(w', finished) /\ w'.connected = finished.connected
  BY <1>4, <1>6, <1>7, ReportHandled
<1>9. Handled(w, w') /\ SameChoice(w', w) /\ w'.connected = w.connected
  BY <1>4, <1>5, <1>8, HandledTwice DEF SameChoice
<1>10. LateOK'
  BY <1>1, <1>9, AccessKept DEF Note
<1>11. ChoiceOK'
  BY <1>1, <1>9, SameChoiceKept
<1>. QED
  BY <1>1, <1>3, <1>4, <1>9, <1>10, <1>11, QuietStep DEF SameChoice

\* A step that leaves the tasks of the window alone has nothing to note.
LEMMA NothingNoted ==
    ASSUME IInv, w'.reading = w.reading, w'.probing = w.probing,
           heard' = heard, failed' = failed, late' = late
    PROVE  Note(None)
<1>1. w.reading \in Nat /\ w.probing \in Nat /\ failed \in BOOLEAN /\ late \in BOOLEAN
  BY DEF IInv, Typed, Window
<1>2. w'.reading <= w.reading /\ w'.probing <= w.probing
  BY <1>1
<1>3. failed' = (failed /\ w'.reading <= w.reading) /\ late' = (late /\ w'.probing <= w.probing)
  BY <1>1, <1>2
<1>. QED
  BY <1>3 DEF Note

LEMMA SwitchPageOK == IInv /\ SwitchPage => IInv'
<1>. SUFFICES ASSUME IInv, SwitchPage PROVE IInv'
  OBVIOUS
<1>. DEFINE turned == [w EXCEPT !.visible = ~@]
<1>1. /\ values' = values /\ link' = link /\ ever' = ever /\ feed' = feed
      /\ answered' = answered /\ disturbances' = disturbances /\ op' = op /\ Note(None)
      /\ choices < MaxChoices /\ choices' = choices + 1
      /\ w' = ReloadPolicyIfNeeded(turned)
  BY DEF SwitchPage
<1>2. /\ w \in Window /\ disturbances' \in 0..MaxDisturbances /\ disturbances <= disturbances'
      /\ choices \in 0..MaxChoices
  BY <1>1, Before
<1>3. choices' \in 0..MaxChoices
  <2>1. MaxChoices \in Nat
    BY SessionAssumption
  <2>. QED
    BY <1>1, <1>2, <2>1
<1>4. /\ turned \in Window /\ SameRow(turned, w) /\ SameAccess(turned, w)
      /\ turned.reading = w.reading /\ turned.rules_stale = w.rules_stale
      /\ w.probing \in Nat
  BY ZenonT(60), <1>2 DEF Window, SameRow, SameAccess
<1>. HIDE DEF turned
<1>5. /\ w' \in Window /\ SameRow(w', turned) /\ SameAccess(w', turned)
      /\ turned.reading <= w'.reading
      /\ turned.rules_stale => Marked(w') \/ w'.reading > 0
  BY <1>1, <1>4, ReloadWindow
<1>6. SameRow(w', w) /\ SameAccess(w', w)
  BY <1>4, <1>5 DEF SameRow, SameAccess
<1>7. Cared(w, w')
  BY <1>4, <1>5 DEF Cared, Marked
<1>8. Handled(w, w')
  BY <1>4, <1>5, <1>6, <1>7, SameRowKeeps, SameAccessKeeps DEF Handled, SameAccess
<1>9. SameChoice(w', w) /\ w'.connected = w.connected
  BY <1>6 DEF SameChoice, SameRow, SameAccess
<1>10. LateOK'
  BY <1>1, <1>8, <1>9, AccessKept DEF Note
<1>11. ChoiceOK'
  BY <1>1, <1>9, SameChoiceKept
<1>. QED
  BY <1>1, <1>2, <1>3, <1>8, <1>9, <1>10, <1>11, QuietStep DEF SameChoice

LEMMA SelectOK == IInv /\ Select => IInv'
<1>. SUFFICES ASSUME IInv, Select PROVE IInv'
  OBVIOUS
<1>1. /\ values' = values /\ link' = link /\ ever' = ever /\ feed' = feed
      /\ answered' = answered /\ disturbances' = disturbances /\ op' = op
      /\ heard' = heard /\ failed' = failed /\ late' = late
      /\ choices < MaxChoices /\ choices' = choices + 1 /\ w.sensitive
  BY DEF Select
<1>2. PICK new \in Allowed \ {w.selected} :
        w' = [w EXCEPT !.selected = new,
                       !.asking = IF new = values[w.known] THEN None ELSE new]
  BY DEF Select
<1>. DEFINE asking == IF new = values[w.known] THEN None ELSE new
<1>3. /\ w \in Window /\ disturbances' \in 0..MaxDisturbances /\ disturbances <= disturbances'
      /\ choices \in 0..MaxChoices
  BY <1>1, Before
<1>4. choices' \in 0..MaxChoices
  <2>1. MaxChoices \in Nat
    BY SessionAssumption
  <2>. QED
    BY <1>1, <1>3, <2>1
<1>5. w' = [w EXCEPT !.selected = new, !.asking = asking] /\ asking \in Allowed \cup {None}
  BY <1>2
<1>6. new = values[w.known] \/ asking = new
  OBVIOUS
<1>. HIDE DEF asking
<1>7. w' \in Window
  BY <1>3, <1>5 DEF Window
<1>8. /\ SameAccess(w', w) /\ SamePage(w', w) /\ w'.blocks = w.blocks /\ w'.denials = w.denials
      /\ w'.sensitive = w.sensitive /\ w'.known = w.known /\ w'.selected = new
      /\ w'.asking = asking /\ w'.connected = w.connected /\ w'.access = w.access
      /\ w'.probing = w.probing /\ w'.reading = w.reading /\ w.probing \in Nat
  BY <1>3, <1>5 DEF Window, SameAccess, SamePage
<1>9. RowOK(w) => RowOK(w')
  BY <1>8 DEF RowOK
<1>10. Handled(w, w')
  BY <1>3, <1>7, <1>8, <1>9, SameAccessKeeps, SamePageKeeps DEF Handled
<1>11. Note(None)
  BY <1>1, <1>3, <1>8, NothingNoted
<1>12. LateOK'
  BY <1>1, <1>8, <1>10, <1>11, AccessKept DEF Note
<1>13. ChoiceOK'
  <2>1. Offered(w.known) /\ w.known # None
    BY <1>1 DEF IInv, RowOK, Offered
  <2>2. new # None
    BY SessionAssumption
  <2>3. w'.selected # Shown(w.known)' => w'.asking # None
    BY <1>1, <1>6, <1>8, <2>1, <2>2 DEF Shown, Offered
  <2>. QED
    BY <1>1, <1>8, <2>1, <2>3 DEF ChoiceOK, Shown, Offered
<1>. QED
  BY <1>1, <1>3, <1>4, <1>8, <1>10, <1>11, <1>12, <1>13, QuietStep

\* The user takes the choice back or sends it.
LEMMA AskedNoMore ==
    ASSUME IInv, NEW rest, rest = [w EXCEPT !.asking = None]
    PROVE  /\ rest \in Window /\ Handled(w, rest) /\ rest.connected = w.connected
           /\ rest.known = w.known /\ rest.selected = w.selected /\ rest.asking = None
           /\ rest.reading = w.reading /\ rest.probing = w.probing
<1>1. w \in Window
  BY Before
<1>2. /\ rest \in Window /\ SameAccess(rest, w) /\ SamePage(rest, w)
      /\ rest.blocks = w.blocks /\ rest.sensitive = w.sensitive
      /\ rest.denials = w.denials /\ rest.access = w.access
      /\ rest.connected = w.connected /\ rest.known = w.known /\ rest.selected = w.selected
      /\ rest.asking = None /\ rest.reading = w.reading /\ rest.probing = w.probing
      /\ w.probing \in Nat
  BY <1>1 DEF Window, SameAccess, SamePage
<1>3. RowOK(w) => RowOK(rest)
  BY <1>2 DEF RowOK
<1>. QED
  BY <1>1, <1>2, <1>3, SameAccessKeeps, SamePageKeeps DEF Handled

LEMMA DeclineOK == IInv /\ Decline => IInv'
<1>. SUFFICES ASSUME IInv, Decline PROVE IInv'
  OBVIOUS
<1>. DEFINE rest == [w EXCEPT !.asking = None]
<1>1. /\ values' = values /\ link' = link /\ ever' = ever /\ feed' = feed
      /\ answered' = answered /\ disturbances' = disturbances /\ op' = op
      /\ heard' = heard /\ failed' = failed /\ late' = late /\ choices' = choices
      /\ w.asking # None /\ w' = RevertParameter(rest)
  BY DEF Decline
<1>2. /\ w \in Window /\ choices' \in 0..MaxChoices /\ disturbances' \in 0..MaxDisturbances
      /\ disturbances <= disturbances'
  BY <1>1, Before
<1>3. /\ rest \in Window /\ Handled(w, rest) /\ rest.connected = w.connected
      /\ rest.known = w.known /\ rest.reading = w.reading /\ rest.probing = w.probing
  BY AskedNoMore
<1>. HIDE DEF rest
<1>4. /\ Handled(rest, w') /\ w'.connected = rest.connected /\ w'.known = rest.known
      /\ rest.known # None => w'.selected = Shown(w'.known)
  BY <1>1, <1>3, RevertHandled
<1>5. SameAccess(w', rest) /\ SamePage(w', rest)
  BY <1>1, <1>3, RevertWindow
<1>6. Handled(w, w') /\ w'.reading = w.reading /\ w'.probing = w.probing
  BY <1>2, <1>3, <1>4, <1>5, HandledTwice DEF SameAccess, SamePage
<1>7. Note(None)
  BY <1>1, <1>2, <1>6, NothingNoted
<1>8. LateOK'
  BY <1>1, <1>3, <1>4, <1>6, <1>7, AccessKept DEF Note
<1>9. ChoiceOK'
  BY <1>1, <1>3, <1>4, KnownChoice DEF IInv, ChoiceOK
<1>. QED
  BY <1>1, <1>2, <1>3, <1>4, <1>6, <1>7, <1>8, <1>9, QuietStep

LEMMA ConfirmOK == ASSUME NEW o \in Ops PROVE IInv /\ Confirm(o) => IInv'
<1>. SUFFICES ASSUME IInv, Confirm(o) PROVE IInv'
  OBVIOUS
<1>1. /\ values' = values /\ link' = link /\ ever' = ever /\ feed' = feed
      /\ answered' = answered /\ disturbances' = disturbances
      /\ heard' = heard /\ failed' = failed /\ late' = late /\ choices' = choices
      /\ w.asking # None /\ w' = [w EXCEPT !.asking = None] /\ op[o].phase = "idle"
      /\ op' = [op EXCEPT ![o] = [phase |-> "calling", new |-> w.asking, version |-> 0]]
  BY DEF Confirm
<1>2. /\ w \in Window /\ choices' \in 0..MaxChoices /\ disturbances' \in 0..MaxDisturbances
      /\ disturbances <= disturbances' /\ op \in [Ops -> OpState]
      /\ answered' \in [Versions -> Nat] /\ (\A v \in Versions : answered'[v] <= answered[v])
  BY <1>1, Before
<1>3. /\ Handled(w, w') /\ w'.connected = w.connected
      /\ w'.known = w.known /\ w'.selected = w.selected /\ w'.asking = None
      /\ w'.reading = w.reading /\ w'.probing = w.probing
  BY <1>1, AskedNoMore
<1>4. Note(None)
  BY <1>1, <1>2, <1>3, NothingNoted
<1>5. LateOK'
  BY <1>1, <1>3, <1>4, AccessKept DEF Note
<1>6. LiveOK'
  BY <1>1, <1>3, LiveKept
<1>7. /\ op' \in [Ops -> OpState] /\ op'[o].phase = "calling" /\ op'[o].version = 0
      /\ \A p \in Ops : p # o => op'[p] = op[p]
  <2>1. w.asking \in Allowed
    BY <1>1, <1>2 DEF Window
  <2>2. [phase |-> "calling", new |-> w.asking, version |-> 0] \in OpState
    BY <2>1 DEF OpState
  <2>. QED
    BY <1>1, <1>2, <2>2
<1>8. GoodOps(op')
  BY <1>7, Before DEF GoodOps, IInv, Happened
<1>9. Executed \subseteq Executed'
  BY <1>1, <1>7 DEF Executed
<1>10. Confirmed => Confirmed'
  BY <1>1, <1>7 DEF Confirmed
<1>11. ChoiceOK'
  BY <1>1, <1>3, <1>7 DEF IInv, ChoiceOK, Calling
<1>12. SameFeed(feed') /\ (Announced => Announced')
  BY <1>1, FeedUnchanged
<1>13. answered[Len(values)] > 0 => answered'[Len(values)] > 0
  BY <1>1
<1>. QED
  BY <1>1, <1>2, <1>3, <1>4, <1>5, <1>6, <1>8, <1>9, <1>10, <1>11, <1>12, <1>13,
     Before, WindowStep DEF Note

LEMMA ApplyOperationOK == ASSUME NEW o \in Ops PROVE IInv /\ ApplyOperation(o) => IInv'
<1>. SUFFICES ASSUME IInv, ApplyOperation(o) PROVE IInv'
  OBVIOUS
<1>1. /\ values' = values /\ link' = link /\ ever' = ever /\ feed' = feed
      /\ answered' = answered /\ disturbances' = disturbances /\ choices' = choices
      /\ op[o].phase = "calling" /\ op' = [op EXCEPT ![o] = [phase |-> "done"]]
  BY DEF ApplyOperation
<1>2. /\ w \in Window /\ choices' \in 0..MaxChoices /\ disturbances' \in 0..MaxDisturbances
      /\ disturbances <= disturbances' /\ op \in [Ops -> OpState]
      /\ answered' \in [Versions -> Nat] /\ (\A v \in Versions : answered'[v] <= answered[v])
  BY <1>1, Before
<1>3. /\ op' \in [Ops -> OpState] /\ op'[o].phase = "done"
      /\ \A p \in Ops : p # o => op'[p] = op[p]
  <2>1. [phase |-> "done"] \in OpState
    BY DEF OpState
  <2>. QED
    BY <1>1, <1>2, <2>1
<1>4. GoodOps(op')
  BY <1>3 DEF GoodOps, IInv, Happened
<1>5. Executed \subseteq Executed'
  BY <1>1, <1>3 DEF Executed
<1>6. SameFeed(feed') /\ (Announced => Announced')
  BY <1>1, FeedUnchanged
<1>7. Confirmed => Confirmed' \/ op[o].version = Len(values)
  BY <1>1, <1>3 DEF Confirmed
<1>8. answered[Len(values)] > 0 => answered'[Len(values)] > 0
  BY <1>1
<1>9. op[o].version \in Nat /\ op[o].version <= Len(values)
  BY <1>1, <1>2 DEF OpState, IInv, Happened
<1>10. CASE /\ op[o].version > 0 /\ w' = FinishParameter(w, op[o].version, [type |-> "Ok"])
            /\ Note(op[o].version)
  <2>. DEFINE version == op[o].version
  <2>1. version \in Versions /\ version # None
    <3>1. Len(values) \in Versions /\ Len(values) \in Nat
      BY Before
    <3>2. version \in Versions
      BY <1>9, <1>10, <3>1, VersionsAre
    <3>. QED
      BY <3>2, NoneIsAbsent
  <2>2. w' = SetParameter(w, version)
    BY <1>10 DEF FinishParameter
  <2>3. Note(version) /\ version <= Len(values)
    BY <1>9, <1>10
  <2>4. Confirmed => Confirmed' \/ version = Len(values)
    BY <1>7
  <2>. HIDE DEF version
  <2>5. /\ Handled(w, w') /\ w'.connected = w.connected
        /\ w'.known = version /\ w'.selected = Shown(version)
    BY <1>2, <2>1, <2>2, SetParameterHandled
  <2>6. LateOK'
    BY <1>1, <2>3, <2>5, AccessKept DEF Note
  <2>7. LiveOK'
    BY <1>1, <2>5, LiveKept
  <2>8. ChoiceOK'
    BY <1>1, <2>1, <2>5, KnownChoice
  <2>. QED
    BY <1>1, <1>2, <1>4, <1>5, <1>6, <1>8, <2>1, <2>3, <2>4, <2>5, <2>6, <2>7, <2>8, WindowStep
    DEF Note
<1>11. ASSUME NEW result \in Refusals, result.type # "Inconclusive" => op[o].version = 0,
              w' = FinishParameter(w, None, result), Note(None)
       PROVE  IInv'
  <2>1. /\ Handled(w, w') /\ w'.connected = w.connected /\ w'.known = w.known
        /\ w.known # None => w'.selected = Shown(w'.known)
        /\ result.type = "Inconclusive" => Marked(w') \/ w'.reading > 0
    BY <1>2, <1>11, RefusalsAreErrors, RefusedHandled
  <2>2. w.known # None
    BY <1>1 DEF IInv, ChoiceOK, Calling
  <2>3. LateOK'
    BY <1>1, <1>11, <2>1, AccessKept DEF Note
  <2>4. LiveOK'
    BY <1>1, <2>1, LiveKept
  <2>5. ChoiceOK'
    BY <1>1, <2>1, <2>2, KnownChoice
  <2>6. Confirmed => Confirmed' \/ Marked(w') \/ w'.reading > 0
    <3>1. Len(values) # 0
      BY Before, VersionsAre
    <3>. QED
      BY <1>7, <1>11, <2>1, <3>1
  <2>. QED
    BY <1>1, <1>2, <1>4, <1>5, <1>6, <1>8, <1>11, <2>1, <2>3, <2>4, <2>5, <2>6, Before, WindowStep
    DEF Note
<1>. QED
  BY <1>10, <1>11 DEF ApplyOperation

LEMMA Step == IInv /\ [Next]_vars => IInv'
<1>. SUFFICES ASSUME IInv, [Next]_vars PROVE IInv'
  OBVIOUS
<1>1. CASE UNCHANGED vars
  <2>1. SameFeed(feed') /\ GoodOps(op')
    BY <1>1, FeedUnchanged, OpsUnchanged
  <2>2. Typed' /\ Happened'
    BY <1>1 DEF IInv, Typed, Happened
  <2>3. Counted' /\ ChoiceOK'
    BY <1>1, Before, CountKept, RowUnaffected, VersionsAre
  <2>4. RowOK(w)' /\ AccessOK(w)' /\ LateOK' /\ HeardOK'
    BY <1>1, RowUnaffected, Unaffected
  <2>5. LiveOK'
    BY <1>1, LiveKept
  <2>6. CurrentOK'
    BY <1>1 DEF IInv, CurrentOK, Marked, Announced, Confirmed
  <2>. QED
    BY <2>2, <2>3, <2>4, <2>5, <2>6 DEF IInv
<1>2. CASE Next
  BY <1>2, ForeignChangeOK, ConnectFailsOK, ConnectOK, LinkLostOK, ResyncOK, ReadAnswersOK,
     ApplyWorkerEventOK, ApplyDiagnosisOK, ApplyReadOK, ApplyListOK, SwitchPageOK, SelectOK,
     DeclineOK, ApplyWriteOK, ConfirmOK, ExecuteOK, ApplyOperationOK DEF Next
<1>. QED
  BY <1>1, <1>2

LEMMA Invariance == Spec => []IInv
BY InitOK, Step, PTL DEF Spec

-----------------------------------------------------------------------------
(* The worker's connection and the window's.  Without one, each list of the *)
(* worker that is to be applied has a loss behind it, and the window claims *)
(* none of its own unless a loss is to be applied or a late list came.      *)

LossOK ==
    /\ revived \in BOOLEAN
    /\ ~link => /\ \A i \in 1..Len(feed) : feed[i].type = "DeviceSnapshot" => ~NoLossAfter(i)
                /\ w.connected => revived \/ ~NoLossAfter(0)

\* The feed and the connection stay, and the window is not connected by itself.
LEMMA LossKept ==
    ASSUME LossOK, feed' = feed, link' = link, revived' \in BOOLEAN, revived => revived',
           w'.connected => w.connected \/ revived'
    PROVE  LossOK'
BY DEF LossOK, NoLossAfter

\* A loss at the end of the feed is behind everything.
LEMMA LossAtTheEnd ==
    ASSUME LossOK, revived' = revived, Len(feed') \in Nat, Len(feed') >= 1,
           feed'[Len(feed')].type = "ConnectionLost"
    PROVE  LossOK'
<1>1. Len(feed') \in 1..Len(feed') /\ Len(feed') > 0
  OBVIOUS
<1>2. ~NoLossAfter(0)'
  BY <1>1 DEF NoLossAfter
<1>3. ASSUME NEW i \in 1..Len(feed'), feed'[i].type = "DeviceSnapshot"
      PROVE  ~NoLossAfter(i)'
  <2>1. i # Len(feed')
    BY <1>3
  <2>2. Len(feed') > i
    BY <2>1
  <2>. QED
    BY <1>1, <2>2 DEF NoLossAfter
<1>. QED
  BY <1>2, <1>3 DEF LossOK

LEMMA LossInit == Init => LossOK
<1>. SUFFICES ASSUME Init PROVE LossOK
  OBVIOUS
<1>1. feed = <<>> /\ Len(feed) = 0 /\ revived = FALSE
  BY DEF Init
<1>2. w.connected = FALSE
  <2>1. PICK mapped \in BOOLEAN, page \in BOOLEAN : w = NewWindow(mapped, page)
    BY DEF Init
  <2>. QED
    BY <2>1 DEF NewWindow
<1>3. \A i \in 1..Len(feed) : FALSE
  BY <1>1
<1>. QED
  BY <1>1, <1>2, <1>3 DEF LossOK

LEMMA WorkerLoss ==
    ASSUME IInv, LossOK,
           ForeignChange \/ ConnectFails \/ Connect \/ LinkLost \/ Resync \/ \E o \in Ops : Execute(o)
    PROVE  LossOK'
<1>0. feed \in Seq(WorkerEvent) /\ Len(feed) \in Nat
  BY DEF IInv, Typed
<1>1. ASSUME NEW value, Change(value), w' = w, link' = link, revived' = revived
      PROVE  LossOK'
  <2>1. ~link => feed' = feed
    BY <1>1 DEF Change
  <2>. QED
    BY <1>1, <2>1 DEF LossOK, NoLossAfter
<1>2. CASE ForeignChange
  BY <1>1, <1>2 DEF ForeignChange
<1>3. CASE ConnectFails
  <2>1. feed' = Append(feed, Event("ConnectionLost")) /\ revived' = revived
    BY <1>3 DEF ConnectFails
  <2>2. Len(feed') = Len(feed) + 1 /\ feed'[Len(feed) + 1] = Event("ConnectionLost")
    BY <1>0, <2>1, PlainEvent, AppendFeed
  <2>. QED
    BY <1>0, <2>1, <2>2, PlainEvent, LossAtTheEnd
<1>4. CASE Connect
  BY <1>4 DEF Connect, LossOK
<1>5. CASE LinkLost
  <2>1. revived' = revived
    BY <1>5 DEF LinkLost
  <2>2. PICK n \in 0..Len(feed) : feed' = Append(SubSeq(feed, 1, n), Event("ConnectionLost"))
    BY <1>5 DEF LinkLost
  <2>. DEFINE kept == SubSeq(feed, 1, n)
  <2>3. kept \in Seq(WorkerEvent)
    <3>1. n \in Int /\ 1 \in Int /\ \A i \in 1..n : feed[i] \in WorkerEvent
      BY <1>0
    <3>. QED
      BY <3>1, SubSeqProperties
  <2>. HIDE DEF kept
  <2>4. feed' = Append(kept, Event("ConnectionLost"))
    BY <2>2 DEF kept
  <2>5. Len(kept) \in Nat /\ Len(feed') = Len(kept) + 1
        /\ feed'[Len(kept) + 1] = Event("ConnectionLost")
    BY <2>3, <2>4
  <2>. QED
    BY <2>1, <2>5, PlainEvent, LossAtTheEnd
<1>6. CASE Resync
  BY <1>6 DEF Resync, LossOK
<1>7. ASSUME NEW o \in Ops, Execute(o)
      PROVE  LossOK'
  <2>1. w' = w /\ link' = link /\ revived' = revived
    BY <1>7 DEF Execute
  <2>2. CASE values[Len(values)] = op[o].new
    BY <1>7, <2>1, <2>2, LossKept DEF Execute, LossOK
  <2>3. CASE values[Len(values)] # op[o].new
    BY <1>1, <1>7, <2>1, <2>3 DEF Execute
  <2>. QED
    BY <2>2, <2>3
<1>. QED
  BY <1>2, <1>3, <1>4, <1>5, <1>6, <1>7

\* The window applies a loss, or what is before it.
LEMMA EventLoss ==
    ASSUME IInv, LossOK, ApplyWorkerEvent
    PROVE  LossOK'
<1>. DEFINE event == Head(feed)
<1>1. /\ feed # <<>> /\ feed' = Tail(feed) /\ link' = link
      /\ revived' = (revived /\ event.type \notin {"DeviceSnapshot", "ConnectionLost"})
  BY DEF ApplyWorkerEvent
<1>2. /\ w \in Window /\ feed \in Seq(WorkerEvent) /\ event \in WorkerEvent
      /\ Len(feed) \in Nat /\ Len(feed) >= 1 /\ event = feed[1]
      /\ Len(feed') = Len(feed) - 1 /\ \A i \in 1..Len(feed) - 1 : feed'[i] = feed[i + 1]
  <2>1. feed \in Seq(WorkerEvent)
    BY DEF IInv, Typed
  <2>. QED
    BY <1>1, <2>1, Before, TailFeed
<1>3. event.type = "DeviceSnapshot" \/ w'.connected = w.connected \/ w'.connected = FALSE
  <2>1. CASE event.type = "InvalidateRuleCache" /\ w' = MarkRulesStale(w)
    BY <1>2, <2>1, MarkHandled
  <2>2. CASE event.type = "ConnectionLost" /\ w' = ApplyConnectionLost(w)
    BY <1>2, <2>2, LostHandled
  <2>3. CASE event.type = "Reconnected" /\ w' = ApplyReconnected(w)
    BY <1>2, <2>3, ReconnectedHandled
  <2>4. CASE event.type = "ParameterChanged" /\ w' = SetParameter(w, event.version)
    <3>1. event.version \in Versions
      BY <1>2, <2>4 DEF WorkerEvent
    <3>. QED
      BY <1>2, <2>4, <3>1, SetParameterHandled
  <2>. QED
    BY <2>1, <2>2, <2>3, <2>4 DEF ApplyWorkerEvent
<1>4. event.type = "ConnectionLost" => w'.connected = FALSE
  <2>. SUFFICES ASSUME event.type = "ConnectionLost" PROVE w'.connected = FALSE
    OBVIOUS
  <2>1. w' = ApplyConnectionLost(w)
    BY DEF ApplyWorkerEvent
  <2>. QED
    BY <1>2, <2>1, LostHandled
<1>. HIDE DEF event
<1>5. \A n \in Nat : ~NoLossAfter(n + 1) => ~NoLossAfter(n)'
  <2>. SUFFICES ASSUME NEW n \in Nat,
                       NEW j \in 1..Len(feed), j > n + 1, feed[j].type = "ConnectionLost"
                PROVE  ~NoLossAfter(n)'
    BY DEF NoLossAfter
  <2>1. j - 1 \in 1..Len(feed) - 1 /\ j - 1 > n /\ j - 1 + 1 = j
    BY <1>2
  <2>2. feed'[j - 1].type = "ConnectionLost" /\ j - 1 \in 1..Len(feed')
    BY <1>2, <2>1
  <2>. QED
    BY <2>1, <2>2 DEF NoLossAfter
<1>6. event.type # "ConnectionLost" /\ ~NoLossAfter(0) => ~NoLossAfter(1)
  <2>. SUFFICES ASSUME event.type # "ConnectionLost",
                       NEW j \in 1..Len(feed), feed[j].type = "ConnectionLost"
                PROVE  ~NoLossAfter(1)
    BY DEF NoLossAfter
  <2>1. j # 1
    BY <1>2
  <2>2. j > 1
    BY <2>1
  <2>. QED
    BY <2>2 DEF NoLossAfter
<1>7. CASE link
  BY <1>1, <1>7 DEF LossOK
<1>8. CASE ~link
  <2>1. ASSUME NEW i \in 1..Len(feed'), feed'[i].type = "DeviceSnapshot"
        PROVE  ~NoLossAfter(i)'
    <3>1. i + 1 \in 1..Len(feed) /\ i \in Nat /\ i \in 1..Len(feed) - 1
      BY <1>2
    <3>2. feed[i + 1].type = "DeviceSnapshot"
      BY <1>2, <2>1, <3>1
    <3>. QED
      BY <1>5, <1>8, <3>1, <3>2 DEF LossOK
  <2>2. w'.connected => revived' \/ ~NoLossAfter(0)'
    <3>. SUFFICES ASSUME w'.connected, ~revived' PROVE ~NoLossAfter(0)'
      OBVIOUS
    <3>1. event.type # "ConnectionLost"
      BY <1>4
    <3>2. ~NoLossAfter(1)
      <4>1. CASE event.type = "DeviceSnapshot"
        BY <1>2, <1>8, <4>1 DEF LossOK
      <4>2. CASE event.type # "DeviceSnapshot"
        BY <1>1, <1>3, <1>6, <1>8, <3>1, <4>2 DEF LossOK
      <4>. QED
        BY <4>1, <4>2
    <3>. QED
      BY <1>5, <3>2
  <2>3. revived' \in BOOLEAN
    BY <1>1
  <2>. QED
    BY <2>1, <2>2, <2>3 DEF LossOK
<1>. QED
  BY <1>7, <1>8

\* A list read for an operation connects the window, and is remembered.
LEMMA ListLoss ==
    ASSUME IInv, LossOK, ApplyList
    PROVE  LossOK'
<1>1. feed' = feed /\ link' = link /\ revived' = (revived \/ (w'.connected /\ ~w.connected))
  BY DEF ApplyList
<1>2. revived' \in BOOLEAN /\ (revived => revived') /\ (w'.connected => w.connected \/ revived')
  <2>1. revived \in BOOLEAN
    BY DEF LossOK
  <2>. QED
    BY <1>1, <2>1
<1>. QED
  BY <1>1, <1>2, LossKept

\* The other steps of the window leave its connection as it is.
LEMMA OtherLoss ==
    ASSUME IInv, LossOK, feed' = feed, link' = link, revived' = revived,
           w'.connected = w.connected
    PROVE  LossOK'
BY LossKept DEF LossOK

LEMMA OperationLoss ==
    ASSUME IInv, LossOK, NEW o \in Ops, ApplyOperation(o)
    PROVE  LossOK'
<1>1. feed' = feed /\ link' = link /\ revived' = revived /\ op[o].phase = "calling"
  BY DEF ApplyOperation
<1>2. w \in Window
  BY Before
<1>3. CASE op[o].version > 0 /\ w' = FinishParameter(w, op[o].version, [type |-> "Ok"])
  <2>1. Len(values) \in Versions /\ Len(values) \in Nat /\ op \in [Ops -> OpState]
    BY Before
  <2>2. op[o].version \in Nat /\ op[o].version <= Len(values)
    BY <1>1, <2>1 DEF OpState, IInv, Happened
  <2>3. op[o].version \in Versions
    BY <1>3, <2>1, <2>2, VersionsAre
  <2>4. w' = SetParameter(w, op[o].version)
    BY <1>3 DEF FinishParameter
  <2>5. w'.connected = w.connected
    BY <1>2, <2>3, <2>4, SetParameterHandled
  <2>. QED
    BY <1>1, <2>5, OtherLoss
<1>4. ASSUME NEW result \in Refusals, w' = FinishParameter(w, None, result)
      PROVE  LossOK'
  <2>1. w'.connected = w.connected
    BY <1>2, <1>4, RefusalsAreErrors, RefusedHandled
  <2>. QED
    BY <1>1, <2>1, OtherLoss
<1>. QED
  BY <1>3, <1>4 DEF ApplyOperation

LEMMA TaskLoss ==
    ASSUME IInv, LossOK, ReadAnswers \/ ApplyDiagnosis \/ ApplyRead \/ ApplyWrite
    PROVE  LossOK'
<1>0. w \in Window
  BY Before
<1>1. CASE ReadAnswers
  <2>1. feed' = feed /\ link' = link /\ revived' = revived /\ w' = [w EXCEPT !.reading = @ - 1]
    BY <1>1 DEF ReadAnswers
  <2>2. w'.connected = w.connected
    BY <1>0, <2>1 DEF Window
  <2>. QED
    BY <2>1, <2>2, OtherLoss
<1>2. CASE ApplyDiagnosis
  <2>1. feed' = feed /\ link' = link /\ revived' = revived
    BY <1>2 DEF ApplyDiagnosis
  <2>2. PICK d \in Diagnoses : w' = [ApplyAccess(w, d) EXCEPT !.probing = @ - 1]
    BY <1>2 DEF ApplyDiagnosis
  <2>. DEFINE shown == ApplyAccess(w, d)
  <2>3. shown \in Window /\ SamePage(shown, w)
    BY <1>0, DiagnosesAreStates, AccessHandled
  <2>4. w' = [shown EXCEPT !.probing = @ - 1]
    BY <2>2
  <2>. HIDE DEF shown
  <2>5. w'.connected = w.connected
    BY <2>3, <2>4 DEF Window, SamePage
  <2>. QED
    BY <2>1, <2>5, OtherLoss
<1>3. CASE ApplyRead
  <2>1. feed' = feed /\ link' = link /\ revived' = revived
    BY <1>3 DEF ApplyRead
  <2>2. PICK v \in Versions : w' = SetParameter(w, v)
    BY <1>3 DEF ApplyRead
  <2>3. w'.connected = w.connected
    BY <1>0, <2>2, SetParameterHandled
  <2>. QED
    BY <2>1, <2>3, OtherLoss
<1>4. CASE ApplyWrite
  <2>1. feed' = feed /\ link' = link /\ revived' = revived
    BY <1>4 DEF ApplyWrite
  <2>2. PICK write \in {"Devices", "Rules"}, result \in Refusals \cup {[type |-> "Ok"]} :
          w' = Report(Finish(w, write, result), write, result)
    BY <1>4 DEF ApplyWrite
  <2>. DEFINE finished == Finish(w, write, result)
  <2>3. write \in Write
    BY DEF Write
  <2>4. finished \in Window /\ finished.connected = w.connected
    BY <1>0, <2>3, FinishHandled DEF Handled
  <2>5. w' = Report(finished, write, result)
    BY <2>2
  <2>. HIDE DEF finished
  <2>6. w'.connected = finished.connected
    BY <2>3, <2>4, <2>5, ReportHandled
  <2>. QED
    BY <2>1, <2>4, <2>6, OtherLoss
<1>. QED
  BY <1>1, <1>2, <1>3, <1>4

LEMMA UserLoss ==
    ASSUME IInv, LossOK, SwitchPage \/ Select \/ Decline \/ \E o \in Ops : Confirm(o)
    PROVE  LossOK'
<1>0. w \in Window
  BY Before
<1>1. CASE SwitchPage
  <2>1. feed' = feed /\ link' = link /\ revived' = revived
        /\ w' = ReloadPolicyIfNeeded([w EXCEPT !.visible = ~@])
    BY <1>1 DEF SwitchPage
  <2>. DEFINE turned == [w EXCEPT !.visible = ~@]
  <2>2. turned \in Window /\ turned.connected = w.connected
    BY ZenonT(60), <1>0 DEF Window
  <2>3. w' = ReloadPolicyIfNeeded(turned)
    BY <2>1
  <2>. HIDE DEF turned
  <2>4. w'.connected = turned.connected
    BY <2>2, <2>3, ReloadHandled
  <2>. QED
    BY <2>1, <2>2, <2>4, OtherLoss
<1>2. CASE Select
  <2>1. feed' = feed /\ link' = link /\ revived' = revived
    BY <1>2 DEF Select
  <2>2. PICK new \in Allowed \ {w.selected} :
          w' = [w EXCEPT !.selected = new,
                         !.asking = IF new = values[w.known] THEN None ELSE new]
    BY <1>2 DEF Select
  <2>3. w'.connected = w.connected
    BY <1>0, <2>2 DEF Window
  <2>. QED
    BY <2>1, <2>3, OtherLoss
<1>3. CASE Decline
  <2>. DEFINE rest == [w EXCEPT !.asking = None]
  <2>1. feed' = feed /\ link' = link /\ revived' = revived /\ w' = RevertParameter(rest)
    BY <1>3 DEF Decline
  <2>2. rest \in Window /\ rest.connected = w.connected
    BY AskedNoMore
  <2>. HIDE DEF rest
  <2>3. w'.connected = rest.connected
    BY <2>1, <2>2, RevertHandled
  <2>. QED
    BY <2>1, <2>2, <2>3, OtherLoss
<1>4. ASSUME NEW o \in Ops, Confirm(o)
      PROVE  LossOK'
  <2>1. feed' = feed /\ link' = link /\ revived' = revived /\ w' = [w EXCEPT !.asking = None]
    BY <1>4 DEF Confirm
  <2>2. w'.connected = w.connected
    BY <2>1, AskedNoMore
  <2>. QED
    BY <2>1, <2>2, OtherLoss
<1>. QED
  BY <1>1, <1>2, <1>3, <1>4

LEMMA LossStep == IInv /\ LossOK /\ [Next]_vars => LossOK'
<1>. SUFFICES ASSUME IInv, LossOK, [Next]_vars PROVE LossOK'
  OBVIOUS
<1>1. CASE UNCHANGED vars
  BY <1>1, OtherLoss
<1>2. CASE Next
  BY <1>2, WorkerLoss, EventLoss, ListLoss, OperationLoss, TaskLoss, UserLoss DEF Next
<1>. QED
  BY <1>1, <1>2

LEMMA LossInvariance == Spec => []LossOK
BY Invariance, LossInit, LossStep, PTL DEF Spec

-----------------------------------------------------------------------------
(* The theorems.                                                           *)

\* Every version in circulation has been a value, every diagnosis and every
\* state of the widgets is one the code has.
THEOREM TypeCorrect == Spec => []TypeOK
<1>1. IInv /\ LossOK => TypeOK
  BY TypesFollow DEF LossOK
<1>. QED
  BY <1>1, Invariance, LossInvariance, PTL

\* Through values that arrive, choices that are put back and reconnections, a
\* write's controls are off exactly while its refusal stands.
THEOREM RefusedWritesAreOff == Spec => []DenialsDisableControls
<1>1. IInv => DenialsDisableControls
  BY DEF IInv, RowOK, DenialsDisableControls
<1>. QED
  BY <1>1, Invariance, PTL

\* Whatever becomes of a change, and whatever arrives meanwhile, the row ends
\* with the value last known.
THEOREM ChoicesAreSettled == Spec => []ChoiceIsPending
<1>1. IInv => ChoiceIsPending
  BY DEF IInv, ChoiceOK, Calling, ChoiceIsPending
<1>. QED
  BY <1>1, Invariance, PTL

\* In whatever order reads, signals and own changes are answered, at rest the
\* visible row has the daemon's value, or an older answer came last, or a read
\* failed.
THEOREM ParameterIsCurrent == Spec => []RowConverges
<1>1. IInv => RowConverges
  <2>. SUFFICES ASSUME IInv, Rest, w.visible
                PROVE  \/ w.known = Len(values)
                       \/ w.known # None /\ w.known < heard
                       \/ failed
    BY DEF RowConverges
  <2>1. /\ link /\ feed = <<>> /\ w.reading = 0
        /\ \A v \in Versions : answered[v] = 0
        /\ \A o \in Ops : op[o].phase \in {"idle", "done"}
    BY DEF Rest
  <2>2. /\ Len(values) \in Versions /\ Len(values) \in Nat /\ Len(values) > 0 /\ heard \in Nat
        /\ w.known \in Versions \cup {None}
    BY Before, VersionsAre DEF IInv, Typed, Window
  <2>3. ~Announced /\ ~Confirmed
    BY <2>1 DEF Announced, Confirmed
  <2>4. w.connected
    BY <2>1 DEF IInv, LiveOK
  <2>5. heard = Len(values) \/ failed
    BY <2>1, <2>2, <2>3, <2>4 DEF IInv, CurrentOK, Marked
  <2>6. heard = Len(values) => w.known # None /\ w.known <= heard
    BY <2>2 DEF IInv, HeardOK
  <2>7. w.known # None => w.known \in Nat
    BY <2>2, VersionsAre
  <2>. QED
    BY <2>2, <2>5, <2>6, <2>7
<1>. QED
  BY <1>1, Invariance, PTL

\* However probes, losses and lists of devices interleave, the indicator claims
\* a connection the worker does not have only until the window has applied its
\* loss, or since a list read for an operation arrived, and at rest it tells
\* what is known.
THEOREM IndicatorTellsTheTruth == Spec => []IndicatorIsTrue
<1>1. IInv /\ LossOK => IndicatorIsTrue
  <2>. SUFFICES ASSUME IInv, LossOK PROVE IndicatorIsTrue
    OBVIOUS
  <2>1. AccessOK(w) /\ LateOK /\ LiveOK
    BY DEF IInv
  <2>2. w.indicator \in {"Connected", "ReadOnly"} => w.connected /\ w.banner = "hidden"
    BY <2>1 DEF AccessOK
  <2>3. w.connected => link \/ revived \/ LossIsComing
    <3>1. DOMAIN feed = 1..Len(feed)
      BY DEF IInv, Typed
    <3>. QED
      BY <3>1 DEF LossOK, NoLossAfter, LossIsComing
  <2>4. ASSUME Rest
        PROVE  /\ w.connected
               /\ AccessProblem(w) => w.banner = "problem" /\ (UnreachableReported(w) => late)
               /\ ~AccessProblem(w) => w.banner = "hidden" /\ w.indicator = ConnectedIndicator(w)
    <3>1. link /\ feed = <<>> /\ ~(w.probing > 0)
      BY <2>4 DEF Rest
    <3>2. w.connected
      BY <2>1, <3>1 DEF LiveOK
    <3>. QED
      BY <2>1, <3>1, <3>2 DEF AccessOK, LateOK
  <2>. QED
    BY <2>2, <2>3, <2>4 DEF IndicatorIsTrue
<1>. QED
  BY <1>1, Invariance, LossInvariance, PTL
=============================================================================
