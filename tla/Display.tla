------------------------------ MODULE Display ------------------------------
(***************************************************************************)
(* gui.c and ssd1306.c: three tasks draw into one buffer, and each change  *)
(* ends with a transfer of the buffer to the display.  Drawing does not    *)
(* block; a transfer does: it waits for the one before, and while it runs  *)
(* other tasks draw into what it has not sent yet.  A transfer may fail,   *)
(* and nobody looks at its result.                                         *)
(*                                                                         *)
(* A cell is a character of six columns, 21 to a page of eight rows; the   *)
(* separators lie on the lowest row of a page or on the first column of    *)
(* cell 15, and drawing a character erases them from its cell.             *)
(***************************************************************************)
EXTENDS Integers, Sequences

CONSTANTS
  DeviceIp, Pending,     \* the address of the device, "DHCP pending..."
  TargetIps,             \* texts of addresses, at most 15 characters
  Channels,              \* numbers given as a channel
  Counts,                \* numbers of received frames
  MaxFails               \* bound: transfers that fail

(* Texts of addresses fit their field; uint8_t and uint16_t hold the rest.  *)
ASSUME DisplayAssumption ==
  /\ \A text \in {DeviceIp, Pending} \cup TargetIps : \E n \in 0 .. 15 : DOMAIN text = 1 .. n
  /\ Channels \subseteq Nat /\ \A n \in Channels : n < 256
  /\ Counts \subseteq Nat /\ \A n \in Counts : n < 65536

VARIABLES
  lcd,                   \* SSD1306_Lcd: characters, then separators
  oled,                  \* what the display shows
  latest,                \* history: the values given to the GUI_ functions
  boot,                  \* calls the Init task has still to make
  todo,                  \* GUI_ChangeRx(1) of the sniffing task, to come?
  busy,                  \* the task whose transfer runs
  row,                   \* the page it sends next
  waits,                 \* tasks that wait for their transfer
  ok,                    \* did the last transfer succeed?
  fails

displayVars == <<lcd, oled, latest, boot, todo, busy, row, waits, ok, fails>>

Tasks   == {"init", "dashboard", "sniffing"}
Nobody  == "nobody"
Pages   == 0 .. 7
Columns == 0 .. 20
Cells   == Pages \X Columns
Space   == "blank"            \* drawn, it erases
Rep(c, n) == [i \in 1 .. n |-> c]
Blank   == [ch |-> Space, inv |-> FALSE, line |-> FALSE]

-----------------------------------------------------------------------------
(* Drawing.  Characters after the end of a page go to the next one.        *)
SSD1306_DrawString(screen, x, y, str, inverted) ==
  [c \in Cells |->
     LET i == 21 * (c[1] - y) + c[2] - x + 1
     IN  IF i \in DOMAIN str
         THEN [ch |-> str[i], inv |-> inverted, line |-> FALSE] ELSE screen[c]]

SSD1306_DrawLine(screen, cells) ==
  [c \in Cells |-> IF c \in cells THEN [screen[c] EXCEPT !.line = TRUE] ELSE screen[c]]

Under(y)  == {y} \X (0 .. 15)
Right     == Pages \X {15}

(* Mutated form: the old text is not blanked.                              *)
FieldOver(screen, x, y, width, str) == SSD1306_DrawString(screen, x, y, str, FALSE)

(* A field: its width is blanked, its text is drawn.                       *)
Field(screen, x, y, width, str) ==
  SSD1306_DrawString(SSD1306_DrawString(screen, x, y, Rep(Space, width), FALSE), x, y, str, FALSE)

Title  == <<"m", "S", "n">> \o Rep(Space, 18)
Empty  == [c \in Cells |-> Blank]

GUI_Init ==
  LET s1 == SSD1306_DrawString(Empty, 0, 0, Title, TRUE)
      s2 == SSD1306_DrawLine(SSD1306_DrawString(s1, 0, 1, Rep("d", 10), FALSE), Under(2))
      s3 == SSD1306_DrawLine(SSD1306_DrawString(s2, 0, 3, Rep("t", 10), FALSE), Under(4))
  IN  SSD1306_DrawLine(SSD1306_DrawString(s3, 0, 5, Rep("r", 12), FALSE), Right)

Figure(n)  == <<"0", "1", "2", "3", "4", "5", "6", "7", "8", "9">>[n + 1]
ito2a(n)  == IF n < 100 THEN <<Figure(n \div 10), Figure(n % 10)>> ELSE <<"o", "0">>
ltoa(n)   == LET digits == IF n < 10 THEN 1 ELSE IF n < 100 THEN 2 ELSE IF n < 1000 THEN 3
                           ELSE IF n < 10000 THEN 4 ELSE 5      \* of a uint16_t
             IN  [i \in 1 .. digits |-> Figure((n \div 10^(digits - i)) % 10)]

GUI_ChangeDeviceIp(s, ip) == SSD1306_DrawLine(Field(s, 0, 2, 15, ip), Under(2))
GUI_ChangeTargetIp(s, ip) == SSD1306_DrawLine(Field(s, 0, 4, 15, ip), Under(4))
GUI_ChangeProto(s, proto) == Field(s, 17, 1, 4, proto)
GUI_ChangeChannel(s, n)   == Field(s, 18, 2, 2, ito2a(n))
GUI_PeriodicUpdate(s, n)  == Field(s, 0, 6, 15, ltoa(n))

GUI_ChangeRx(s, rx) ==
  LET s1 == SSD1306_DrawString(s, 17, 4, Rep(Space, 4), rx)
      s2 == SSD1306_DrawString(s1, 17, 5, IF rx THEN <<Space, "R", "X", Space>> ELSE Rep(Space, 4), rx)
  IN  SSD1306_DrawString(s2, 17, 6, Rep(Space, 4), rx)

Draw(s, f, v) ==
  CASE f \in {"pending", "device"} -> GUI_ChangeDeviceIp(s, v)
    [] f = "target"  -> GUI_ChangeTargetIp(s, v)
    [] f = "proto"   -> GUI_ChangeProto(s, v)
    [] f = "channel" -> GUI_ChangeChannel(s, v)
    [] f = "rx"      -> GUI_ChangeRx(s, v)
    [] f = "count"   -> GUI_PeriodicUpdate(s, v)

Protos == {Rep("B", 4), Rep("I", 4)}
Inputs(f) ==
  CASE f = "pending" -> {Pending}
    [] f = "device"  -> {DeviceIp}
    [] f = "target"  -> TargetIps
    [] f = "proto"   -> Protos
    [] f = "channel" -> Channels
    [] f = "rx"      -> BOOLEAN
    [] f = "count"   -> Counts

-----------------------------------------------------------------------------
(* Init_Main; without DHCP nothing is pending.                             *)
InitCalls == <<"pending", "device", "target", "rx", "proto", "channel">>

DisplayInit ==
  /\ lcd = GUI_Init /\ oled = Empty /\ latest = <<>>
  /\ boot \in {InitCalls, Tail(InitCalls)} /\ todo \in BOOLEAN
  /\ busy = Nobody /\ row = 0 /\ waits = {} /\ ok = TRUE /\ fails = 0

(* SSD1306_UpdateScreen: I2C_transfer waits while another transfer runs.   *)
SSD1306_UpdateScreen(task) ==
  IF busy = Nobody THEN busy' = task /\ row' = 0 /\ UNCHANGED waits
  ELSE waits' = waits \cup {task} /\ UNCHANGED <<busy, row>>

Place(f) == IF f = "pending" THEN "device" ELSE f

(* A call of a GUI_ function by a task.                                    *)
Call(task, f, v) ==
  /\ task # busy /\ task \notin waits
  /\ lcd' = Draw(lcd, f, v)
  /\ latest' = [x \in DOMAIN latest \cup {Place(f)} |-> IF x = Place(f) THEN v ELSE latest[x]]
  /\ SSD1306_UpdateScreen(task)
  /\ UNCHANGED <<oled, ok, fails>>

InitTask ==
  /\ boot # <<>>
  /\ \E v \in Inputs(Head(boot)) :
       (Head(boot) = "rx" => v = FALSE) /\ Call("init", Head(boot), v)
  /\ boot' = Tail(boot) /\ UNCHANGED todo

(* The Init task ends after its last transfer; it has created the others.  *)
Booted == boot = <<>> /\ "init" # busy /\ "init" \notin waits

(* SetStatusProperty.                                                      *)
SetStatusProperty ==
  /\ Booted
  /\ \E f \in {"target", "proto", "channel", "rx"} : \E v \in Inputs(f) : Call("dashboard", f, v)
  /\ UNCHANGED <<boot, todo>>

(* Mutated form: a display that did not answer is left alone.              *)
PeriodicIfShown ==
  /\ Booted /\ ok
  /\ \E n \in Counts : Call("dashboard", "count", n)
  /\ UNCHANGED <<boot, todo>>

(* The end of a round of Dashboard_Main.                                   *)
Periodic ==
  /\ Booted
  /\ \E n \in Counts : Call("dashboard", "count", n)
  /\ UNCHANGED <<boot, todo>>

(* Sniffing_Main, when the device starts running.                          *)
Sniffing_Main ==
  /\ Booted /\ todo
  /\ Call("sniffing", "rx", TRUE)
  /\ todo' = FALSE /\ UNCHANGED boot

(* The next transfer begins with the end of this one.                      *)
NextTransfer ==
  IF waits = {} THEN busy' = Nobody /\ UNCHANGED waits
  ELSE \E t \in waits : busy' = t /\ waits' = waits \ {t}

SendPage ==
  /\ busy # Nobody
  /\ oled' = [c \in Cells |-> IF c[1] = row THEN lcd[c] ELSE oled[c]]
  /\ row' = (row + 1) % 8
  /\ IF row = 7 THEN ok' = TRUE /\ NextTransfer ELSE UNCHANGED <<busy, waits, ok>>
  /\ UNCHANGED <<lcd, latest, boot, todo, fails>>

(* The display does not acknowledge its address.                           *)
TransferFails ==
  /\ busy # Nobody /\ row = 0 /\ fails < MaxFails
  /\ fails' = fails + 1 /\ ok' = FALSE /\ NextTransfer
  /\ UNCHANGED <<lcd, oled, latest, boot, todo, row>>

DisplayNext ==
  InitTask \/ SetStatusProperty \/ Periodic \/ Sniffing_Main \/ SendPage \/ TransferFails

-----------------------------------------------------------------------------
(* The layout: what each place must show for the values given last.        *)
CharAt(text, x, c) == IF c[2] - x + 1 \in DOMAIN text THEN text[c[2] - x + 1] ELSE Space
Value(f) == IF f \in DOMAIN latest THEN latest[f] ELSE <<>>
Formatted(f, digits(_)) == IF f \in DOMAIN latest THEN digits(latest[f]) ELSE <<>>
RxOn == "rx" \in DOMAIN latest /\ latest["rx"]

Text(c) ==
  CASE c[1] = 0 -> CharAt(Title, 0, c)
    [] c[1] = 1 /\ c[2] <= 15 -> CharAt(Rep("d", 10), 0, c)
    [] c[1] = 1 /\ c[2] > 15  -> CharAt(Value("proto"), 17, c)
    [] c[1] = 2 /\ c[2] <= 15 -> CharAt(Value("device"), 0, c)
    [] c[1] = 2 /\ c[2] > 15  -> CharAt(Formatted("channel", ito2a), 18, c)
    [] c[1] = 3 -> CharAt(Rep("t", 10), 0, c)
    [] c[1] = 4 -> CharAt(Value("target"), 0, c)
    [] c[1] = 5 /\ c[2] <= 15 -> CharAt(Rep("r", 12), 0, c)
    [] c[1] = 5 /\ c[2] > 15  -> IF RxOn THEN CharAt(<<"R", "X">>, 18, c) ELSE Space
    [] c[1] = 6 -> CharAt(Formatted("count", ltoa), 0, c)
    [] c[1] = 7 -> Space

Layout == [c \in Cells |->
  [ch   |-> Text(c),
   inv  |-> c[1] = 0 \/ (RxOn /\ c \in (4 .. 6) \X (17 .. 20)),
   line |-> c \in Under(2) \cup Under(4) \cup Right]]

(* The buffer shows the values given last, nothing of older ones, and all  *)
(* separators, in whatever order the tasks change the fields; and when no  *)
(* transfer runs or waits and the last one succeeded, the display shows    *)
(* the buffer, although the tasks draw while a transfer runs.              *)
BufferIsLayout ==
  /\ \A c \in DOMAIN lcd : lcd[c] = Layout[c]
  /\ busy = Nobody /\ DOMAIN latest # {} /\ ok => oled = lcd

(* The Init and the dashboard task go on, and a transfer ends.             *)
DisplayFairness == WF_displayVars(InitTask) /\ WF_displayVars(SendPage) /\ WF_displayVars(Periodic)

DisplaySpec == DisplayInit /\ [][DisplayNext]_displayVars /\ DisplayFairness

(* A change whose transfer failed is shown all the same: the display shows *)
(* the buffer again and again.                                             *)
ScreenCatchesUp == []<>(oled = lcd)
=============================================================================
