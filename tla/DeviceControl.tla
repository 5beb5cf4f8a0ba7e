---------------------------- MODULE DeviceControl ----------------------------
(***************************************************************************)
(* The life of the device between power cycles: Init_Main sets it up from  *)
(* the status vector (STV), the dashboard task serves the control page and *)
(* carries out its requests, the sniffing task may start the radio by      *)
(* itself, and RestartMCU begins all of it again with the same STV.        *)
(*                                                                         *)
(* The STV is the only state a restart keeps.  The page a browser shows is *)
(* the state of the device at the time it was sent: the buttons it enables *)
(* are the only protection the requests have.                              *)
(*                                                                         *)
(* Interleaving.  The tasks have one priority and no time slice: a step is *)
(* the code between two blocking calls (RF_open, RF_close, an update of    *)
(* the display, a sleep).                                                  *)
(***************************************************************************)
EXTENDS Naturals, Sequences

CONSTANTS
  Browsers,              \* clients of the control page
  Channels,              \* channel numbers a client can ask for
  Addresses,             \* target addresses a client can ask for
  Flash,                 \* status vectors that may have been programmed
  Faults,                \* subset of {"reload", "lost", "autostart"}: a
                         \* browser repeats its last request; a page does
                         \* not arrive; the programmed status says running
  MaxPowerCycles         \* bound on the losses of power

ASSUME FaultAssumption == Faults \subseteq {"reload", "lost", "autostart"}
ASSUME BoundAssumption == MaxPowerCycles \in Nat /\ Channels \subseteq Nat

VARIABLES
  stv,                   \* the status vector in RAM
  restart,               \* STV_REQUEST_RESTART
  dash,                  \* Init_Main, then Dashboard_Main: where it is
  sniff,                 \* Sniffing_Main: where it is
  sniffProto,            \* its constant proto
  network,               \* how the W5500 got its address
  req, todo, client,     \* the request served, its keys to do, its sender
  CurrentRfProtocol,     \* the global of radio_proc.c
  tuned,                 \* channels in the command objects of the radio
  rfHandle,              \* is the handle of the radio set?
  opens,                 \* calls of RF_open that no RF_close has undone
  radio,                 \* what the RF core does: [on, proto, chan]
  gui,                   \* what the display shows
  page,                  \* what every browser shows
  last,                  \* the last request of every browser
  faults,                \* the faults of this behaviour
  wanted,                \* history: was the last command a start?
  cycles                 \* losses of power so far

taskVars  == <<dash, sniff, sniffProto, network>>
reqVars   == <<req, todo, client>>
radioVars == <<CurrentRfProtocol, tuned, rfHandle, opens, radio>>
webVars   == <<page, last>>
bounds    == <<faults, cycles>>
vars == <<stv, restart, taskVars, reqVars, radioVars, gui, webVars,
          wanted, bounds>>

Protocols == {"ble", "ieee"}
(* initCmdObjects knows these channels and ignores any other.              *)
Valid(proto, ch) == IF proto = "ble" THEN ch \in 37 .. 39 ELSE ch \in 11 .. 26

(* A status vector is programmed whole, and for a channel of its protocol. *)
ASSUME FlashAssumption ==
  /\ Flash \subseteq [dhcp : {"yes", "no"}, target : Addresses,
                      proto : Protocols, chan : Channels, running : BOOLEAN]
  /\ \A status \in Flash : Valid(status.proto, status.chan)

(* RAM when the power comes; STV_CopyStvFromFlashIfNotYet looks for it.    *)
Cleared   == [dhcp |-> "none", target |-> "none", proto |-> "none",
              chan |-> 0, running |-> FALSE]
Dark      == [rx |-> FALSE, proto |-> "none", chan |-> 0, target |-> "none"]
RadioOff  == [on |-> FALSE, proto |-> "none", chan |-> 0]
Untuned   == [ble |-> 0, ieee |-> 0]
NoPage    == [loaded |-> FALSE, stv |-> Cleared]
Get(keys) == [keys |-> keys, h |-> "none", r |-> FALSE, p |-> "none", k |-> 0,
              t |-> "none"]

-----------------------------------------------------------------------------
(* What a browser can ask for: the page's address, and the forms that      *)
(* index.html leaves enabled in the state the page shows.                  *)

NetForms == {[Get(keys) EXCEPT !.h = IF keys = <<"h">> THEN "yes" ELSE "no"]
               : keys \in {<<"h">>, <<"h", "s">>}}

RunForm(shown) == [Get(<<"r">>) EXCEPT !.r = ~shown.running]

(* The channel list follows the protocol chosen on the page.               *)
Tunings(shown) ==
  {<<shown.proto, shown.chan>>}
    \cup {pk \in Protocols \X Channels : Valid(pk[1], pk[2])}

TargetForm(tuning, t) ==
  [Get(<<"p", "k", "t">>) EXCEPT !.p = tuning[1], !.k = tuning[2], !.t = t]

TargetForms(shown) ==
  {TargetForm(tuning, t) : tuning \in Tunings(shown),
                           t \in Addresses \cup {shown.target, "misspelt"}}

Requests(b) ==
  {Get(<<>>)}
    \cup (IF page[b].loaded
          THEN NetForms \cup {RunForm(page[b].stv)}
                 \cup (IF page[b].stv.running THEN {}
                       ELSE TargetForms(page[b].stv))
          ELSE {})
    \cup (IF "reload" \in faults THEN {last[b]} ELSE {})

-----------------------------------------------------------------------------
(* The radio.                                                              *)

initCmdObjects(ch) ==
  tuned' = [proto \in Protocols |-> IF Valid(proto, ch) THEN ch ELSE tuned[proto]]

(* Radio_SetUpAndBeginRx up to RF_open, and from there on.                 *)
Radio_SetUp(proto, ch) ==
  /\ CurrentRfProtocol' = proto
  /\ initCmdObjects(ch)
  /\ opens' = IF opens < 2 THEN opens + 1 ELSE opens

Radio_BeginRx(proto) ==
  /\ rfHandle' = TRUE
  /\ radio' = [on |-> TRUE, proto |-> proto, chan |-> tuned[proto]]

(* RF_flushCmd and RF_close do nothing without a handle.                   *)
Radio_StopRx ==
  IF rfHandle THEN radio' = RadioOff /\ opens' = 0 ELSE UNCHANGED <<radio, opens>>

(* The program starts from its entry point; the RF core is not told.       *)
RestartMCU ==
  /\ dash' = "reset" /\ sniff' = "none" /\ sniffProto' = "none"
  /\ network' = "none"
  /\ req' = Get(<<>>) /\ todo' = <<>>
  /\ CurrentRfProtocol' = "ble" /\ tuned' = Untuned
  /\ rfHandle' = FALSE /\ opens' = 0
  /\ gui' = Dark

-----------------------------------------------------------------------------
(* Init_Main.                                                              *)

Programmed == {status \in Flash : status.running => "autostart" \in faults}

(* Mutated form: the restart request is not cleared.                       *)
BeginKeepsRestart ==
  /\ dash = "reset" /\ dash' = "network"
  /\ IF stv = Cleared THEN stv' \in Programmed ELSE UNCHANGED stv
  /\ IF stv = Cleared THEN wanted' = stv'.running ELSE UNCHANGED wanted
  /\ UNCHANGED <<restart, sniff, sniffProto, network, reqVars, radioVars, gui,
                 webVars, bounds>>

Init_Begin ==
  /\ dash = "reset" /\ dash' = "network"
  /\ restart' = FALSE
  /\ IF stv = Cleared THEN stv' \in Programmed ELSE UNCHANGED stv
  /\ IF stv = Cleared THEN wanted' = stv'.running ELSE UNCHANGED wanted
  /\ UNCHANGED <<sniff, sniffProto, network, reqVars, radioVars, gui, webVars,
                 bounds>>

(* The rest of Init_Main, up to the creation of the two tasks.             *)
Init_Network ==
  /\ dash = "network" /\ dash' = "idle"
  /\ network' = IF stv.dhcp = "yes" THEN "dhcp" ELSE "static"
  /\ gui' = [rx |-> FALSE, proto |-> stv.proto, chan |-> stv.chan,
             target |-> stv.target]
  /\ sniff' = "start"
  /\ UNCHANGED <<stv, restart, sniffProto, reqVars, radioVars, webVars, wanted,
                 bounds>>

(* Mutated form: the device tries DHCP again for ever.                     *)
DhcpFailsAgain ==
  /\ dash = "network" /\ stv.dhcp = "yes"
  /\ RestartMCU
  /\ UNCHANGED <<stv, restart, client, radio, webVars, wanted, bounds>>

(* No DHCP server answered: restart with the static address.               *)
Init_DhcpFails ==
  /\ dash = "network" /\ stv.dhcp = "yes"
  /\ stv' = [stv EXCEPT !.dhcp = "no"]
  /\ RestartMCU
  /\ UNCHANGED <<restart, client, radio, webVars, wanted, bounds>>

-----------------------------------------------------------------------------
(* Sniffing_Main up to its loop.                                           *)
(* Mutated form: the running status is not looked at.                      *)
StartIgnoresStatus ==
  /\ sniff = "start" /\ sniff' = "loop"
  /\ sniffProto' = stv.proto
  /\ UNCHANGED <<stv, restart, dash, network, reqVars, radioVars, gui, webVars,
                 wanted, bounds>>

Sniffing_Start ==
  /\ sniff = "start"
  /\ sniffProto' = stv.proto
  /\ IF stv.running
     THEN /\ sniff' = "opening"
          /\ Radio_SetUp(stv.proto, stv.chan)
     ELSE /\ sniff' = "loop"
          /\ UNCHANGED <<CurrentRfProtocol, tuned, opens>>
  /\ UNCHANGED <<stv, restart, dash, network, reqVars, rfHandle, radio, gui,
                 webVars, wanted, bounds>>

Sniffing_Opened ==
  /\ sniff = "opening" /\ sniff' = "loop"
  /\ Radio_BeginRx(sniffProto)
  /\ gui' = [gui EXCEPT !.rx = TRUE]
  /\ UNCHANGED <<stv, restart, dash, sniffProto, network, reqVars,
                 CurrentRfProtocol, tuned, opens, webVars, wanted, bounds>>

-----------------------------------------------------------------------------
(* Dashboard_Main: a request is read while the sniffing task has long      *)
(* reached its first blocking call.                                        *)
Dashboard_Accept(b) ==
  /\ dash = "idle" /\ dash' = "handle" /\ sniff # "start"
  /\ client' = b
  /\ req' \in Requests(b)
  /\ todo' = req'.keys
  /\ last' = IF "reload" \in faults THEN [last EXCEPT ![b] = req'] ELSE last
  /\ UNCHANGED <<stv, restart, sniff, sniffProto, network, radioVars, gui, page,
                 wanted, bounds>>

(* HandleRestApi takes the keys of the request in the order of the form.   *)
NextKey(key) == dash = "handle" /\ todo # <<>> /\ Head(todo) = key /\ todo' = Tail(todo)
KeyUnchanged == UNCHANGED <<sniff, sniffProto, network, req, client, webVars, bounds>>

(* A text that is no address leaves what the stack held in tmpIp, but the  *)
(* display shows the text.                                                 *)
SetTarget ==
  /\ NextKey("t")
  /\ stv' = [stv EXCEPT !.target = IF req.t = "misspelt" THEN "junk" ELSE req.t]
  /\ gui' = [gui EXCEPT !.target = req.t]
  /\ UNCHANGED <<restart, dash, radioVars, wanted>> /\ KeyUnchanged

(* d, g and s: the page sends them together and nothing blocks in between. *)
SetAddresses ==
  /\ NextKey("s")
  /\ restart' = TRUE
  /\ UNCHANGED <<stv, dash, radioVars, gui, wanted>> /\ KeyUnchanged

(* Mutated form: the running status survives.                              *)
DhcpKeepsRunning ==
  /\ NextKey("h")
  /\ Radio_StopRx
  /\ stv' = [stv EXCEPT !.dhcp = req.h]
  /\ restart' = TRUE
  /\ wanted' = FALSE
  /\ UNCHANGED <<dash, CurrentRfProtocol, tuned, rfHandle, gui>> /\ KeyUnchanged

SetDhcp ==
  /\ NextKey("h")
  /\ Radio_StopRx
  /\ stv' = [stv EXCEPT !.running = FALSE, !.dhcp = req.h]
  /\ restart' = TRUE
  /\ wanted' = FALSE
  /\ UNCHANGED <<dash, CurrentRfProtocol, tuned, rfHandle, gui>> /\ KeyUnchanged

Stop ==
  /\ NextKey("r") /\ ~req.r
  /\ stv' = [stv EXCEPT !.running = FALSE]
  /\ gui' = [gui EXCEPT !.rx = FALSE]
  /\ Radio_StopRx
  /\ restart' = TRUE
  /\ wanted' = FALSE
  /\ UNCHANGED <<dash, CurrentRfProtocol, tuned, rfHandle>> /\ KeyUnchanged

Start ==
  /\ NextKey("r") /\ req.r
  /\ dash' = "opening"
  /\ stv' = [stv EXCEPT !.running = TRUE]
  /\ gui' = [gui EXCEPT !.rx = TRUE]
  /\ Radio_SetUp(stv.proto, stv.chan)
  /\ wanted' = TRUE
  /\ UNCHANGED <<restart, rfHandle, radio>> /\ KeyUnchanged

Start_Opened ==
  /\ dash = "opening" /\ dash' = "handle"
  /\ Radio_BeginRx(stv.proto)
  /\ UNCHANGED <<stv, restart, todo, CurrentRfProtocol, tuned, opens, gui, wanted>>
  /\ KeyUnchanged

(* Mutated form: the display keeps the old protocol.                       *)
ProtocolNotShown ==
  /\ NextKey("p")
  /\ CurrentRfProtocol' = req.p
  /\ stv' = [stv EXCEPT !.proto = req.p]
  /\ UNCHANGED <<restart, dash, tuned, rfHandle, opens, radio, gui, wanted>>
  /\ KeyUnchanged

SetProtocol ==
  /\ NextKey("p")
  /\ CurrentRfProtocol' = req.p
  /\ stv' = [stv EXCEPT !.proto = req.p]
  /\ gui' = [gui EXCEPT !.proto = req.p]
  /\ UNCHANGED <<restart, dash, tuned, rfHandle, opens, radio, wanted>>
  /\ KeyUnchanged

(* Mutated form: the channel is not stored.                                *)
ChannelNotStored ==
  /\ NextKey("k")
  /\ gui' = [gui EXCEPT !.chan = req.k]
  /\ UNCHANGED <<stv, restart, dash, radioVars, wanted>> /\ KeyUnchanged

SetChannel ==
  /\ NextKey("k")
  /\ gui' = [gui EXCEPT !.chan = req.k]
  /\ stv' = [stv EXCEPT !.chan = req.k]
  /\ UNCHANGED <<restart, dash, radioVars, wanted>> /\ KeyUnchanged

SetStatusProperty ==
  \/ SetTarget \/ SetAddresses \/ SetDhcp \/ Stop \/ Start \/ Start_Opened
  \/ SetProtocol \/ SetChannel

(* SendHtmlToClient: the page carries the STV of this moment.              *)
SendHtmlToClient ==
  /\ dash = "handle" /\ todo = <<>> /\ dash' = "sent"
  /\ \/ page' = [page EXCEPT ![client] = [loaded |-> TRUE, stv |-> stv]]
     \/ "lost" \in faults /\ UNCHANGED page
  /\ UNCHANGED <<stv, restart, sniff, sniffProto, network, reqVars, radioVars,
                 gui, last, wanted, bounds>>

Dashboard_Restart ==
  /\ dash = "sent" /\ restart
  /\ RestartMCU
  /\ UNCHANGED <<stv, restart, client, radio, webVars, wanted, bounds>>

Dashboard_Done ==
  /\ dash = "sent" /\ ~restart /\ dash' = "idle"
  /\ UNCHANGED <<stv, restart, sniff, sniffProto, network, reqVars, radioVars,
                 gui, webVars, wanted, bounds>>

(* The power goes and comes back.                                          *)
PowerCycle ==
  /\ cycles < MaxPowerCycles /\ cycles' = cycles + 1
  /\ RestartMCU
  /\ stv' = Cleared /\ restart' = FALSE /\ radio' = RadioOff
  /\ wanted' = FALSE
  /\ UNCHANGED <<client, webVars, faults>>

-----------------------------------------------------------------------------
Init ==
  /\ stv = Cleared /\ restart = FALSE
  /\ dash = "reset" /\ sniff = "none" /\ sniffProto = "none" /\ network = "none"
  /\ req = Get(<<>>) /\ todo = <<>> /\ client \in Browsers
  /\ CurrentRfProtocol = "ble" /\ tuned = Untuned
  /\ rfHandle = FALSE /\ opens = 0 /\ radio = RadioOff
  /\ gui = Dark
  /\ page = [b \in Browsers |-> NoPage]
  /\ last = [b \in Browsers |-> Get(<<>>)]
  /\ faults \in SUBSET Faults /\ wanted = FALSE /\ cycles = 0

Init_Main     == Init_Begin \/ Init_Network \/ Init_DhcpFails
Sniffing_Main == Sniffing_Start \/ Sniffing_Opened
Dashboard_Main ==
  SetStatusProperty \/ SendHtmlToClient \/ Dashboard_Restart \/ Dashboard_Done

Next ==
  \/ Init_Main \/ Sniffing_Main \/ Dashboard_Main
  \/ \E b \in Browsers : Dashboard_Accept(b)
  \/ PowerCycle

Spec == Init /\ [][Next]_vars

(* A task that is ready runs, a blocking call returns; nobody has to open  *)
(* the page and the power need not fail.                                   *)
FairSpec == /\ Spec
            /\ WF_vars(Init_Main)
            /\ WF_vars(Sniffing_Main)
            /\ WF_vars(Dashboard_Main)

-----------------------------------------------------------------------------
Requested == [dhcp : {"yes", "no", "none"},
              target : Addresses \cup {"none", "junk", "misspelt"},
              proto : Protocols \cup {"none"}, chan : Channels \cup {0},
              running : BOOLEAN]

TypeOK ==
  /\ stv \in Requested /\ restart \in BOOLEAN
  /\ dash \in {"reset", "network", "idle", "handle", "opening", "sent"}
  /\ sniff \in {"none", "start", "opening", "loop"}
  /\ sniffProto \in Protocols \cup {"none"}
  /\ network \in {"none", "dhcp", "static"}
  /\ client \in Browsers /\ todo \in Seq({"h", "s", "r", "p", "k", "t"})
  /\ CurrentRfProtocol \in Protocols
  /\ tuned \in [Protocols -> Channels \cup {0}]
  /\ rfHandle \in BOOLEAN /\ opens \in 0 .. 2
  /\ radio \in [on : BOOLEAN, proto : Protocols \cup {"none"},
                chan : Channels \cup {0}]
  /\ page \in [Browsers -> [loaded : BOOLEAN, stv : Requested]]
  /\ faults \subseteq Faults /\ wanted \in BOOLEAN /\ cycles \in 0 .. MaxPowerCycles

(* No request is being served and the sniffing task is in its loop.        *)
Quiet == dash = "idle" /\ sniff = "loop"

(* A device that starts by itself is set apart: a stop that falls into its *)
(* RF_open finds no handle, and the radio still receives afterwards.       *)
StartsOnRequest == "autostart" \notin faults

(* The radio receives exactly if the last command of a client was a start: *)
(* a stop, or a change of the network settings, outlasts the restart it    *)
(* causes, whatever becomes of the page.  From a page that is up to date   *)
(* it is opened only when it is closed.                                    *)
RadioFollowsCommands ==
  /\ Quiet /\ StartsOnRequest => (radio.on <=> wanted) /\ (stv.running <=> wanted)
  /\ faults = {} => opens <= 1

(* The radio is tuned to the protocol and the channel of the status        *)
(* vector, which the page and the display show, and the sniffing task      *)
(* labels its frames with that protocol, as long as the pages are up to    *)
(* date.                                                                   *)
TunedAsShown ==
  Quiet /\ radio.on /\ faults = {} =>
    radio.proto = stv.proto /\ radio.chan = stv.chan /\ CurrentRfProtocol = stv.proto

(* Display and network agree with the status vector, although Init_Main,   *)
(* both tasks and six requests write parts of the display and the network  *)
(* is set up only by a restart.                                            *)
StatusIsTrue ==
  Quiet => /\ StartsOnRequest => gui.rx = radio.on
           /\ gui.proto = stv.proto /\ gui.chan = stv.chan
           /\ network = IF stv.dhcp = "yes" THEN "dhcp" ELSE "static"

(* The device restarts only for a client who asked for a stop or for other *)
(* network settings, or when DHCP failed: a page load never restarts it.   *)
(* A device that does not start by itself leaves the RF core stopped: the  *)
(* restarted program has no handle to stop it with.                        *)
RestartsAreAsked ==
  [][Dashboard_Restart =>
       /\ \/ req.keys \in {<<"h">>, <<"h", "s">>}
          \/ req.keys = <<"r">> /\ ~req.r
       /\ StartsOnRequest => ~radio.on]_vars

(* Every start of the program, also one whose DHCP fails, ends with the    *)
(* control page being served.                                              *)
BootEnds == dash \in {"reset", "network"} ~> dash = "idle" /\ sniff = "loop"

(* A capture that the status vector says is running is resumed at boot,    *)
(* unless a client stops it first.                                         *)
CaptureResumes == sniff = "start" /\ stv.running ~> radio.on \/ ~stv.running

=============================================================================
