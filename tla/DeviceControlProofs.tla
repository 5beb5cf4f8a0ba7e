------------------------- MODULE DeviceControlProofs -------------------------
(***************************************************************************)
(* Machine-checked proofs about DeviceControl, for any channels, target    *)
(* addresses, programmed status vectors and faults, and any number of      *)
(* power losses.                                                           *)
(***************************************************************************)
EXTENDS DeviceControl, TLAPS

-----------------------------------------------------------------------------
(* The invariant.                                                          *)

KeyLists == {<<>>, <<"h">>, <<"h", "s">>, <<"r">>, <<"p", "k", "t">>}
Targets  == Addresses \cup {"none", "junk", "misspelt"}

(* A status vector whose channel belongs to its protocol.                  *)
Tunable(status) ==
  /\ status.proto \in Protocols /\ status.chan \in Channels
  /\ Valid(status.proto, status.chan)

(* What a browser sends.                                                   *)
Fields == [keys : KeyLists, h : {"yes", "no", "none"}, r : BOOLEAN,
           p : Protocols \cup {"none"}, k : Channels \cup {0}, t : Targets]
Form(q) ==
  /\ q.keys \in {<<"h">>, <<"h", "s">>} => q.h # "none"
  /\ q.keys = <<"p", "k", "t">> =>
       q.p \in Protocols /\ q.k \in Channels /\ Valid(q.p, q.k)
Forms == {q \in Fields : Form(q)}

Shown == [rx : BOOLEAN, proto : Protocols \cup {"none"},
          chan : Channels \cup {0}, target : Targets]

(* TypeOK by the tasks, the status vector, the radio, the requests and the *)
(* pages; every page a browser has loaded shows a tunable status.          *)
TaskType ==
  /\ restart \in BOOLEAN /\ wanted \in BOOLEAN
  /\ dash \in {"reset", "network", "idle", "handle", "opening", "sent"}
  /\ sniff \in {"none", "start", "opening", "loop"}
  /\ sniffProto \in Protocols \cup {"none"}
  /\ network \in {"none", "dhcp", "static"}
  /\ rfHandle \in BOOLEAN /\ faults \subseteq Faults
CountType  == opens \in 0 .. 2 /\ cycles \in 0 .. MaxPowerCycles
StatusType == stv \in Requested /\ gui \in Shown
RadioType ==
  /\ CurrentRfProtocol \in Protocols
  /\ tuned \in [Protocols -> Channels \cup {0}]
  /\ radio \in [on : BOOLEAN, proto : Protocols \cup {"none"},
                chan : Channels \cup {0}]
FormType ==
  /\ client \in Browsers /\ todo \in Seq({"h", "s", "r", "p", "k", "t"})
  /\ req \in Forms /\ last \in [Browsers -> Forms]
PageType ==
  /\ page \in [Browsers -> [loaded : BOOLEAN, stv : Requested]]
  /\ \A b \in Browsers : page[b].loaded => Tunable(page[b].stv)

TypeInv ==
  TaskType /\ CountType /\ StatusType /\ RadioType /\ FormType /\ PageType

(* What is left to do of a request is an end of its keys.                  *)
RequestInv ==
  /\ dash = "handle" =>
       \/ todo = <<>> \/ todo = req.keys
       \/ req.keys = <<"h", "s">> /\ todo = <<"s">> /\ restart
       \/ req.keys = <<"p", "k", "t">> /\ todo \in {<<"k", "t">>, <<"t">>}
  /\ dash = "opening" => req.keys = <<"r">> /\ req.r /\ todo = <<>>

(* The tasks exist only after the initialisation, and the first request is *)
(* read when the sniffing task has come to its first blocking call.        *)
PlaceInv ==
  /\ sniff = "start" => dash = "idle"
  /\ sniff = "opening" => sniffProto \in Protocols

(* A restart is requested by nothing but a stop and a form for the network *)
(* settings.                                                               *)
AsksForRestart(q) ==
  \/ q.keys \in {<<"h">>, <<"h", "s">>}
  \/ q.keys = <<"r">> /\ ~q.r
RestartInv ==
  restart => \/ dash = "reset"
             \/ dash \in {"handle", "sent"} /\ AsksForRestart(req)

(* Between the protocol of a form and its channel the two do not match.    *)
StatusInv ==
  IF dash = "handle" /\ todo = <<"k", "t">>
  THEN stv.proto = req.p
  ELSE (dash = "reset" /\ stv = Cleared) \/ Tunable(stv)

Up == dash \in {"idle", "handle", "opening", "sent"}

ShownInv ==
  Up => /\ gui.proto = stv.proto /\ gui.chan = stv.chan
        /\ restart \/ network = IF stv.dhcp = "yes" THEN "dhcp" ELSE "static"

(* A device that does not start by itself: the radio receives exactly      *)
(* after a start, but for the time of its RF_open.                         *)
RunInv ==
  /\ stv.running <=> wanted
  /\ sniff # "opening"
  /\ dash \in {"reset", "network"} \/ sniff = "start" \/ restart => ~wanted
  /\ radio.on => rfHandle
  /\ IF dash = "opening" THEN wanted ELSE radio.on <=> wanted
  /\ Up => restart \/ (gui.rx <=> wanted)

SafeInv ==
  /\ TypeInv /\ RequestInv /\ PlaceInv /\ RestartInv /\ StatusInv /\ ShownInv
  /\ StartsOnRequest => RunInv

(* One browser, whose page always arrives: a start comes only from a page  *)
(* of a stopped device, and so does a form for protocol and channel.       *)
OneBrowser == \A a, b \in Browsers : a = b

PageInv ==
  /\ dash \in {"reset", "network", "idle", "sent"} =>
       \A b \in Browsers : page[b].loaded /\ ~page[b].stv.running => ~wanted
  /\ dash = "handle" =>
       /\ req.keys = <<"p", "k", "t">> => ~wanted
       /\ todo = <<"r">> /\ req.r => ~wanted

TunedInv ==
  /\ opens <= 1 /\ (~wanted => opens = 0)
  /\ dash # "opening" /\ opens > 0 => rfHandle
  /\ radio.on => /\ radio.proto = stv.proto /\ radio.chan = stv.chan
                 /\ CurrentRfProtocol = stv.proto
  /\ dash = "opening" => CurrentRfProtocol = stv.proto /\ tuned[stv.proto] = stv.chan

ExactInv == SafeInv /\ (OneBrowser /\ faults = {} => PageInv /\ TunedInv)
-----------------------------------------------------------------------------
(* Lemmas.                                                                *)

(* A key is taken in its place among the keys of its form.                 *)
LEMMA KeyTaken ==
  ASSUME TypeInv, RequestInv, NEW key, NextKey(key)
  PROVE  /\ dash = "handle" /\ todo # <<>>
         /\ \/ key = "h" /\ req.keys = <<"h">> /\ todo = <<"h">> /\ todo' = <<>>
            \/ key = "h" /\ req.keys = <<"h", "s">> /\ todo' = <<"s">>
            \/ /\ key = "s" /\ req.keys = <<"h", "s">> /\ restart
               /\ todo = <<"s">> /\ todo' = <<>>
            \/ key = "r" /\ req.keys = <<"r">> /\ todo = <<"r">> /\ todo' = <<>>
            \/ /\ req.keys = <<"p", "k", "t">>
               /\ \/ key = "p" /\ todo' = <<"k", "t">>
                  \/ key = "k" /\ todo = <<"k", "t">> /\ todo' = <<"t">>
                  \/ key = "t" /\ todo = <<"t">> /\ todo' = <<>>
<1> USE DEF NextKey
<1>1. req.keys \in KeyLists
  BY DEF TypeInv, FormType, Forms, Fields
<1>2. dash = "handle" /\ todo # <<>> /\ Head(todo) = key /\ todo' = Tail(todo)
  OBVIOUS
<1>3. CASE todo = req.keys
  <2>1. CASE todo = <<"h">>
    BY <1>2, <1>3, <2>1
  <2>2. CASE todo = <<"h", "s">>
    BY <1>2, <1>3, <2>2
  <2>3. CASE todo = <<"r">>
    BY <1>2, <1>3, <2>3
  <2>4. CASE todo = <<"p", "k", "t">>
    BY <1>2, <1>3, <2>4
  <2>5. QED
    BY <1>1, <1>2, <1>3, <2>1, <2>2, <2>3, <2>4 DEF KeyLists
<1>4. CASE req.keys = <<"h", "s">> /\ todo = <<"s">> /\ restart
  BY <1>2, <1>4
<1>5. CASE req.keys = <<"p", "k", "t">> /\ todo = <<"k", "t">>
  BY <1>2, <1>5
<1>6. CASE req.keys = <<"p", "k", "t">> /\ todo = <<"t">>
  BY <1>2, <1>6
<1>7. QED
  BY <1>2, <1>3, <1>4, <1>5, <1>6 DEF RequestInv

(* Which request each step of HandleRestApi serves.                        *)
LEMMA Served ==
  ASSUME TypeInv, RequestInv
  PROVE  /\ SetTarget => /\ dash = "handle" /\ req.keys = <<"p", "k", "t">>
                         /\ todo = <<"t">> /\ todo' = <<>>
         /\ SetAddresses => /\ dash = "handle" /\ req.keys = <<"h", "s">>
                            /\ todo = <<"s">> /\ todo' = <<>> /\ restart
         /\ SetDhcp => /\ dash = "handle" /\ todo # <<"k", "t">> /\ todo # <<"r">>
                       /\ \/ req.keys = <<"h">> /\ todo' = <<>>
                          \/ req.keys = <<"h", "s">> /\ todo' = <<"s">>
         /\ Stop => /\ dash = "handle" /\ req.keys = <<"r">> /\ ~req.r
                    /\ todo = <<"r">> /\ todo' = <<>>
         /\ Start => /\ dash = "handle" /\ req.keys = <<"r">> /\ req.r
                     /\ todo = <<"r">> /\ todo' = <<>>
         /\ SetProtocol => /\ dash = "handle" /\ req.keys = <<"p", "k", "t">>
                           /\ todo # <<"k", "t">> /\ todo' = <<"k", "t">>
         /\ SetChannel => /\ dash = "handle" /\ req.keys = <<"p", "k", "t">>
                          /\ todo = <<"k", "t">> /\ todo' = <<"t">>
<1>1. SetTarget => NextKey("t")
  BY DEF SetTarget
<1>2. SetAddresses => NextKey("s")
  BY DEF SetAddresses
<1>3. SetDhcp => NextKey("h")
  BY DEF SetDhcp
<1>4. Stop => NextKey("r") /\ ~req.r
  BY DEF Stop
<1>5. Start => NextKey("r") /\ req.r
  BY DEF Start
<1>6. SetProtocol => NextKey("p")
  BY DEF SetProtocol
<1>7. SetChannel => NextKey("k")
  BY DEF SetChannel
<1>8. \A key : NextKey(key) => dash = "handle"
  BY DEF NextKey
<1>9. SetDhcp => todo # <<"k", "t">> /\ todo # <<"r">>
  BY <1>3 DEF NextKey
<1>10. SetProtocol => todo # <<"k", "t">>
  BY <1>6 DEF NextKey
<1>11. QED
  BY <1>1, <1>2, <1>3, <1>4, <1>5, <1>6, <1>7, <1>8, <1>9, <1>10, KeyTaken

(* No two lists of keys are the same.                                      *)
LEMMA KeysDiffer ==
  /\ <<"r">> # <<"p", "k", "t">> /\ <<"r">> # <<"h">> /\ <<"r">> # <<"h", "s">>
  /\ <<"h">> # <<"p", "k", "t">> /\ <<"h", "s">> # <<"p", "k", "t">>
  /\ <<>> # <<"p", "k", "t">> /\ <<>> # <<"r">> /\ <<>> # <<"h">> /\ <<>> # <<"h", "s">>
  /\ <<>> # <<"k", "t">> /\ <<"s">> # <<"k", "t">>
  /\ \A keys \in KeyLists : keys # <<"k", "t">>
  BY DEF KeyLists

(* The page's address and the short forms are forms.                       *)
LEMMA GetIsForm ==
  ASSUME NEW f \in {"yes", "no"}, NEW on \in BOOLEAN
  PROVE  /\ Get(<<>>) \in Forms /\ Get(<<>>).keys = <<>>
         /\ [Get(<<"h">>) EXCEPT !.h = f] \in Forms
         /\ [Get(<<"h", "s">>) EXCEPT !.h = f] \in Forms
         /\ [Get(<<"r">>) EXCEPT !.r = on] \in Forms
<1>1. Get(<<>>) \in Forms /\ Get(<<>>).keys = <<>>
  BY KeysDiffer DEF Get, Forms, Fields, Form, KeyLists, Targets
<1>2. [Get(<<"h">>) EXCEPT !.h = f] \in Forms
  BY KeysDiffer DEF Get, Forms, Fields, Form, KeyLists, Targets
<1>3. [Get(<<"h", "s">>) EXCEPT !.h = f] \in Forms
  BY KeysDiffer DEF Get, Forms, Fields, Form, KeyLists, Targets
<1>4. [Get(<<"r">>) EXCEPT !.r = on] \in Forms
  BY KeysDiffer DEF Get, Forms, Fields, Form, KeyLists, Targets
<1>5. QED
  BY <1>1, <1>2, <1>3, <1>4

(* So is a form for protocol, channel and target.                          *)
LEMMA TargetFormIsForm ==
  ASSUME NEW tuning, NEW t \in Targets, tuning[1] \in Protocols,
         tuning[2] \in Channels, Valid(tuning[1], tuning[2])
  PROVE  TargetForm(tuning, t) \in Forms
  BY DEF TargetForm, Get, Forms, Fields, Form, KeyLists

(* All that a browser sends is a form; one for protocol and channel, or a  *)
(* start, comes from a page of a stopped device or is a repeated one.      *)
LEMMA RequestsAreForms ==
  ASSUME TypeInv, NEW b \in Browsers, NEW q \in Requests(b)
  PROVE  /\ q \in Forms
         /\ "reload" \notin faults =>
              /\ q.keys = <<"p", "k", "t">> => page[b].loaded /\ ~page[b].stv.running
              /\ q.keys = <<"r">> /\ q.r => page[b].loaded /\ ~page[b].stv.running
<1> DEFINE shown == page[b].stv
<1>1. shown \in Requested /\ page[b].loaded \in BOOLEAN
  BY DEF TypeInv, PageType
<1>2. CASE q = Get(<<>>)
  BY <1>2, GetIsForm, KeysDiffer
<1>3. CASE page[b].loaded /\ q \in NetForms
  <2>1. PICK keys \in {<<"h">>, <<"h", "s">>}, f \in {"yes", "no"} :
          q = [Get(keys) EXCEPT !.h = f]
    BY <1>3 DEF NetForms
  <2>2. q \in Forms
    BY <2>1, GetIsForm
  <2>3. q.keys = keys
    BY <2>1 DEF Get
  <2>4. QED
    BY <2>2, <2>3, KeysDiffer
<1>4. CASE page[b].loaded /\ q = RunForm(shown)
  <2>1. q \in Forms
    BY <1>1, <1>4, GetIsForm DEF RunForm, Requested
  <2>2. q.keys = <<"r">> /\ q.r = ~shown.running
    BY <1>4 DEF RunForm, Get
  <2>3. QED
    BY <1>1, <1>4, <2>1, <2>2, KeysDiffer DEF Requested
<1>5. CASE page[b].loaded /\ ~shown.running /\ q \in TargetForms(shown)
  <2>1. Tunable(shown)
    BY <1>5 DEF TypeInv, PageType
  <2>2. PICK tuning \in Tunings(shown), t \in Addresses \cup {shown.target, "misspelt"} :
          q = TargetForm(tuning, t)
    BY <1>5 DEF TargetForms
  <2>3. tuning[1] \in Protocols /\ tuning[2] \in Channels /\ Valid(tuning[1], tuning[2])
    BY <2>1, <2>2 DEF Tunable, Tunings
  <2>4. t \in Targets
    BY <1>1, <2>2 DEF Requested, Targets
  <2>5. q \in Forms
    BY <2>2, <2>3, <2>4, TargetFormIsForm
  <2>6. QED
    BY <1>5, <2>5
<1>6. CASE "reload" \in faults /\ q = last[b]
  BY <1>6 DEF TypeInv, FormType
<1>7. QED
  BY <1>2, <1>3, <1>4, <1>5, <1>6 DEF Requests

-----------------------------------------------------------------------------
(* What the steps keep.                                                    *)

(* Each step leaves an end of the keys to do.                              *)
LEMMA RequestStep ==
  ASSUME SafeInv, [Next]_vars
  PROVE  RequestInv'
<1>1. CASE Init_Begin
  BY <1>1 DEF SafeInv, TypeInv, FormType, RequestInv, Forms, Fields,
     KeyLists, Init_Begin, Programmed, reqVars, radioVars, webVars, bounds
<1>2. CASE Init_Network
  BY <1>2 DEF SafeInv, TypeInv, FormType, RequestInv, Forms, Fields,
     KeyLists, Init_Network, reqVars, radioVars, webVars, bounds
<1>3. CASE Init_DhcpFails
  BY <1>3 DEF SafeInv, TypeInv, FormType, RequestInv, Forms, Fields,
     KeyLists, Init_DhcpFails, RestartMCU, webVars, bounds
<1>4. CASE Sniffing_Start
  BY <1>4 DEF SafeInv, TypeInv, FormType, RequestInv, Forms, Fields,
     KeyLists, Sniffing_Start, Radio_SetUp, initCmdObjects, reqVars, webVars,
     bounds
<1>5. CASE Sniffing_Opened
  BY <1>5 DEF SafeInv, TypeInv, FormType, RequestInv, Forms, Fields,
     KeyLists, Sniffing_Opened, Radio_BeginRx, reqVars, webVars, bounds
<1>6. CASE SetTarget
  BY <1>6, Served DEF SafeInv, RequestInv, SetTarget, KeyUnchanged,
     radioVars, webVars, bounds
<1>7. CASE SetAddresses
  BY <1>7, Served DEF SafeInv, RequestInv, SetAddresses, KeyUnchanged,
     radioVars, webVars, bounds
<1>8. CASE SetDhcp
  BY <1>8, Served DEF SafeInv, RequestInv, SetDhcp, KeyUnchanged,
     Radio_StopRx, webVars, bounds
<1>9. CASE Stop
  BY <1>9, Served DEF SafeInv, RequestInv, Stop, KeyUnchanged, Radio_StopRx,
     webVars, bounds
<1>10. CASE Start
  BY <1>10, Served DEF SafeInv, RequestInv, Start, KeyUnchanged, Radio_SetUp,
     initCmdObjects, webVars, bounds
<1>11. CASE Start_Opened
  BY <1>11 DEF SafeInv, TypeInv, FormType, RequestInv, Forms, Fields,
     KeyLists, Start_Opened, KeyUnchanged, Radio_BeginRx, webVars, bounds
<1>12. CASE SetProtocol
  BY <1>12, Served DEF SafeInv, RequestInv, SetProtocol, KeyUnchanged,
     webVars, bounds
<1>13. CASE SetChannel
  BY <1>13, Served DEF SafeInv, RequestInv, SetChannel, KeyUnchanged,
     radioVars, webVars, bounds
<1>14. CASE SendHtmlToClient
  BY <1>14 DEF SafeInv, TypeInv, FormType, RequestInv, Forms, Fields,
     KeyLists, SendHtmlToClient, reqVars, radioVars, bounds
<1>15. CASE Dashboard_Restart
  BY <1>15 DEF SafeInv, TypeInv, FormType, RequestInv, Forms, Fields,
     KeyLists, Dashboard_Restart, RestartMCU, webVars, bounds
<1>16. CASE Dashboard_Done
  BY <1>16 DEF SafeInv, TypeInv, FormType, RequestInv, Forms, Fields,
     KeyLists, Dashboard_Done, reqVars, radioVars, webVars, bounds
<1>17. ASSUME NEW b \in Browsers, Dashboard_Accept(b) PROVE RequestInv'
  BY <1>17 DEF SafeInv, TypeInv, FormType, RequestInv, Forms, Fields,
     KeyLists, Dashboard_Accept, radioVars, bounds
<1>18. CASE PowerCycle
  BY <1>18 DEF SafeInv, TypeInv, FormType, RequestInv, Forms, Fields,
     KeyLists, PowerCycle, RestartMCU, webVars, bounds
<1>19. CASE UNCHANGED vars
  BY <1>19 DEF SafeInv, TypeInv, FormType, RequestInv, Forms, Fields,
     KeyLists, vars, taskVars, reqVars, radioVars, webVars, bounds
<1>20. QED
  BY <1>1, <1>2, <1>3, <1>4, <1>5, <1>6, <1>7, <1>8, <1>9, <1>10, <1>11, <1>12,
     <1>13, <1>14, <1>15, <1>16, <1>17, <1>18, <1>19 DEF Next, Init_Main,
     Sniffing_Main, Dashboard_Main, SetStatusProperty

(* Each step leaves a tunable status, or the channel of the form is still  *)
(* to come.                                                                *)
LEMMA StatusStep ==
  ASSUME SafeInv, [Next]_vars
  PROVE  StatusInv'
<1>1. CASE Init_Begin
  BY <1>1, FlashAssumption DEF SafeInv, StatusInv, PlaceInv, Tunable,
     Requested, Init_Begin, Programmed, reqVars, radioVars, webVars, bounds
<1>2. CASE Init_Network
  BY <1>2 DEF SafeInv, StatusInv, PlaceInv, Tunable, Requested, Init_Network,
     reqVars, radioVars, webVars, bounds
<1>3. CASE Init_DhcpFails
  BY <1>3 DEF SafeInv, StatusInv, PlaceInv, Tunable, Requested,
     Init_DhcpFails, RestartMCU, webVars, bounds
<1>4. CASE Sniffing_Start
  BY <1>4 DEF SafeInv, StatusInv, PlaceInv, Tunable, Requested,
     Sniffing_Start, Radio_SetUp, initCmdObjects, reqVars, webVars, bounds
<1>5. CASE Sniffing_Opened
  BY <1>5 DEF SafeInv, StatusInv, PlaceInv, Tunable, Requested,
     Sniffing_Opened, Radio_BeginRx, reqVars, webVars, bounds
<1>6. CASE SetTarget
  BY <1>6, Served DEF SafeInv, TypeInv, TaskType, StatusType, Requested,
     StatusInv, Tunable, SetTarget, KeyUnchanged, radioVars, webVars, bounds
<1>7. CASE SetAddresses
  BY <1>7, Served DEF SafeInv, StatusInv, SetAddresses, KeyUnchanged,
     radioVars, webVars, bounds
<1>8. CASE SetDhcp
  <2>1. dash = "handle" /\ todo # <<"k", "t">> /\ todo' \in {<<>>, <<"s">>}
    BY <1>8, Served DEF SafeInv
  <2>2. stv'.proto = stv.proto /\ stv'.chan = stv.chan
    BY <1>8 DEF SetDhcp, SafeInv, TypeInv, TaskType, StatusType, Requested
  <2>3. Tunable(stv)
    BY <2>1 DEF SafeInv, StatusInv
  <2>4. QED
    BY <2>1, <2>2, <2>3, KeysDiffer DEF StatusInv, Tunable
<1>9. CASE Stop
  <2>1. dash = "handle" /\ todo # <<"k", "t">> /\ todo' \in {<<>>, <<"s">>}
    BY <1>9, Served DEF SafeInv
  <2>2. stv'.proto = stv.proto /\ stv'.chan = stv.chan
    BY <1>9 DEF Stop, SafeInv, TypeInv, TaskType, StatusType, Requested
  <2>3. Tunable(stv)
    BY <2>1 DEF SafeInv, StatusInv
  <2>4. QED
    BY <2>1, <2>2, <2>3, KeysDiffer DEF StatusInv, Tunable
<1>10. CASE Start
  BY <1>10, Served DEF SafeInv, TypeInv, TaskType, StatusType, Requested,
     StatusInv, Tunable, Start, KeyUnchanged, Radio_SetUp, initCmdObjects,
     webVars, bounds
<1>11. CASE Start_Opened
  BY <1>11 DEF SafeInv, RequestInv, StatusInv, Tunable, Start_Opened,
     KeyUnchanged, Radio_BeginRx, webVars, bounds
<1>12. CASE SetProtocol
  BY <1>12, Served DEF SafeInv, TypeInv, FormType, StatusInv, Forms, Form,
     SetProtocol, KeyUnchanged, webVars, bounds
<1>13. CASE SetChannel
  BY <1>13, Served DEF SafeInv, TypeInv, FormType, StatusInv, Tunable, Forms,
     Form, SetChannel, KeyUnchanged, radioVars, webVars, bounds
<1>14. CASE SendHtmlToClient
  BY <1>14 DEF SafeInv, StatusInv, PlaceInv, Tunable, Requested,
     SendHtmlToClient, reqVars, radioVars, bounds
<1>15. CASE Dashboard_Restart
  BY <1>15 DEF SafeInv, StatusInv, PlaceInv, Tunable, Requested,
     Dashboard_Restart, RestartMCU, webVars, bounds
<1>16. CASE Dashboard_Done
  BY <1>16 DEF SafeInv, StatusInv, PlaceInv, Tunable, Requested,
     Dashboard_Done, reqVars, radioVars, webVars, bounds
<1>17. ASSUME NEW b \in Browsers, Dashboard_Accept(b) PROVE StatusInv'
  BY <1>17, RequestsAreForms, KeysDiffer DEF SafeInv, StatusInv, Tunable,
     Forms, Fields, Dashboard_Accept, radioVars, bounds
<1>18. CASE PowerCycle
  BY <1>18 DEF SafeInv, StatusInv, PlaceInv, Tunable, Requested, PowerCycle,
     RestartMCU, webVars, bounds
<1>19. CASE UNCHANGED vars
  BY <1>19 DEF SafeInv, StatusInv, PlaceInv, Tunable, Requested, vars,
     taskVars, reqVars, radioVars, webVars, bounds
<1>20. QED
  BY <1>1, <1>2, <1>3, <1>4, <1>5, <1>6, <1>7, <1>8, <1>9, <1>10, <1>11, <1>12,
     <1>13, <1>14, <1>15, <1>16, <1>17, <1>18, <1>19 DEF Next, Init_Main,
     Sniffing_Main, Dashboard_Main, SetStatusProperty

(* Each step of a device that does not start by itself keeps radio, status *)
(* vector, display and last command together.                              *)
LEMMA RunStep ==
  ASSUME SafeInv, StartsOnRequest, [Next]_vars
  PROVE  RunInv'
<1>1. CASE Init_Begin
  BY <1>1, FlashAssumption DEF SafeInv, RunInv, PlaceInv, RestartInv, Up,
     TypeInv, TaskType, StatusType, Requested, StatusInv, Tunable,
     StartsOnRequest, RadioOff, Cleared, Dark, Init_Begin, Programmed,
     reqVars, radioVars, webVars, bounds
<1>2. CASE Init_Network
  BY <1>2 DEF SafeInv, RunInv, PlaceInv, RestartInv, Up, TypeInv, TaskType,
     StatusType, Requested, StatusInv, Tunable, StartsOnRequest, RadioOff,
     Cleared, Dark, Init_Network, reqVars, radioVars, webVars, bounds
<1>3. CASE Init_DhcpFails
  BY <1>3 DEF SafeInv, RunInv, PlaceInv, RestartInv, Up, TypeInv, TaskType,
     StatusType, Requested, StatusInv, Tunable, StartsOnRequest, RadioOff,
     Cleared, Dark, Init_DhcpFails, RestartMCU, webVars, bounds
<1>4. CASE Sniffing_Start
  BY <1>4 DEF SafeInv, RunInv, PlaceInv, RestartInv, Up, TypeInv, TaskType,
     StatusType, Requested, StatusInv, Tunable, StartsOnRequest, RadioOff,
     Cleared, Dark, Sniffing_Start, Radio_SetUp, initCmdObjects, reqVars,
     webVars, bounds
<1>5. CASE Sniffing_Opened
  BY <1>5 DEF SafeInv, RunInv, PlaceInv, RestartInv, Up, TypeInv, TaskType,
     StatusType, Requested, StatusInv, Tunable, StartsOnRequest, RadioOff,
     Cleared, Dark, Sniffing_Opened, Radio_BeginRx, reqVars, webVars, bounds
<1>6. CASE SetTarget
  BY <1>6, Served DEF SafeInv, RunInv, PlaceInv, RestartInv, Up, TypeInv,
     TaskType, StatusType, Requested, StatusInv, Tunable, StartsOnRequest,
     RadioOff, Cleared, Dark, SetTarget, KeyUnchanged, radioVars, webVars,
     bounds
<1>7. CASE SetAddresses
  BY <1>7, Served DEF SafeInv, RunInv, PlaceInv, RestartInv, Up, TypeInv,
     TaskType, StatusType, Requested, StatusInv, Tunable, StartsOnRequest,
     RadioOff, Cleared, Dark, SetAddresses, KeyUnchanged, radioVars, webVars,
     bounds
<1>8. CASE SetDhcp
  <2>1. dash = "handle" /\ todo' \in {<<>>, <<"s">>} /\ restart' /\ ~wanted'
    BY <1>8, Served DEF SafeInv, SetDhcp
  <2>2. /\ ~radio'.on /\ ~stv'.running
        /\ opens' \in {0, opens} /\ (rfHandle => opens' = 0)
    BY <1>8 DEF SetDhcp, Radio_StopRx, RadioOff, SafeInv, RunInv, TypeInv,
       TaskType, StatusType, Requested
  <2>3. QED
    BY <1>8, <2>1, <2>2 DEF SetDhcp, KeyUnchanged, webVars, bounds, SafeInv,
       RunInv, PlaceInv, Up, StartsOnRequest
<1>9. CASE Stop
  <2>1. dash = "handle" /\ todo' \in {<<>>, <<"s">>} /\ restart' /\ ~wanted'
    BY <1>9, Served DEF SafeInv, Stop
  <2>2. /\ ~radio'.on /\ ~stv'.running
        /\ opens' \in {0, opens} /\ (rfHandle => opens' = 0)
    BY <1>9 DEF Stop, Radio_StopRx, RadioOff, SafeInv, RunInv, TypeInv,
       TaskType, StatusType, Requested
  <2>3. QED
    BY <1>9, <2>1, <2>2 DEF Stop, KeyUnchanged, webVars, bounds, SafeInv,
       RunInv, PlaceInv, Up, StartsOnRequest
<1>10. CASE Start
  BY <1>10, Served DEF SafeInv, RunInv, PlaceInv, RestartInv, Up, TypeInv,
     TaskType, StatusType, Requested, StartsOnRequest, AsksForRestart, Start,
     KeyUnchanged, Radio_SetUp, initCmdObjects, webVars, bounds
<1>11. CASE Start_Opened
  BY <1>11 DEF SafeInv, RunInv, PlaceInv, RestartInv, Up, TypeInv, TaskType,
     StatusType, Requested, StatusInv, Tunable, StartsOnRequest, RadioOff,
     Cleared, Dark, Start_Opened, KeyUnchanged, Radio_BeginRx, webVars, bounds
<1>12. CASE SetProtocol
  BY <1>12, Served DEF SafeInv, RunInv, PlaceInv, RestartInv, Up, TypeInv,
     TaskType, StatusType, Requested, StatusInv, Tunable, StartsOnRequest,
     RadioOff, Cleared, Dark, SetProtocol, KeyUnchanged, webVars, bounds
<1>13. CASE SetChannel
  BY <1>13, Served DEF SafeInv, RunInv, PlaceInv, RestartInv, Up, TypeInv,
     TaskType, StatusType, Requested, StatusInv, Tunable, StartsOnRequest,
     RadioOff, Cleared, Dark, SetChannel, KeyUnchanged, radioVars, webVars,
     bounds
<1>14. CASE SendHtmlToClient
  BY <1>14 DEF SafeInv, RunInv, PlaceInv, RestartInv, Up, TypeInv, TaskType,
     StatusType, Requested, StatusInv, Tunable, StartsOnRequest, RadioOff,
     Cleared, Dark, SendHtmlToClient, reqVars, radioVars, bounds
<1>15. CASE Dashboard_Restart
  BY <1>15 DEF SafeInv, RunInv, PlaceInv, RestartInv, Up, TypeInv, TaskType,
     StatusType, Requested, StatusInv, Tunable, StartsOnRequest, RadioOff,
     Cleared, Dark, Dashboard_Restart, RestartMCU, webVars, bounds
<1>16. CASE Dashboard_Done
  BY <1>16 DEF SafeInv, RunInv, PlaceInv, RestartInv, Up, TypeInv, TaskType,
     StatusType, Requested, StatusInv, Tunable, StartsOnRequest, RadioOff,
     Cleared, Dark, Dashboard_Done, reqVars, radioVars, webVars, bounds
<1>17. ASSUME NEW b \in Browsers, Dashboard_Accept(b) PROVE RunInv'
  BY <1>17 DEF SafeInv, RunInv, PlaceInv, RestartInv, Up, TypeInv, TaskType,
     StatusType, Requested, StatusInv, Tunable, StartsOnRequest, RadioOff,
     Cleared, Dark, Dashboard_Accept, radioVars, bounds
<1>18. CASE PowerCycle
  BY <1>18 DEF SafeInv, RunInv, PlaceInv, RestartInv, Up, TypeInv, TaskType,
     StatusType, Requested, StatusInv, Tunable, StartsOnRequest, RadioOff,
     Cleared, Dark, PowerCycle, RestartMCU, webVars, bounds
<1>19. CASE UNCHANGED vars
  BY <1>19 DEF SafeInv, RunInv, PlaceInv, RestartInv, Up, TypeInv, TaskType,
     StatusType, Requested, StatusInv, Tunable, StartsOnRequest, RadioOff,
     Cleared, Dark, vars, taskVars, reqVars, radioVars, webVars, bounds
<1>20. QED
  BY <1>1, <1>2, <1>3, <1>4, <1>5, <1>6, <1>7, <1>8, <1>9, <1>10, <1>11, <1>12,
     <1>13, <1>14, <1>15, <1>16, <1>17, <1>18, <1>19 DEF Next, Init_Main,
     Sniffing_Main, Dashboard_Main, SetStatusProperty

(* A page that shows a stopped device is true while no other browser is    *)
(* there.                                                                  *)
LEMMA PageStep ==
  ASSUME SafeInv, OneBrowser, faults = {}, PageInv, [Next]_vars
  PROVE  PageInv'
<1>1. CASE Init_Begin
  BY <1>1, FlashAssumption DEF SafeInv, TypeInv, TaskType, StatusType,
     Requested, RunInv, PageInv, StartsOnRequest, OneBrowser, Init_Begin,
     Programmed, reqVars, radioVars, webVars, bounds
<1>2. CASE Init_Network
  BY <1>2 DEF SafeInv, TypeInv, TaskType, StatusType, Requested, RunInv,
     PageInv, StartsOnRequest, OneBrowser, Init_Network, reqVars, radioVars,
     webVars, bounds
<1>3. CASE Init_DhcpFails
  BY <1>3 DEF SafeInv, TypeInv, TaskType, StatusType, Requested, RunInv,
     PageInv, StartsOnRequest, OneBrowser, Init_DhcpFails, RestartMCU,
     webVars, bounds
<1>4. CASE Sniffing_Start
  BY <1>4 DEF SafeInv, TypeInv, TaskType, StatusType, Requested, RunInv,
     PageInv, StartsOnRequest, OneBrowser, Sniffing_Start, Radio_SetUp,
     initCmdObjects, reqVars, webVars, bounds
<1>5. CASE Sniffing_Opened
  BY <1>5 DEF SafeInv, TypeInv, TaskType, StatusType, Requested, RunInv,
     PageInv, StartsOnRequest, OneBrowser, Sniffing_Opened, Radio_BeginRx,
     reqVars, webVars, bounds
<1>6. CASE SetTarget
  BY <1>6, Served DEF SafeInv, TypeInv, TaskType, StatusType, Requested,
     RunInv, PageInv, StartsOnRequest, OneBrowser, SetTarget, KeyUnchanged,
     radioVars, webVars, bounds
<1>7. CASE SetAddresses
  BY <1>7, Served DEF SafeInv, TypeInv, TaskType, StatusType, Requested,
     RunInv, PageInv, StartsOnRequest, OneBrowser, SetAddresses,
     KeyUnchanged, radioVars, webVars, bounds
<1>8. CASE SetDhcp
  BY <1>8, Served DEF SafeInv, TypeInv, TaskType, StatusType, Requested,
     RunInv, PageInv, StartsOnRequest, OneBrowser, SetDhcp, KeyUnchanged,
     Radio_StopRx, webVars, bounds
<1>9. CASE Stop
  BY <1>9, Served DEF SafeInv, TypeInv, TaskType, StatusType, Requested,
     RunInv, PageInv, StartsOnRequest, OneBrowser, Stop, KeyUnchanged,
     Radio_StopRx, webVars, bounds
<1>10. CASE Start
  BY <1>10, Served DEF SafeInv, TypeInv, TaskType, StatusType, Requested,
     RunInv, PageInv, StartsOnRequest, OneBrowser, Start, KeyUnchanged,
     Radio_SetUp, initCmdObjects, webVars, bounds
<1>11. CASE Start_Opened
  BY <1>11, KeysDiffer DEF SafeInv, PageInv, RequestInv, Start_Opened,
     KeyUnchanged, Radio_BeginRx, webVars, bounds
<1>12. CASE SetProtocol
  BY <1>12, Served DEF SafeInv, TypeInv, TaskType, StatusType, Requested,
     RunInv, PageInv, StartsOnRequest, OneBrowser, SetProtocol, KeyUnchanged,
     webVars, bounds
<1>13. CASE SetChannel
  BY <1>13, Served DEF SafeInv, TypeInv, TaskType, StatusType, Requested,
     RunInv, PageInv, StartsOnRequest, OneBrowser, SetChannel, KeyUnchanged,
     radioVars, webVars, bounds
<1>14. CASE SendHtmlToClient
  BY <1>14 DEF SafeInv, TypeInv, TaskType, PageType, StatusType, FormType,
     Requested, RunInv, PageInv, StartsOnRequest, OneBrowser,
     SendHtmlToClient, reqVars, radioVars, bounds
<1>15. CASE Dashboard_Restart
  BY <1>15 DEF SafeInv, TypeInv, TaskType, StatusType, Requested, RunInv,
     PageInv, StartsOnRequest, OneBrowser, Dashboard_Restart, RestartMCU,
     webVars, bounds
<1>16. CASE Dashboard_Done
  BY <1>16 DEF SafeInv, TypeInv, TaskType, StatusType, Requested, RunInv,
     PageInv, StartsOnRequest, OneBrowser, Dashboard_Done, reqVars,
     radioVars, webVars, bounds
<1>17. ASSUME NEW b \in Browsers, Dashboard_Accept(b) PROVE PageInv'
  BY <1>17, RequestsAreForms DEF SafeInv, TypeInv, RequestInv, PageInv,
     OneBrowser, Dashboard_Accept, radioVars, bounds
<1>18. CASE PowerCycle
  BY <1>18 DEF SafeInv, TypeInv, TaskType, StatusType, Requested, RunInv,
     PageInv, StartsOnRequest, OneBrowser, PowerCycle, RestartMCU, webVars,
     bounds
<1>19. CASE UNCHANGED vars
  BY <1>19 DEF SafeInv, TypeInv, TaskType, StatusType, Requested, RunInv,
     PageInv, StartsOnRequest, OneBrowser, vars, taskVars, reqVars,
     radioVars, webVars, bounds
<1>20. QED
  BY <1>1, <1>2, <1>3, <1>4, <1>5, <1>6, <1>7, <1>8, <1>9, <1>10, <1>11, <1>12,
     <1>13, <1>14, <1>15, <1>16, <1>17, <1>18, <1>19 DEF Next, Init_Main,
     Sniffing_Main, Dashboard_Main, SetStatusProperty

(* The radio is opened once, with the channel of the status vector, which  *)
(* does not change while it receives.                                      *)
LEMMA TunedStep ==
  ASSUME SafeInv, OneBrowser, faults = {}, PageInv, TunedInv, [Next]_vars
  PROVE  TunedInv'
<1>1. CASE Init_Begin
  BY <1>1, FlashAssumption DEF SafeInv, TypeInv, TaskType, CountType,
     StatusType, Requested, PlaceInv, RestartInv, StatusInv, RunInv, PageInv,
     TunedInv, StartsOnRequest, Tunable, RadioOff, Init_Begin, Programmed,
     reqVars, radioVars, webVars, bounds
<1>2. CASE Init_Network
  BY <1>2 DEF SafeInv, TypeInv, TaskType, CountType, StatusType, Requested,
     PlaceInv, RestartInv, StatusInv, RunInv, PageInv, TunedInv,
     StartsOnRequest, Tunable, RadioOff, Init_Network, reqVars, radioVars,
     webVars, bounds
<1>3. CASE Init_DhcpFails
  BY <1>3 DEF SafeInv, TypeInv, TaskType, CountType, StatusType, Requested,
     PlaceInv, RestartInv, StatusInv, RunInv, PageInv, TunedInv,
     StartsOnRequest, Tunable, RadioOff, Init_DhcpFails, RestartMCU, webVars,
     bounds
<1>4. CASE Sniffing_Start
  BY <1>4 DEF SafeInv, TypeInv, TaskType, CountType, StatusType, Requested,
     PlaceInv, RestartInv, StatusInv, RunInv, PageInv, TunedInv,
     StartsOnRequest, Tunable, RadioOff, Sniffing_Start, Radio_SetUp,
     initCmdObjects, reqVars, webVars, bounds
<1>5. CASE Sniffing_Opened
  BY <1>5 DEF SafeInv, TypeInv, TaskType, CountType, StatusType, Requested,
     PlaceInv, RestartInv, StatusInv, RunInv, PageInv, TunedInv,
     StartsOnRequest, Tunable, RadioOff, Sniffing_Opened, Radio_BeginRx,
     reqVars, webVars, bounds
<1>6. CASE SetTarget
  BY <1>6, Served DEF SafeInv, TypeInv, TaskType, CountType, StatusType,
     Requested, PlaceInv, RestartInv, StatusInv, RunInv, PageInv, TunedInv,
     StartsOnRequest, Tunable, RadioOff, SetTarget, KeyUnchanged, radioVars,
     webVars, bounds
<1>7. CASE SetAddresses
  BY <1>7, Served DEF SafeInv, TypeInv, TaskType, CountType, StatusType,
     Requested, PlaceInv, RestartInv, StatusInv, RunInv, PageInv, TunedInv,
     StartsOnRequest, Tunable, RadioOff, SetAddresses, KeyUnchanged,
     radioVars, webVars, bounds
<1>8. CASE SetDhcp
  <2>1. dash = "handle" /\ todo' \in {<<>>, <<"s">>} /\ restart' /\ ~wanted'
    BY <1>8, Served DEF SafeInv, SetDhcp
  <2>2. /\ ~radio'.on /\ ~stv'.running
        /\ opens' \in {0, opens} /\ (rfHandle => opens' = 0)
    BY <1>8 DEF SetDhcp, Radio_StopRx, RadioOff, SafeInv, RunInv, TypeInv,
       TaskType, StatusType, Requested, StartsOnRequest
  <2>3. QED
    BY <1>8, <2>1, <2>2 DEF SetDhcp, KeyUnchanged, webVars, bounds, SafeInv,
       TypeInv, TaskType, RunInv, StartsOnRequest, TunedInv
<1>9. CASE Stop
  <2>1. dash = "handle" /\ todo' \in {<<>>, <<"s">>} /\ restart' /\ ~wanted'
    BY <1>9, Served DEF SafeInv, Stop
  <2>2. /\ ~radio'.on /\ ~stv'.running
        /\ opens' \in {0, opens} /\ (rfHandle => opens' = 0)
    BY <1>9 DEF Stop, Radio_StopRx, RadioOff, SafeInv, RunInv, TypeInv,
       TaskType, StatusType, Requested, StartsOnRequest
  <2>3. QED
    BY <1>9, <2>1, <2>2 DEF Stop, KeyUnchanged, webVars, bounds, SafeInv,
       TypeInv, TaskType, RunInv, StartsOnRequest, TunedInv
<1>10. CASE Start
  BY <1>10, Served DEF SafeInv, TypeInv, TaskType, CountType, StatusType,
     Requested, PlaceInv, RestartInv, StatusInv, RunInv, PageInv, TunedInv,
     StartsOnRequest, Tunable, RadioOff, Start, KeyUnchanged, Radio_SetUp,
     initCmdObjects, webVars, bounds
<1>11. CASE Start_Opened
  BY <1>11 DEF SafeInv, TypeInv, TaskType, CountType, StatusType, Requested,
     PlaceInv, RestartInv, StatusInv, RunInv, PageInv, TunedInv,
     StartsOnRequest, Tunable, RadioOff, Start_Opened, KeyUnchanged,
     Radio_BeginRx, webVars, bounds
<1>12. CASE SetProtocol
  BY <1>12, Served DEF SafeInv, TypeInv, TaskType, CountType, StatusType,
     Requested, PlaceInv, RestartInv, StatusInv, RunInv, PageInv, TunedInv,
     StartsOnRequest, Tunable, RadioOff, SetProtocol, KeyUnchanged, webVars,
     bounds
<1>13. CASE SetChannel
  BY <1>13, Served DEF SafeInv, TypeInv, TaskType, CountType, StatusType,
     Requested, PlaceInv, RestartInv, StatusInv, RunInv, PageInv, TunedInv,
     StartsOnRequest, Tunable, RadioOff, SetChannel, KeyUnchanged, radioVars,
     webVars, bounds
<1>14. CASE SendHtmlToClient
  BY <1>14 DEF SafeInv, TypeInv, TaskType, CountType, StatusType, Requested,
     PlaceInv, RestartInv, StatusInv, RunInv, PageInv, TunedInv,
     StartsOnRequest, Tunable, RadioOff, SendHtmlToClient, reqVars,
     radioVars, bounds
<1>15. CASE Dashboard_Restart
  BY <1>15 DEF SafeInv, TypeInv, TaskType, CountType, StatusType, Requested,
     PlaceInv, RestartInv, StatusInv, RunInv, PageInv, TunedInv,
     StartsOnRequest, Tunable, RadioOff, Dashboard_Restart, RestartMCU,
     webVars, bounds
<1>16. CASE Dashboard_Done
  BY <1>16 DEF SafeInv, TypeInv, TaskType, CountType, StatusType, Requested,
     PlaceInv, RestartInv, StatusInv, RunInv, PageInv, TunedInv,
     StartsOnRequest, Tunable, RadioOff, Dashboard_Done, reqVars, radioVars,
     webVars, bounds
<1>17. ASSUME NEW b \in Browsers, Dashboard_Accept(b) PROVE TunedInv'
  BY <1>17 DEF SafeInv, TypeInv, TaskType, CountType, StatusType, Requested,
     PlaceInv, RestartInv, StatusInv, RunInv, PageInv, TunedInv,
     StartsOnRequest, Tunable, RadioOff, Dashboard_Accept, radioVars, bounds
<1>18. CASE PowerCycle
  BY <1>18 DEF SafeInv, TypeInv, TaskType, CountType, StatusType, Requested,
     PlaceInv, RestartInv, StatusInv, RunInv, PageInv, TunedInv,
     StartsOnRequest, Tunable, RadioOff, PowerCycle, RestartMCU, webVars,
     bounds
<1>19. CASE UNCHANGED vars
  BY <1>19 DEF SafeInv, TypeInv, TaskType, CountType, StatusType, Requested,
     PlaceInv, RestartInv, StatusInv, RunInv, PageInv, TunedInv,
     StartsOnRequest, Tunable, RadioOff, vars, taskVars, reqVars, radioVars,
     webVars, bounds
<1>20. QED
  BY <1>1, <1>2, <1>3, <1>4, <1>5, <1>6, <1>7, <1>8, <1>9, <1>10, <1>11, <1>12,
     <1>13, <1>14, <1>15, <1>16, <1>17, <1>18, <1>19 DEF Next, Init_Main,
     Sniffing_Main, Dashboard_Main, SetStatusProperty

-----------------------------------------------------------------------------
(* Types.                                                                  *)

(* Types: lists of keys.                                                   *)
LEMMA KeyListType == KeyLists \subseteq Seq({"h", "s", "r", "p", "k", "t"})
  BY DEF KeyLists

(* Types: what is left of a request.                                       *)
LEMMA TailType ==
  ASSUME TypeInv
  PROVE  \A key : NextKey(key) => todo' \in Seq({"h", "s", "r", "p", "k", "t"})
  BY DEF NextKey, TypeInv, FormType

(* Types: RestartMCU.                                                      *)
LEMMA RestartType ==
  ASSUME RestartMCU
  PROVE  /\ dash' = "reset" /\ sniff' = "none" /\ sniffProto' = "none"
         /\ network' = "none" /\ rfHandle' = FALSE /\ opens' = 0
         /\ CurrentRfProtocol' \in Protocols /\ tuned' \in [Protocols -> Channels \cup {0}]
         /\ req' \in Forms /\ todo' \in Seq({"h", "s", "r", "p", "k", "t"})
         /\ gui' \in Shown
<1>1. req' \in Forms
  BY GetIsForm DEF RestartMCU
<1>2. tuned' \in [Protocols -> Channels \cup {0}]
  <2>1. tuned' = [ble |-> 0, ieee |-> 0]
    BY DEF RestartMCU, Untuned
  <2>2. QED
    BY <2>1 DEF Protocols
<1>3. gui' \in Shown
  BY DEF RestartMCU, Dark, Shown, Targets
<1>4. QED
  BY <1>1, <1>2, <1>3 DEF RestartMCU, Protocols

(* Types: Radio_SetUpAndBeginRx up to RF_open.                             *)
LEMMA RadioSetUpType ==
  ASSUME TypeInv, NEW status \in Requested, status.proto \in Protocols,
         Radio_SetUp(status.proto, status.chan)
  PROVE  /\ CurrentRfProtocol' \in Protocols /\ opens' \in 0 .. 2
         /\ tuned' \in [Protocols -> Channels \cup {0}]
<1>1. status.chan \in Channels \cup {0}
  BY DEF Requested
<1>2. opens' \in 0 .. 2
  BY DEF Radio_SetUp, TypeInv, CountType
<1>3. QED
  BY <1>1, <1>2 DEF Radio_SetUp, initCmdObjects, TypeInv, RadioType

(* Types: Radio_SetUpAndBeginRx after RF_open.                             *)
LEMMA RadioBeginType ==
  ASSUME TypeInv, NEW proto \in Protocols, Radio_BeginRx(proto)
  PROVE  rfHandle' = TRUE /\ radio' \in [on : BOOLEAN, proto : Protocols \cup {"none"},
                                       chan : Channels \cup {0}]
  BY DEF Radio_BeginRx, TypeInv, RadioType

(* Types: Radio_StopRx.                                                    *)
LEMMA RadioStopType ==
  ASSUME TypeInv, Radio_StopRx
  PROVE  /\ opens' \in 0 .. 2
         /\ radio' \in [on : BOOLEAN, proto : Protocols \cup {"none"},
                        chan : Channels \cup {0}]
<1>1. opens' \in 0 .. 2
  BY DEF Radio_StopRx, TypeInv, CountType
<1>2. RadioOff \in [on : BOOLEAN, proto : Protocols \cup {"none"}, chan : Channels \cup {0}]
  BY DEF RadioOff
<1>3. QED
  BY <1>1, <1>2 DEF Radio_StopRx, TypeInv, RadioType

(* Types: the tasks.                                                       *)
LEMMA TaskStep ==
  ASSUME SafeInv, [Next]_vars
  PROVE  TaskType'
<1>1. CASE Init_Begin
  BY <1>1, FlashAssumption DEF SafeInv, TypeInv, TaskType, StatusType,
     Requested, Init_Begin, Programmed, reqVars, radioVars, webVars, bounds
<1>2. CASE Init_Network
  BY <1>2 DEF SafeInv, TypeInv, TaskType, Init_Network, reqVars, radioVars,
     webVars, bounds
<1>3. CASE Init_DhcpFails
  BY <1>3, RestartType DEF SafeInv, TypeInv, TaskType, Init_DhcpFails,
     webVars, bounds
<1>4. CASE Sniffing_Start
  BY <1>4 DEF SafeInv, TypeInv, TaskType, StatusType, Requested,
     Sniffing_Start, reqVars, webVars, bounds
<1>5. CASE Sniffing_Opened
  BY <1>5 DEF SafeInv, TypeInv, TaskType, Radio_BeginRx, Sniffing_Opened,
     reqVars, webVars, bounds
<1>6. CASE SetTarget
  BY <1>6 DEF SafeInv, TypeInv, TaskType, SetTarget, KeyUnchanged, radioVars,
     webVars, bounds
<1>7. CASE SetAddresses
  BY <1>7 DEF SafeInv, TypeInv, TaskType, SetAddresses, KeyUnchanged,
     radioVars, webVars, bounds
<1>8. CASE SetDhcp
  BY <1>8, RadioStopType DEF SafeInv, TypeInv, TaskType, SetDhcp,
     KeyUnchanged, webVars, bounds
<1>9. CASE Stop
  BY <1>9, RadioStopType DEF SafeInv, TypeInv, TaskType, Stop, KeyUnchanged,
     webVars, bounds
<1>10. CASE Start
  BY <1>10, RadioSetUpType DEF SafeInv, TypeInv, TaskType, Start,
     KeyUnchanged, webVars, bounds
<1>11. CASE Start_Opened
  BY <1>11 DEF SafeInv, TypeInv, TaskType, Radio_BeginRx, Start_Opened,
     KeyUnchanged, webVars, bounds
<1>12. CASE SetProtocol
  BY <1>12 DEF SafeInv, TypeInv, TaskType, SetProtocol, KeyUnchanged,
     webVars, bounds
<1>13. CASE SetChannel
  BY <1>13 DEF SafeInv, TypeInv, TaskType, SetChannel, KeyUnchanged,
     radioVars, webVars, bounds
<1>14. CASE SendHtmlToClient
  BY <1>14 DEF SafeInv, TypeInv, TaskType, SendHtmlToClient, reqVars,
     radioVars, bounds
<1>15. CASE Dashboard_Restart
  BY <1>15, RestartType DEF SafeInv, TypeInv, TaskType, Dashboard_Restart,
     webVars, bounds
<1>16. CASE Dashboard_Done
  BY <1>16 DEF SafeInv, TypeInv, TaskType, Dashboard_Done, reqVars,
     radioVars, webVars, bounds
<1>17. ASSUME NEW b \in Browsers, Dashboard_Accept(b) PROVE TaskType'
  BY <1>17 DEF SafeInv, TypeInv, TaskType, Dashboard_Accept, radioVars, bounds
<1>18. CASE PowerCycle
  BY <1>18, RestartType DEF SafeInv, TypeInv, TaskType, PowerCycle, webVars,
     bounds
<1>19. CASE UNCHANGED vars
  BY <1>19 DEF SafeInv, TypeInv, TaskType, vars, taskVars, reqVars,
     radioVars, webVars, bounds
<1>20. QED
  BY <1>1, <1>2, <1>3, <1>4, <1>5, <1>6, <1>7, <1>8, <1>9, <1>10, <1>11, <1>12,
     <1>13, <1>14, <1>15, <1>16, <1>17, <1>18, <1>19 DEF Next, Init_Main,
     Sniffing_Main, Dashboard_Main, SetStatusProperty

(* Types: the counters.                                                    *)
LEMMA CountStep ==
  ASSUME SafeInv, [Next]_vars
  PROVE  CountType'
<1>1. CASE Init_Begin
  BY <1>1, BoundAssumption DEF SafeInv, TypeInv, CountType, Init_Begin,
     Programmed, reqVars, radioVars, webVars, bounds
<1>2. CASE Init_Network
  BY <1>2, BoundAssumption DEF SafeInv, TypeInv, CountType, Init_Network,
     reqVars, radioVars, webVars, bounds
<1>3. CASE Init_DhcpFails
  BY <1>3, BoundAssumption, RestartType DEF SafeInv, TypeInv, CountType,
     Init_DhcpFails, webVars, bounds
<1>4. CASE Sniffing_Start
  BY <1>4, BoundAssumption, RadioSetUpType DEF SafeInv, TypeInv, StatusType,
     StatusInv, PlaceInv, Tunable, CountType, Sniffing_Start, reqVars,
     webVars, bounds
<1>5. CASE Sniffing_Opened
  BY <1>5, BoundAssumption, RadioBeginType DEF SafeInv, TypeInv, CountType,
     Sniffing_Opened, reqVars, webVars, bounds
<1>6. CASE SetTarget
  BY <1>6, BoundAssumption DEF SafeInv, TypeInv, CountType, SetTarget,
     KeyUnchanged, radioVars, webVars, bounds
<1>7. CASE SetAddresses
  BY <1>7, BoundAssumption DEF SafeInv, TypeInv, CountType, SetAddresses,
     KeyUnchanged, radioVars, webVars, bounds
<1>8. CASE SetDhcp
  BY <1>8, BoundAssumption, RadioStopType DEF SafeInv, TypeInv, CountType,
     SetDhcp, KeyUnchanged, webVars, bounds
<1>9. CASE Stop
  BY <1>9, BoundAssumption, RadioStopType DEF SafeInv, TypeInv, CountType,
     Stop, KeyUnchanged, webVars, bounds
<1>10. CASE Start
  <2>1. Radio_SetUp(stv.proto, stv.chan)
    BY <1>10 DEF Start
  <2>2. opens' \in 0 .. 2
    BY <2>1 DEF Radio_SetUp, SafeInv, TypeInv, CountType
  <2>3. QED
    BY <1>10, <2>2 DEF Start, KeyUnchanged, bounds, SafeInv, TypeInv, CountType
<1>11. CASE Start_Opened
  BY <1>11, BoundAssumption, RadioBeginType DEF SafeInv, TypeInv, CountType,
     Start_Opened, KeyUnchanged, webVars, bounds
<1>12. CASE SetProtocol
  BY <1>12, BoundAssumption DEF SafeInv, TypeInv, CountType, SetProtocol,
     KeyUnchanged, webVars, bounds
<1>13. CASE SetChannel
  BY <1>13, BoundAssumption DEF SafeInv, TypeInv, CountType, SetChannel,
     KeyUnchanged, radioVars, webVars, bounds
<1>14. CASE SendHtmlToClient
  BY <1>14, BoundAssumption DEF SafeInv, TypeInv, CountType,
     SendHtmlToClient, reqVars, radioVars, bounds
<1>15. CASE Dashboard_Restart
  BY <1>15, BoundAssumption, RestartType DEF SafeInv, TypeInv, CountType,
     Dashboard_Restart, webVars, bounds
<1>16. CASE Dashboard_Done
  BY <1>16, BoundAssumption DEF SafeInv, TypeInv, CountType, Dashboard_Done,
     reqVars, radioVars, webVars, bounds
<1>17. ASSUME NEW b \in Browsers, Dashboard_Accept(b) PROVE CountType'
  BY <1>17, BoundAssumption DEF SafeInv, TypeInv, CountType,
     Dashboard_Accept, radioVars, bounds
<1>18. CASE PowerCycle
  BY <1>18, BoundAssumption, RestartType DEF SafeInv, TypeInv, CountType,
     PowerCycle, webVars, bounds
<1>19. CASE UNCHANGED vars
  BY <1>19, BoundAssumption DEF SafeInv, TypeInv, CountType, vars, taskVars,
     reqVars, radioVars, webVars, bounds
<1>20. QED
  BY <1>1, <1>2, <1>3, <1>4, <1>5, <1>6, <1>7, <1>8, <1>9, <1>10, <1>11, <1>12,
     <1>13, <1>14, <1>15, <1>16, <1>17, <1>18, <1>19 DEF Next, Init_Main,
     Sniffing_Main, Dashboard_Main, SetStatusProperty

(* Types: status vector and display.                                       *)
LEMMA StatusTypeStep ==
  ASSUME SafeInv, [Next]_vars
  PROVE  StatusType'
<1>1. CASE Init_Begin
  BY <1>1, FlashAssumption DEF SafeInv, TypeInv, StatusType, Requested,
     Shown, Init_Begin, Programmed, reqVars, radioVars, webVars, bounds
<1>2. CASE Init_Network
  BY <1>2 DEF SafeInv, TypeInv, StatusType, Requested, Shown, Targets,
     Requested, Init_Network, reqVars, radioVars, webVars, bounds
<1>3. CASE Init_DhcpFails
  BY <1>3, RestartType DEF SafeInv, TypeInv, StatusType, Requested, Shown,
     Init_DhcpFails, webVars, bounds
<1>4. CASE Sniffing_Start
  BY <1>4, RadioSetUpType DEF SafeInv, TypeInv, StatusType, Requested, Shown,
     Sniffing_Start, reqVars, webVars, bounds
<1>5. CASE Sniffing_Opened
  BY <1>5, RadioBeginType DEF SafeInv, TypeInv, StatusType, Requested, Shown,
     Sniffing_Opened, reqVars, webVars, bounds
<1>6. CASE SetTarget
  BY <1>6, Served DEF SafeInv, TypeInv, StatusType, Requested, Shown,
     FormType, Forms, Fields, Form, Targets, SetTarget, KeyUnchanged,
     radioVars, webVars, bounds
<1>7. CASE SetAddresses
  BY <1>7, Served DEF SafeInv, TypeInv, StatusType, Requested, Shown,
     FormType, Forms, Fields, Form, Targets, SetAddresses, KeyUnchanged,
     radioVars, webVars, bounds
<1>8. CASE SetDhcp
  BY <1>8, RadioStopType, Served DEF SafeInv, TypeInv, StatusType, Requested,
     Shown, FormType, Forms, Fields, Form, Targets, SetDhcp, KeyUnchanged,
     webVars, bounds
<1>9. CASE Stop
  BY <1>9, RadioStopType, Served DEF SafeInv, TypeInv, StatusType, Requested,
     Shown, FormType, Forms, Fields, Form, Targets, Stop, KeyUnchanged,
     webVars, bounds
<1>10. CASE Start
  BY <1>10, RadioSetUpType, Served DEF SafeInv, TypeInv, StatusType,
     Requested, Shown, FormType, Forms, Fields, Form, Targets, Start,
     KeyUnchanged, webVars, bounds
<1>11. CASE Start_Opened
  BY <1>11, RadioBeginType DEF SafeInv, TypeInv, StatusType, Requested,
     Shown, Start_Opened, KeyUnchanged, webVars, bounds
<1>12. CASE SetProtocol
  BY <1>12, Served DEF SafeInv, TypeInv, StatusType, Requested, Shown,
     FormType, Forms, Fields, Form, Targets, SetProtocol, KeyUnchanged,
     webVars, bounds
<1>13. CASE SetChannel
  BY <1>13, Served DEF SafeInv, TypeInv, StatusType, Requested, Shown,
     FormType, Forms, Fields, Form, Targets, SetChannel, KeyUnchanged,
     radioVars, webVars, bounds
<1>14. CASE SendHtmlToClient
  BY <1>14 DEF SafeInv, TypeInv, StatusType, Requested, Shown,
     SendHtmlToClient, reqVars, radioVars, bounds
<1>15. CASE Dashboard_Restart
  BY <1>15, RestartType DEF SafeInv, TypeInv, StatusType, Requested, Shown,
     Dashboard_Restart, webVars, bounds
<1>16. CASE Dashboard_Done
  BY <1>16 DEF SafeInv, TypeInv, StatusType, Requested, Shown,
     Dashboard_Done, reqVars, radioVars, webVars, bounds
<1>17. ASSUME NEW b \in Browsers, Dashboard_Accept(b) PROVE StatusType'
  BY <1>17 DEF SafeInv, TypeInv, StatusType, Requested, Shown,
     Dashboard_Accept, radioVars, bounds
<1>18. CASE PowerCycle
  BY <1>18, RestartType DEF SafeInv, TypeInv, StatusType, Requested, Shown,
     Cleared, PowerCycle, webVars, bounds
<1>19. CASE UNCHANGED vars
  BY <1>19 DEF SafeInv, TypeInv, StatusType, Requested, Shown, vars,
     taskVars, reqVars, radioVars, webVars, bounds
<1>20. QED
  BY <1>1, <1>2, <1>3, <1>4, <1>5, <1>6, <1>7, <1>8, <1>9, <1>10, <1>11, <1>12,
     <1>13, <1>14, <1>15, <1>16, <1>17, <1>18, <1>19 DEF Next, Init_Main,
     Sniffing_Main, Dashboard_Main, SetStatusProperty

(* Types: the radio.                                                       *)
LEMMA RadioTypeStep ==
  ASSUME SafeInv, [Next]_vars
  PROVE  RadioType'
<1>1. CASE Init_Begin
  BY <1>1 DEF SafeInv, TypeInv, RadioType, Init_Begin, Programmed, reqVars,
     radioVars, webVars, bounds
<1>2. CASE Init_Network
  BY <1>2 DEF SafeInv, TypeInv, RadioType, Init_Network, reqVars, radioVars,
     webVars, bounds
<1>3. CASE Init_DhcpFails
  BY <1>3, RestartType DEF SafeInv, TypeInv, RadioType, Init_DhcpFails,
     webVars, bounds
<1>4. CASE Sniffing_Start
  BY <1>4, RadioSetUpType DEF SafeInv, TypeInv, StatusType, RadioType,
     StatusInv, PlaceInv, Tunable, Sniffing_Start, reqVars, webVars, bounds
<1>5. CASE Sniffing_Opened
  BY <1>5, RadioBeginType DEF SafeInv, TypeInv, StatusType, RadioType,
     PlaceInv, Sniffing_Opened, reqVars, webVars, bounds
<1>6. CASE SetTarget
  BY <1>6, Served DEF SafeInv, TypeInv, RadioType, SetTarget, KeyUnchanged,
     radioVars, webVars, bounds
<1>7. CASE SetAddresses
  BY <1>7, Served DEF SafeInv, TypeInv, RadioType, SetAddresses,
     KeyUnchanged, radioVars, webVars, bounds
<1>8. CASE SetDhcp
  BY <1>8, RadioStopType, Served DEF SafeInv, TypeInv, RadioType, SetDhcp,
     KeyUnchanged, webVars, bounds
<1>9. CASE Stop
  BY <1>9, RadioStopType, Served DEF SafeInv, TypeInv, RadioType, Stop,
     KeyUnchanged, webVars, bounds
<1>10. CASE Start
  BY <1>10, RadioSetUpType, Served DEF SafeInv, TypeInv, StatusType,
     RadioType, StatusInv, Tunable, Start, KeyUnchanged, webVars, bounds
<1>11. CASE Start_Opened
  BY <1>11, RadioBeginType DEF SafeInv, TypeInv, StatusType, RadioType,
     StatusInv, Tunable, Start_Opened, KeyUnchanged, webVars, bounds
<1>12. CASE SetProtocol
  BY <1>12, Served DEF SafeInv, TypeInv, StatusType, RadioType, FormType,
     Forms, Form, SetProtocol, KeyUnchanged, webVars, bounds
<1>13. CASE SetChannel
  BY <1>13, Served DEF SafeInv, TypeInv, RadioType, SetChannel, KeyUnchanged,
     radioVars, webVars, bounds
<1>14. CASE SendHtmlToClient
  BY <1>14 DEF SafeInv, TypeInv, RadioType, SendHtmlToClient, reqVars,
     radioVars, bounds
<1>15. CASE Dashboard_Restart
  BY <1>15, RestartType DEF SafeInv, TypeInv, RadioType, Dashboard_Restart,
     webVars, bounds
<1>16. CASE Dashboard_Done
  BY <1>16 DEF SafeInv, TypeInv, RadioType, Dashboard_Done, reqVars,
     radioVars, webVars, bounds
<1>17. ASSUME NEW b \in Browsers, Dashboard_Accept(b) PROVE RadioType'
  BY <1>17 DEF SafeInv, TypeInv, RadioType, Dashboard_Accept, radioVars,
     bounds
<1>18. CASE PowerCycle
  BY <1>18, RestartType DEF SafeInv, TypeInv, RadioType, RadioOff,
     PowerCycle, webVars, bounds
<1>19. CASE UNCHANGED vars
  BY <1>19 DEF SafeInv, TypeInv, RadioType, vars, taskVars, reqVars,
     radioVars, webVars, bounds
<1>20. QED
  BY <1>1, <1>2, <1>3, <1>4, <1>5, <1>6, <1>7, <1>8, <1>9, <1>10, <1>11, <1>12,
     <1>13, <1>14, <1>15, <1>16, <1>17, <1>18, <1>19 DEF Next, Init_Main,
     Sniffing_Main, Dashboard_Main, SetStatusProperty

(* Types: the requests.                                                    *)
LEMMA FormStep ==
  ASSUME SafeInv, [Next]_vars
  PROVE  FormType'
<1>1. CASE Init_Begin
  BY <1>1 DEF SafeInv, TypeInv, FormType, Init_Begin, Programmed, reqVars,
     radioVars, webVars, bounds
<1>2. CASE Init_Network
  BY <1>2 DEF SafeInv, TypeInv, FormType, Init_Network, reqVars, radioVars,
     webVars, bounds
<1>3. CASE Init_DhcpFails
  BY <1>3, RestartType DEF SafeInv, TypeInv, FormType, Init_DhcpFails,
     webVars, bounds
<1>4. CASE Sniffing_Start
  BY <1>4, RadioSetUpType DEF SafeInv, TypeInv, FormType, Sniffing_Start,
     reqVars, webVars, bounds
<1>5. CASE Sniffing_Opened
  BY <1>5, RadioBeginType DEF SafeInv, TypeInv, FormType, Sniffing_Opened,
     reqVars, webVars, bounds
<1>6. CASE SetTarget
  BY <1>6, TailType DEF SafeInv, TypeInv, FormType, SetTarget, KeyUnchanged,
     radioVars, webVars, bounds
<1>7. CASE SetAddresses
  BY <1>7, TailType DEF SafeInv, TypeInv, FormType, SetAddresses,
     KeyUnchanged, radioVars, webVars, bounds
<1>8. CASE SetDhcp
  BY <1>8, TailType DEF SafeInv, TypeInv, FormType, SetDhcp, KeyUnchanged,
     webVars, bounds
<1>9. CASE Stop
  BY <1>9, TailType DEF SafeInv, TypeInv, FormType, Stop, KeyUnchanged,
     webVars, bounds
<1>10. CASE Start
  BY <1>10, TailType DEF SafeInv, TypeInv, FormType, Start, KeyUnchanged,
     webVars, bounds
<1>11. CASE Start_Opened
  BY <1>11, RadioBeginType DEF SafeInv, TypeInv, FormType, Start_Opened,
     KeyUnchanged, webVars, bounds
<1>12. CASE SetProtocol
  BY <1>12, TailType DEF SafeInv, TypeInv, FormType, SetProtocol,
     KeyUnchanged, webVars, bounds
<1>13. CASE SetChannel
  BY <1>13, TailType DEF SafeInv, TypeInv, FormType, SetChannel,
     KeyUnchanged, radioVars, webVars, bounds
<1>14. CASE SendHtmlToClient
  BY <1>14 DEF SafeInv, TypeInv, FormType, SendHtmlToClient, reqVars,
     radioVars, bounds
<1>15. CASE Dashboard_Restart
  BY <1>15, RestartType DEF SafeInv, TypeInv, FormType, Dashboard_Restart,
     webVars, bounds
<1>16. CASE Dashboard_Done
  BY <1>16 DEF SafeInv, TypeInv, FormType, Dashboard_Done, reqVars,
     radioVars, webVars, bounds
<1>17. ASSUME NEW b \in Browsers, Dashboard_Accept(b) PROVE FormType'
  BY <1>17, RequestsAreForms, KeyListType DEF SafeInv, TypeInv, FormType,
     Forms, Fields, Dashboard_Accept, radioVars, bounds
<1>18. CASE PowerCycle
  BY <1>18, RestartType DEF SafeInv, TypeInv, FormType, PowerCycle, webVars,
     bounds
<1>19. CASE UNCHANGED vars
  BY <1>19 DEF SafeInv, TypeInv, FormType, vars, taskVars, reqVars,
     radioVars, webVars, bounds
<1>20. QED
  BY <1>1, <1>2, <1>3, <1>4, <1>5, <1>6, <1>7, <1>8, <1>9, <1>10, <1>11, <1>12,
     <1>13, <1>14, <1>15, <1>16, <1>17, <1>18, <1>19 DEF Next, Init_Main,
     Sniffing_Main, Dashboard_Main, SetStatusProperty

(* Types: the pages; a page carries a tunable status.                      *)
LEMMA PageTypeStep ==
  ASSUME SafeInv, [Next]_vars
  PROVE  PageType'
<1>1. CASE Init_Begin
  BY <1>1, KeysDiffer DEF SafeInv, TypeInv, PageType, Init_Begin, Programmed,
     reqVars, radioVars, webVars, bounds
<1>2. CASE Init_Network
  BY <1>2, KeysDiffer DEF SafeInv, TypeInv, PageType, Init_Network, reqVars,
     radioVars, webVars, bounds
<1>3. CASE Init_DhcpFails
  BY <1>3, KeysDiffer DEF SafeInv, TypeInv, PageType, Init_DhcpFails,
     webVars, bounds
<1>4. CASE Sniffing_Start
  BY <1>4, KeysDiffer DEF SafeInv, TypeInv, PageType, Sniffing_Start,
     reqVars, webVars, bounds
<1>5. CASE Sniffing_Opened
  BY <1>5, KeysDiffer DEF SafeInv, TypeInv, PageType, Sniffing_Opened,
     reqVars, webVars, bounds
<1>6. CASE SetTarget
  BY <1>6, KeysDiffer DEF SafeInv, TypeInv, PageType, SetTarget,
     KeyUnchanged, radioVars, webVars, bounds
<1>7. CASE SetAddresses
  BY <1>7, KeysDiffer DEF SafeInv, TypeInv, PageType, SetAddresses,
     KeyUnchanged, radioVars, webVars, bounds
<1>8. CASE SetDhcp
  BY <1>8, KeysDiffer DEF SafeInv, TypeInv, PageType, SetDhcp, KeyUnchanged,
     webVars, bounds
<1>9. CASE Stop
  BY <1>9, KeysDiffer DEF SafeInv, TypeInv, PageType, Stop, KeyUnchanged,
     webVars, bounds
<1>10. CASE Start
  BY <1>10, KeysDiffer DEF SafeInv, TypeInv, PageType, Start, KeyUnchanged,
     webVars, bounds
<1>11. CASE Start_Opened
  BY <1>11, KeysDiffer DEF SafeInv, TypeInv, PageType, Start_Opened,
     KeyUnchanged, webVars, bounds
<1>12. CASE SetProtocol
  BY <1>12, KeysDiffer DEF SafeInv, TypeInv, PageType, SetProtocol,
     KeyUnchanged, webVars, bounds
<1>13. CASE SetChannel
  BY <1>13, KeysDiffer DEF SafeInv, TypeInv, PageType, SetChannel,
     KeyUnchanged, radioVars, webVars, bounds
<1>14. CASE SendHtmlToClient
  <2>1. Tunable(stv)
    BY <1>14, KeysDiffer DEF SendHtmlToClient, SafeInv, StatusInv
  <2>2. stv \in Requested /\ client \in Browsers
    BY DEF SafeInv, TypeInv, StatusType, FormType
  <2>3. CASE UNCHANGED page
    BY <2>3 DEF SafeInv, TypeInv, PageType
  <2>4. CASE page' = [page EXCEPT ![client] = [loaded |-> TRUE, stv |-> stv]]
    <3>1. page' \in [Browsers -> [loaded : BOOLEAN, stv : Requested]]
      BY <2>2, <2>4 DEF SafeInv, TypeInv, PageType
    <3>2. \A b \in Browsers : page'[b] = IF b = client THEN [loaded |-> TRUE, stv |-> stv]
                                                     ELSE page[b]
      BY <2>2, <2>4 DEF SafeInv, TypeInv, PageType
    <3>3. \A b \in Browsers : page'[b].loaded => Tunable(page'[b].stv)
      BY <2>1, <3>2 DEF SafeInv, TypeInv, PageType
    <3>4. QED
      BY <3>1, <3>3 DEF PageType
  <2>5. QED
    BY <1>14, <2>3, <2>4 DEF SendHtmlToClient
<1>15. CASE Dashboard_Restart
  BY <1>15, KeysDiffer DEF SafeInv, TypeInv, PageType, Dashboard_Restart,
     webVars, bounds
<1>16. CASE Dashboard_Done
  BY <1>16, KeysDiffer DEF SafeInv, TypeInv, PageType, Dashboard_Done,
     reqVars, radioVars, webVars, bounds
<1>17. ASSUME NEW b \in Browsers, Dashboard_Accept(b) PROVE PageType'
  BY <1>17, KeysDiffer DEF SafeInv, TypeInv, PageType, Dashboard_Accept,
     radioVars, bounds
<1>18. CASE PowerCycle
  BY <1>18, KeysDiffer DEF SafeInv, TypeInv, PageType, PowerCycle, webVars,
     bounds
<1>19. CASE UNCHANGED vars
  BY <1>19, KeysDiffer DEF SafeInv, TypeInv, PageType, vars, taskVars,
     reqVars, radioVars, webVars, bounds
<1>20. QED
  BY <1>1, <1>2, <1>3, <1>4, <1>5, <1>6, <1>7, <1>8, <1>9, <1>10, <1>11, <1>12,
     <1>13, <1>14, <1>15, <1>16, <1>17, <1>18, <1>19 DEF Next, Init_Main,
     Sniffing_Main, Dashboard_Main, SetStatusProperty

-----------------------------------------------------------------------------
(* Tasks, restarts and display.                                            *)

(* The sniffing task starts while the dashboard task waits for its first   *)
(* request.                                                                *)
LEMMA PlaceStep ==
  ASSUME SafeInv, [Next]_vars
  PROVE  PlaceInv'
<1>1. CASE Init_Begin
  BY <1>1 DEF SafeInv, TypeInv, PlaceInv, StatusInv, Tunable, Init_Begin,
     Programmed, reqVars, radioVars, webVars, bounds
<1>2. CASE Init_Network
  BY <1>2 DEF SafeInv, TypeInv, PlaceInv, StatusInv, Tunable, Init_Network,
     reqVars, radioVars, webVars, bounds
<1>3. CASE Init_DhcpFails
  BY <1>3 DEF SafeInv, TypeInv, PlaceInv, StatusInv, Tunable, Init_DhcpFails,
     webVars, bounds, RestartMCU
<1>4. CASE Sniffing_Start
  BY <1>4 DEF SafeInv, TypeInv, PlaceInv, StatusInv, Tunable, Sniffing_Start,
     reqVars, webVars, bounds, Radio_SetUp
<1>5. CASE Sniffing_Opened
  BY <1>5 DEF SafeInv, TypeInv, PlaceInv, StatusInv, Tunable,
     Sniffing_Opened, reqVars, webVars, bounds
<1>6. CASE SetTarget
  BY <1>6, Served DEF SafeInv, PlaceInv, SetTarget, KeyUnchanged, radioVars,
     webVars, bounds
<1>7. CASE SetAddresses
  BY <1>7, Served DEF SafeInv, PlaceInv, SetAddresses, KeyUnchanged,
     radioVars, webVars, bounds
<1>8. CASE SetDhcp
  BY <1>8, Served DEF SafeInv, PlaceInv, SetDhcp, KeyUnchanged, webVars,
     bounds, Radio_StopRx
<1>9. CASE Stop
  BY <1>9, Served DEF SafeInv, PlaceInv, Stop, KeyUnchanged, webVars, bounds,
     Radio_StopRx
<1>10. CASE Start
  BY <1>10, Served DEF SafeInv, PlaceInv, Start, KeyUnchanged, webVars,
     bounds, Radio_SetUp
<1>11. CASE Start_Opened
  BY <1>11 DEF SafeInv, TypeInv, PlaceInv, StatusInv, Tunable, Start_Opened,
     KeyUnchanged, webVars, bounds
<1>12. CASE SetProtocol
  BY <1>12, Served DEF SafeInv, PlaceInv, SetProtocol, KeyUnchanged, webVars,
     bounds
<1>13. CASE SetChannel
  BY <1>13, Served DEF SafeInv, PlaceInv, SetChannel, KeyUnchanged,
     radioVars, webVars, bounds
<1>14. CASE SendHtmlToClient
  BY <1>14 DEF SafeInv, TypeInv, PlaceInv, StatusInv, Tunable,
     SendHtmlToClient, reqVars, radioVars, bounds
<1>15. CASE Dashboard_Restart
  BY <1>15 DEF SafeInv, TypeInv, PlaceInv, StatusInv, Tunable,
     Dashboard_Restart, webVars, bounds, RestartMCU
<1>16. CASE Dashboard_Done
  BY <1>16 DEF SafeInv, TypeInv, PlaceInv, StatusInv, Tunable,
     Dashboard_Done, reqVars, radioVars, webVars, bounds
<1>17. ASSUME NEW b \in Browsers, Dashboard_Accept(b) PROVE PlaceInv'
  BY <1>17 DEF SafeInv, TypeInv, PlaceInv, StatusInv, Tunable,
     Dashboard_Accept, radioVars, bounds
<1>18. CASE PowerCycle
  BY <1>18 DEF SafeInv, TypeInv, PlaceInv, StatusInv, Tunable, PowerCycle,
     webVars, bounds, RestartMCU
<1>19. CASE UNCHANGED vars
  BY <1>19 DEF SafeInv, TypeInv, PlaceInv, StatusInv, Tunable, vars,
     taskVars, reqVars, radioVars, webVars, bounds
<1>20. QED
  BY <1>1, <1>2, <1>3, <1>4, <1>5, <1>6, <1>7, <1>8, <1>9, <1>10, <1>11, <1>12,
     <1>13, <1>14, <1>15, <1>16, <1>17, <1>18, <1>19 DEF Next, Init_Main,
     Sniffing_Main, Dashboard_Main, SetStatusProperty

(* A restart is asked for and carried out within one request.              *)
LEMMA RestartStep ==
  ASSUME SafeInv, [Next]_vars
  PROVE  RestartInv'
<1>1. CASE Init_Begin
  BY <1>1 DEF SafeInv, RestartInv, AsksForRestart, Init_Begin, Programmed,
     reqVars, radioVars, webVars, bounds
<1>2. CASE Init_Network
  BY <1>2 DEF SafeInv, RestartInv, AsksForRestart, Init_Network, reqVars,
     radioVars, webVars, bounds
<1>3. CASE Init_DhcpFails
  BY <1>3 DEF SafeInv, RestartInv, AsksForRestart, Init_DhcpFails, webVars,
     bounds, RestartMCU
<1>4. CASE Sniffing_Start
  BY <1>4 DEF SafeInv, RestartInv, AsksForRestart, Sniffing_Start, reqVars,
     webVars, bounds, Radio_SetUp
<1>5. CASE Sniffing_Opened
  BY <1>5 DEF SafeInv, RestartInv, AsksForRestart, Sniffing_Opened, reqVars,
     webVars, bounds
<1>6. CASE SetTarget
  BY <1>6, Served DEF SafeInv, RestartInv, AsksForRestart, SetTarget,
     KeyUnchanged, radioVars, webVars, bounds
<1>7. CASE SetAddresses
  BY <1>7, Served DEF SafeInv, RestartInv, AsksForRestart, SetAddresses,
     KeyUnchanged, radioVars, webVars, bounds
<1>8. CASE SetDhcp
  BY <1>8, Served DEF SafeInv, RestartInv, AsksForRestart, SetDhcp,
     KeyUnchanged, webVars, bounds, Radio_StopRx
<1>9. CASE Stop
  BY <1>9, Served DEF SafeInv, RestartInv, AsksForRestart, Stop,
     KeyUnchanged, webVars, bounds, Radio_StopRx
<1>10. CASE Start
  BY <1>10, Served DEF SafeInv, RestartInv, AsksForRestart, Start,
     KeyUnchanged, webVars, bounds, Radio_SetUp
<1>11. CASE Start_Opened
  BY <1>11 DEF SafeInv, RestartInv, AsksForRestart, RequestInv, Start_Opened,
     KeyUnchanged, webVars, bounds
<1>12. CASE SetProtocol
  BY <1>12, Served DEF SafeInv, RestartInv, AsksForRestart, SetProtocol,
     KeyUnchanged, webVars, bounds
<1>13. CASE SetChannel
  BY <1>13, Served DEF SafeInv, RestartInv, AsksForRestart, SetChannel,
     KeyUnchanged, radioVars, webVars, bounds
<1>14. CASE SendHtmlToClient
  BY <1>14 DEF SafeInv, RestartInv, AsksForRestart, SendHtmlToClient,
     reqVars, radioVars, bounds
<1>15. CASE Dashboard_Restart
  BY <1>15 DEF SafeInv, RestartInv, AsksForRestart, Dashboard_Restart,
     webVars, bounds, RestartMCU
<1>16. CASE Dashboard_Done
  BY <1>16 DEF SafeInv, RestartInv, AsksForRestart, Dashboard_Done, reqVars,
     radioVars, webVars, bounds
<1>17. ASSUME NEW b \in Browsers, Dashboard_Accept(b) PROVE RestartInv'
  BY <1>17 DEF SafeInv, RestartInv, AsksForRestart, Dashboard_Accept,
     radioVars, bounds
<1>18. CASE PowerCycle
  BY <1>18 DEF SafeInv, RestartInv, AsksForRestart, PowerCycle, webVars,
     bounds, RestartMCU
<1>19. CASE UNCHANGED vars
  BY <1>19 DEF SafeInv, RestartInv, AsksForRestart, vars, taskVars, reqVars,
     radioVars, webVars, bounds
<1>20. QED
  BY <1>1, <1>2, <1>3, <1>4, <1>5, <1>6, <1>7, <1>8, <1>9, <1>10, <1>11, <1>12,
     <1>13, <1>14, <1>15, <1>16, <1>17, <1>18, <1>19 DEF Next, Init_Main,
     Sniffing_Main, Dashboard_Main, SetStatusProperty

(* What is stored is shown, and the network is that of the last boot until *)
(* a restart is requested.                                                 *)
LEMMA ShownStep ==
  ASSUME SafeInv, [Next]_vars
  PROVE  ShownInv'
<1>1. CASE Init_Begin
  BY <1>1 DEF SafeInv, TypeInv, StatusType, Requested, Shown, RestartInv,
     ShownInv, Up, Init_Begin, Programmed, reqVars, radioVars, webVars, bounds
<1>2. CASE Init_Network
  BY <1>2 DEF SafeInv, TypeInv, StatusType, Requested, Shown, RestartInv,
     ShownInv, Up, Init_Network, reqVars, radioVars, webVars, bounds
<1>3. CASE Init_DhcpFails
  BY <1>3 DEF SafeInv, TypeInv, StatusType, Requested, Shown, RestartInv,
     ShownInv, Up, Init_DhcpFails, webVars, bounds, RestartMCU
<1>4. CASE Sniffing_Start
  BY <1>4 DEF SafeInv, TypeInv, StatusType, Requested, Shown, RestartInv,
     ShownInv, Up, Sniffing_Start, reqVars, webVars, bounds, Radio_SetUp
<1>5. CASE Sniffing_Opened
  BY <1>5 DEF SafeInv, TypeInv, StatusType, Requested, Shown, RestartInv,
     ShownInv, Up, Sniffing_Opened, reqVars, webVars, bounds
<1>6. CASE SetTarget
  BY <1>6, Served DEF SafeInv, TypeInv, StatusType, Requested, Shown,
     RestartInv, ShownInv, Up, SetTarget, KeyUnchanged, radioVars, webVars,
     bounds
<1>7. CASE SetAddresses
  BY <1>7, Served DEF SafeInv, TypeInv, StatusType, Requested, Shown,
     RestartInv, ShownInv, Up, SetAddresses, KeyUnchanged, radioVars,
     webVars, bounds
<1>8. CASE SetDhcp
  BY <1>8, Served DEF SafeInv, TypeInv, StatusType, Requested, Shown,
     RestartInv, ShownInv, Up, SetDhcp, KeyUnchanged, webVars, bounds,
     Radio_StopRx
<1>9. CASE Stop
  BY <1>9, Served DEF SafeInv, TypeInv, StatusType, Requested, Shown,
     RestartInv, ShownInv, Up, Stop, KeyUnchanged, webVars, bounds,
     Radio_StopRx
<1>10. CASE Start
  BY <1>10, Served DEF SafeInv, TypeInv, StatusType, Requested, Shown,
     RestartInv, ShownInv, Up, Start, KeyUnchanged, webVars, bounds,
     Radio_SetUp
<1>11. CASE Start_Opened
  BY <1>11 DEF SafeInv, TypeInv, StatusType, Requested, Shown, RestartInv,
     ShownInv, Up, Start_Opened, KeyUnchanged, webVars, bounds
<1>12. CASE SetProtocol
  BY <1>12, Served DEF SafeInv, TypeInv, StatusType, Requested, Shown,
     RestartInv, ShownInv, Up, SetProtocol, KeyUnchanged, webVars, bounds
<1>13. CASE SetChannel
  BY <1>13, Served DEF SafeInv, TypeInv, StatusType, Requested, Shown,
     RestartInv, ShownInv, Up, SetChannel, KeyUnchanged, radioVars, webVars,
     bounds
<1>14. CASE SendHtmlToClient
  BY <1>14 DEF SafeInv, TypeInv, StatusType, Requested, Shown, RestartInv,
     ShownInv, Up, SendHtmlToClient, reqVars, radioVars, bounds
<1>15. CASE Dashboard_Restart
  BY <1>15 DEF SafeInv, TypeInv, StatusType, Requested, Shown, RestartInv,
     ShownInv, Up, Dashboard_Restart, webVars, bounds, RestartMCU
<1>16. CASE Dashboard_Done
  BY <1>16 DEF SafeInv, TypeInv, StatusType, Requested, Shown, RestartInv,
     ShownInv, Up, Dashboard_Done, reqVars, radioVars, webVars, bounds
<1>17. ASSUME NEW b \in Browsers, Dashboard_Accept(b) PROVE ShownInv'
  BY <1>17 DEF SafeInv, TypeInv, StatusType, Requested, Shown, RestartInv,
     ShownInv, Up, Dashboard_Accept, radioVars, bounds
<1>18. CASE PowerCycle
  BY <1>18 DEF SafeInv, TypeInv, StatusType, Requested, Shown, RestartInv,
     ShownInv, Up, PowerCycle, webVars, bounds, RestartMCU
<1>19. CASE UNCHANGED vars
  BY <1>19 DEF SafeInv, TypeInv, StatusType, Requested, Shown, RestartInv,
     ShownInv, Up, vars, taskVars, reqVars, radioVars, webVars, bounds
<1>20. QED
  BY <1>1, <1>2, <1>3, <1>4, <1>5, <1>6, <1>7, <1>8, <1>9, <1>10, <1>11, <1>12,
     <1>13, <1>14, <1>15, <1>16, <1>17, <1>18, <1>19 DEF Next, Init_Main,
     Sniffing_Main, Dashboard_Main, SetStatusProperty

-----------------------------------------------------------------------------
(* The inductive invariant, and what follows from it.                      *)

(* The invariant holds at the beginning.                                   *)
LEMMA InitInv ==
  ASSUME Init
  PROVE  ExactInv
<1>1. TaskType
  BY DEF Init, TaskType
<1>2. CountType
  BY BoundAssumption DEF Init, CountType
<1>3. StatusType
  <2>1. Cleared \in Requested
    BY DEF Cleared, Requested
  <2>2. Dark \in Shown
    BY DEF Dark, Shown, Targets
  <2>3. QED
    BY <2>1, <2>2 DEF Init, StatusType
<1>4. RadioType
  <2>1. Untuned \in [Protocols -> Channels \cup {0}]
    BY DEF Untuned, Protocols
  <2>2. RadioOff \in [on : BOOLEAN, proto : Protocols \cup {"none"}, chan : Channels \cup {0}]
    BY DEF RadioOff
  <2>3. QED
    BY <2>1, <2>2 DEF Init, RadioType, Protocols
<1>5. FormType
  <2>1. <<>> \in Seq({"h", "s", "r", "p", "k", "t"})
    OBVIOUS
  <2>2. Get(<<>>) \in Forms
    BY GetIsForm
  <2>3. QED
    BY <2>1, <2>2 DEF Init, FormType
<1>6. PageType
  <2>1. NoPage \in [loaded : BOOLEAN, stv : Requested] /\ ~NoPage.loaded
    BY DEF NoPage, Cleared, Requested
  <2>2. QED
    BY <2>1 DEF Init, PageType
<1>7. TypeInv
  BY <1>1, <1>2, <1>3, <1>4, <1>5, <1>6 DEF TypeInv
<1>8. RequestInv /\ PlaceInv /\ RestartInv /\ StatusInv /\ ShownInv
  BY DEF Init, RequestInv, PlaceInv, RestartInv, StatusInv, ShownInv, Up
<1>9. RunInv
  BY DEF Init, RunInv, Up, Cleared, RadioOff
<1>10. PageInv
  BY DEF Init, PageInv
<1>11. TunedInv
  BY DEF Init, TunedInv, RadioOff
<1>12. QED
  BY <1>7, <1>8, <1>9, <1>10, <1>11 DEF ExactInv, SafeInv

(* The faults of a behaviour do not change.                                *)
LEMMA FaultsStay ==
  ASSUME [Next]_vars
  PROVE  faults' = faults
<1>1. CASE Init_Begin
  BY <1>1 DEF bounds, Init_Begin, Programmed, reqVars, radioVars, webVars,
     bounds
<1>2. CASE Init_Network
  BY <1>2 DEF bounds, Init_Network, reqVars, radioVars, webVars, bounds
<1>3. CASE Init_DhcpFails
  BY <1>3 DEF bounds, Init_DhcpFails, webVars, bounds, RestartMCU
<1>4. CASE Sniffing_Start
  BY <1>4 DEF bounds, Sniffing_Start, reqVars, webVars, bounds, Radio_SetUp
<1>5. CASE Sniffing_Opened
  BY <1>5 DEF bounds, Sniffing_Opened, reqVars, webVars, bounds
<1>6. CASE SetTarget
  BY <1>6 DEF bounds, SetTarget, KeyUnchanged, radioVars, webVars, bounds
<1>7. CASE SetAddresses
  BY <1>7 DEF bounds, SetAddresses, KeyUnchanged, radioVars, webVars, bounds
<1>8. CASE SetDhcp
  BY <1>8 DEF bounds, SetDhcp, KeyUnchanged, webVars, bounds, Radio_StopRx
<1>9. CASE Stop
  BY <1>9 DEF bounds, Stop, KeyUnchanged, webVars, bounds, Radio_StopRx
<1>10. CASE Start
  BY <1>10 DEF bounds, Start, KeyUnchanged, webVars, bounds, Radio_SetUp
<1>11. CASE Start_Opened
  BY <1>11 DEF bounds, Start_Opened, KeyUnchanged, webVars, bounds
<1>12. CASE SetProtocol
  BY <1>12 DEF bounds, SetProtocol, KeyUnchanged, webVars, bounds
<1>13. CASE SetChannel
  BY <1>13 DEF bounds, SetChannel, KeyUnchanged, radioVars, webVars, bounds
<1>14. CASE SendHtmlToClient
  BY <1>14 DEF bounds, SendHtmlToClient, reqVars, radioVars, bounds
<1>15. CASE Dashboard_Restart
  BY <1>15 DEF bounds, Dashboard_Restart, webVars, bounds, RestartMCU
<1>16. CASE Dashboard_Done
  BY <1>16 DEF bounds, Dashboard_Done, reqVars, radioVars, webVars, bounds
<1>17. ASSUME NEW b \in Browsers, Dashboard_Accept(b) PROVE faults' = faults
  BY <1>17 DEF bounds, Dashboard_Accept, radioVars, bounds
<1>18. CASE PowerCycle
  BY <1>18 DEF bounds, PowerCycle, webVars, bounds, RestartMCU
<1>19. CASE UNCHANGED vars
  BY <1>19 DEF bounds, vars, taskVars, reqVars, radioVars, webVars, bounds
<1>20. QED
  BY <1>1, <1>2, <1>3, <1>4, <1>5, <1>6, <1>7, <1>8, <1>9, <1>10, <1>11, <1>12,
     <1>13, <1>14, <1>15, <1>16, <1>17, <1>18, <1>19 DEF Next, Init_Main,
     Sniffing_Main, Dashboard_Main, SetStatusProperty

(* Every step keeps the invariant.                                         *)
LEMMA StepInv ==
  ASSUME ExactInv, [Next]_vars
  PROVE  ExactInv'
<1>1. SafeInv
  BY DEF ExactInv
<1>2. TypeInv'
  BY <1>1, TaskStep, CountStep, StatusTypeStep, RadioTypeStep, FormStep,
     PageTypeStep DEF TypeInv
<1>3. faults' = faults
  BY FaultsStay
<1>4. StartsOnRequest' => RunInv'
  BY <1>1, <1>3, RunStep DEF StartsOnRequest
<1>5. SafeInv'
  BY <1>1, <1>2, <1>4, RequestStep, PlaceStep, RestartStep, StatusStep,
     ShownStep DEF SafeInv
<1>6. ASSUME OneBrowser, faults = {} PROVE PageInv' /\ TunedInv'
  BY <1>1, <1>6, PageStep, TunedStep DEF ExactInv
<1>7. QED
  BY <1>3, <1>5, <1>6 DEF ExactInv, OneBrowser

(* The invariant holds throughout.                                         *)
LEMMA Invariant == Spec => []ExactInv
  BY InitInv, StepInv, PTL DEF Spec

(* The type invariant of the module is part of it.                         *)
LEMMA TypeInvIsType == TypeInv => TypeOK
  BY DEF TypeInv, TaskType, CountType, StatusType, RadioType, FormType,
     PageType, TypeOK

(* Every variable of the device keeps its type; at most two calls of       *)
(* RF_open are counted.                                                    *)
THEOREM TypeCorrect == Spec => []TypeOK
<1>1. ExactInv => TypeOK
  BY TypeInvIsType DEF ExactInv, SafeInv
<1>2. QED
  BY <1>1, Invariant, PTL

(* StatusIsTrue, for any number of browsers and any faults: when no        *)
(* request is being served, display and network agree with the status      *)
(* vector that Init_Main, both tasks and six requests of HandleRestApi     *)
(* write.                                                                  *)
THEOREM StatusStaysTrue == Spec => []StatusIsTrue
<1>1. ExactInv => StatusIsTrue
  <2> SUFFICES ASSUME ExactInv, Quiet PROVE StatusIsTrue
    BY DEF StatusIsTrue
  <2>1. Up /\ ~restart /\ dash # "opening"
    BY DEF ExactInv, SafeInv, RestartInv, Up, Quiet
  <2>2. /\ gui.proto = stv.proto /\ gui.chan = stv.chan
        /\ network = IF stv.dhcp = "yes" THEN "dhcp" ELSE "static"
    BY <2>1 DEF ExactInv, SafeInv, ShownInv
  <2>3. gui.rx \in BOOLEAN /\ radio.on \in BOOLEAN
    BY DEF ExactInv, SafeInv, TypeInv, StatusType, RadioType, Shown
  <2>4. StartsOnRequest => (gui.rx <=> radio.on)
    BY <2>1 DEF ExactInv, SafeInv, RunInv
  <2>5. QED
    BY <2>2, <2>3, <2>4 DEF StatusIsTrue
<1>2. QED
  BY <1>1, Invariant, PTL

(* RestartsAreAsked, for any number of browsers and any faults:            *)
(* Dashboard_Main restarts the device only for the stop or the network     *)
(* form that it has just served, and leaves the radio stopped if the       *)
(* device does not start by itself.                                        *)
THEOREM RestartsStayAsked == Spec => RestartsAreAsked
<1> DEFINE Asked ==
      /\ \/ req.keys \in {<<"h">>, <<"h", "s">>}
         \/ req.keys = <<"r">> /\ ~req.r
      /\ StartsOnRequest => ~radio.on
<1>1. ASSUME ExactInv, Dashboard_Restart PROVE Asked
  <2>1. dash = "sent" /\ restart
    BY <1>1 DEF Dashboard_Restart
  <2>2. AsksForRestart(req)
    BY <1>1, <2>1 DEF ExactInv, SafeInv, RestartInv
  <2>3. StartsOnRequest => ~radio.on
    BY <1>1, <2>1 DEF ExactInv, SafeInv, RunInv
  <2>4. QED
    BY <2>2, <2>3 DEF AsksForRestart
<1>2. ExactInv /\ [Next]_vars => [Dashboard_Restart => Asked]_vars
  BY <1>1
<1>3. QED
  BY <1>2, Invariant, PTL DEF Spec, RestartsAreAsked

(* The first half of RadioFollowsCommands needs no assumption on the       *)
(* browsers: whatever pages they show, are lost or are repeated, the radio *)
(* receives exactly if the last command was a start.                       *)
THEOREM CaptureFollowsCommands ==
  Spec => [](Quiet /\ StartsOnRequest =>
               (radio.on <=> wanted) /\ (stv.running <=> wanted))
<1>1. ExactInv => (Quiet /\ StartsOnRequest =>
                     (radio.on <=> wanted) /\ (stv.running <=> wanted))
  BY DEF ExactInv, SafeInv, RunInv, Quiet
<1>2. QED
  BY <1>1, Invariant, PTL

(* RadioFollowsCommands for one browser: as long as its pages arrive and   *)
(* none of its requests is repeated, Radio_SetUpAndBeginRx is not called   *)
(* for a radio that is open.                                               *)
THEOREM CommandsAreFollowed == OneBrowser => (Spec => []RadioFollowsCommands)
<1> SUFFICES ASSUME OneBrowser PROVE Spec => []RadioFollowsCommands
  OBVIOUS
<1>1. ExactInv => RadioFollowsCommands
  BY DEF ExactInv, SafeInv, RunInv, TunedInv, Quiet, RadioFollowsCommands
<1>2. QED
  BY <1>1, Invariant, PTL

(* TunedAsShown for one browser: the radio is tuned to the protocol and    *)
(* the channel of the status vector, although SetProtocol and SetChannel   *)
(* change it without a look at the radio.                                  *)
THEOREM RadioIsTuned == OneBrowser => (Spec => []TunedAsShown)
<1> SUFFICES ASSUME OneBrowser PROVE Spec => []TunedAsShown
  OBVIOUS
<1>1. ExactInv => TunedAsShown
  BY DEF ExactInv, TunedInv, TunedAsShown
<1>2. QED
  BY <1>1, Invariant, PTL

==============================================================================
