----------------------------- MODULE MCBonjour -------------------------------
(***************************************************************************)
(* Messages for the models of EthernetBonjour.c: questions, and responses  *)
(* of hosts that compress every name they can, as DNS encoders do.  Names  *)
(* are short: buffers of three bytes stand for those of twelve.            *)
(***************************************************************************)
EXTENDS Sequences, SequencesExt, FiniteSets, FiniteSetsExt, Integers

(* hello.l, s.u.l for _services._dns-sd._udp.local, .t.l for ._tcp.local   *)
OwnName  == <<104, 101, 108, 108, 111, 46, 108>>
Services == <<115, 46, 117, 46, 108>>
Tcp      == <<46, 116, 46, 108>>
Http     == <<95, 104>>
Ftp      == <<95, 102, 116, 112>>
Registered == << <<97, 97, 46>> \o Http, <<>>, <<98, 46>> \o Http, <<99, 99, 99, 99, 46>> \o Ftp >>

AskedNames == {OwnName, Services, Http \o Tcp, Ftp \o Tcp, Http \o <<46, 117, 46, 108>>,
               <<104, 101, 108, 46, 108>>}
Ask(types, classes) == [name : AskedNames, type : types, class : classes]
Asked == {<<q>> : q \in Ask({1, 12, 28, 33, 255}, {<<0, 1>>, <<128, 1>>, <<0, 255>>})}
           \cup Ask({1, 12, 28}, {<<0, 1>>, <<128, 1>>}) \X Ask({1, 12, 28}, {<<0, 1>>, <<128, 1>>})

-----------------------------------------------------------------------------
(* An encoder: a message and where in it the suffixes of names are.        *)
PutBytes(m, b) == [m EXCEPT !.bytes = @ \o b]

PutName(m, labels) ==
  LET n == Len(labels)
      From(i) == SubSeq(labels, i, n)
      k == Min({i \in 1 .. n : From(i) \in DOMAIN m.at} \cup {n + 1})
      Spelt(i) == FlattenSeq([x \in 1 .. i - 1 |-> <<Len(labels[x])>> \o labels[x]])
  IN  [bytes |-> m.bytes \o Spelt(k) \o (IF k <= n THEN <<192, m.at[From(k)]>> ELSE <<0>>),
       at |-> [s \in DOMAIN m.at \cup {From(i) : i \in 1 .. k - 1} |->
                 IF s \in DOMAIN m.at THEN m.at[s] ELSE Len(m.bytes \o Spelt(n - Len(s) + 1))]]

PutRecord(m, r) ==
  LET head  == PutBytes(PutName(m, r.owner), <<0, r.type, 128, 1, 0, 0, 0, 9, 0, 0>>)
      whole == CASE r.type = 12 -> PutName(head, r.data)
                 [] r.type = 33 -> PutName(PutBytes(head, <<0, 0, 0, 0>> \o r.port), r.data)
                 [] OTHER -> PutBytes(head, r.data)
  IN  [whole EXCEPT !.bytes[Len(head.bytes)] = Len(whole.bytes) - Len(head.bytes)]

(* The question may be repeated, and there may be an authority.            *)
Message(question, answers, authorities, additional) ==
  LET counts == <<0, Len(question), 0, Len(answers), 0, Len(authorities), 0, Len(additional)>>
      start  == [bytes |-> <<0, 0, 132, 0>> \o counts, at |-> [s \in {} |-> 0]]
      begun  == FoldLeft(LAMBDA m, q : PutBytes(PutName(m, q), <<0, 12, 0, 1>>), start, question)
  IN  FoldLeft(PutRecord, begun, answers \o authorities \o additional).bytes

-----------------------------------------------------------------------------
(* Hosts p and qp offer services a and abcd of the type _h._tcp.           *)
Type     == <<Http, <<116>>, <<108>>>>
TypeText == Http \o Tcp
P  == <<112, 46, 108>>
QP == <<113, 112, 46, 108>>
HostLabels == P :> <<<<112>>, <<108>>>> @@ QP :> <<<<113, 112>>, <<108>>>>
HostIps == P :> <<10, 0, 0, 1>> @@ QP :> <<10, 0, 0, 2>>

S1    == [name |-> <<97>>, host |-> P, port |-> <<0, 80>>, txt |-> <<2, 120, 49>>]
S2(h) == [name |-> <<97, 98, 99, 100>>, host |-> h, port |-> <<31, 144>>, txt |-> <<>>]

Pointer(s) == [owner |-> Type, type |-> 12, data |-> <<s.name>> \o Type]
Srv(s) == [owner |-> <<s.name>> \o Type, type |-> 33, port |-> s.port, data |-> HostLabels[s.host]]
Txt(s) == [owner |-> <<s.name>> \o Type, type |-> 16, data |-> IF s.txt = <<>> THEN <<0>> ELSE s.txt]
Address(h) == [owner |-> HostLabels[h], type |-> 1, data |-> HostIps[h]]
Nsec(h) == [owner |-> HostLabels[h], type |-> 47, data |-> <<0, 1, 64>>]

(* The services as answers, all else as additional records in any order.   *)
From(services, hosts, question, answered, authorities) ==
  LET additional == [i \in DOMAIN services |-> Srv(services[i])]
                      \o [i \in DOMAIN services |-> Txt(services[i])]
                      \o [i \in DOMAIN hosts |-> Address(hosts[i])]
      answers == [i \in DOMAIN services |-> Pointer(services[i])]
                   \o [i \in DOMAIN answered |-> Address(answered[i])]
  IN  {[packet   |-> Message(question, answers, authorities, order),
        services |-> Range(services), answered |-> Range(answered), hosts |-> HostIps]
         : order \in SetToSeqs(Range(additional))}

MCResponses ==
  From(<<S1>>, <<P>>, <<>>, <<>>, <<>>)
    \cup From(<<S1>>, <<P>>, <<Type>>, <<QP>>, <<Nsec(QP)>>)
    \cup From(<<S1, S2(P)>>, <<P>>, <<>>, <<QP>>, <<Nsec(P)>>)
    \cup From(<<S2(QP), S1>>, <<P, QP>>, <<>>, <<>>, <<>>)
    \cup From(<<>>, <<P>>, <<>>, <<QP, P>>, <<>>)
=============================================================================
