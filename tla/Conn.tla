-------------------------------- MODULE Conn --------------------------------
(***************************************************************************)
(* One RTMP connection between joy5's client and joy5's server             *)
(* (format/rtmp: client.go, server.go, handshake.go, cmd.go, and the       *)
(* message level of msg.go): the handshake, the command exchange up to     *)
(* publish or play, the stages of Conn, and the packets that follow.       *)
(*                                                                         *)
(* What makes it hard is that writes are buffered until somebody flushes,  *)
(* that TCP pushes back when the other end does not read, that the end     *)
(* which sends packets hands reading over to a goroutine of its own, and   *)
(* that a deadline or a disconnect may come at any point.                  *)
(*                                                                         *)
(* Each action is the code between two reads, or two writes, that may      *)
(* block.  A message keeps its name and the fields the other end looks at; *)
(* chunks, AMF and digests are other modules' business.                    *)
(***************************************************************************)
EXTENDS Integers, Sequences

CONSTANTS NetCap,    \* messages a non-empty TCP pipe still takes (bound)
          BufCap,    \* packets a bufio.Writer holds before it must write
          MaxPkts,   \* packets written on the connection (bound)
          Refusals   \* what HandleConn may put in PubPlayErr: refuse or not

ASSUME ConnAssumption ==
    NetCap \in Nat /\ BufCap \in Nat /\ MaxPkts \in Nat /\ Refusals \subseteq BOOLEAN

End == {"cli", "srv"}
Peer(e) == IF e = "cli" THEN "srv" ELSE "cli"

VARIABLES
    flags,        \* the client's flags: "publish" or "play"
    pc,           \* where the goroutine of each end is
    stage,        \* Conn.Stage
    publishing,   \* Conn.Publishing
    avmsgsid,     \* Conn.avmsgsid
    transid,      \* Conn.lastcmd.transid
    wbuf,         \* each end's bufio.Writer
    net,          \* what is on its way to each end
    open,         \* each end's net.Conn is open
    deadline,     \* its deadline: "none", "set" or "passed"
    peek,         \* its peek-read loop: "off", "on", "ended"
    closeNotify,  \* its closeNotify channel holds a token
    refuse,       \* the server's PubPlayErr is set
    wrote, got,   \* packets written and packets read
    dropped       \* names of the messages its peek-read loop threw away

sess == <<stage, publishing, avmsgsid, transid>>
ctl == <<open, deadline, peek, closeNotify>>
hist == <<wrote, got, dropped>>
vars == <<flags, pc, sess, wbuf, net, ctl, refuse, hist>>

StageInit == 0
StageHandshakeDone == 1
StageGotPublishOrPlayCommand == 2
StageCommandDone == 3
StageDataStart == 4

\* A message: of a command the transaction id, the stream id or status level it
\* carries; of a packet its number.
Msg(name, id, sid, level) == [name |-> name, id |-> id, sid |-> sid, level |-> level]
Ctl(name) == Msg(name, 0, 0, "")
Cmd(name, id) == Msg(name, id, 0, "")
Packet(n) == Msg("packet", n, 0, "")
Result(id, sid, level) == Msg("_result", id, sid, level)
OnStatus(id) == Msg("onStatus", id, 0, "status")

Commands == {"connect", "_result", "releaseStream", "FCPublish", "createStream",
             "publish", "play", "onStatus"}

Message == [name : Commands \union {"C0C1", "S0S1S2", "C2", "WindowAckSize", "SetPeerBandwidth",
                     "SetChunkSize", "SetBufferLength", "StreamIsRecorded", "StreamBegin", "packet", "Ack"},
            id : Nat, sid : 0..1, level : {"", "status"}]

Init ==
    /\ flags \in {"publish", "play"}
    /\ pc = [e \in End |-> IF e = "cli" THEN "hello" ELSE "c0c1"]
    /\ stage = [e \in End |-> StageInit]
    /\ publishing = [e \in End |-> FALSE]
    /\ avmsgsid = [e \in End |-> 0]
    /\ transid = [e \in End |-> 0]
    /\ wbuf = [e \in End |-> <<>>]
    /\ net = [e \in End |-> <<>>]
    /\ open = [e \in End |-> TRUE]
    /\ deadline = [e \in End |-> "set"]
    /\ peek = [e \in End |-> "off"]
    /\ closeNotify = [e \in End |-> FALSE]
    /\ refuse = FALSE
    /\ wrote = 0
    /\ got = 0
    /\ dropped = [e \in End |-> {}]

-----------------------------------------------------------------------------
(* Reading and writing                                                     *)

Goto(e, from, to) == pc[e] = from /\ pc' = [pc EXCEPT ![e] = to]

Stays(e, at) == pc[e] = at /\ pc' = pc

\* c.writing()
Writing(e) == IF e = "srv" THEN ~publishing[e] ELSE publishing[e]

\* A read or a write of e that the deadline has not cut off.
InTime(e) == open[e] /\ deadline[e] # "passed"

\* Messages that end e writes and does not flush.
Write(e, ms) ==
    /\ InTime(e)
    /\ wbuf' = [wbuf EXCEPT ![e] = @ \o ms]

\* e writes ms and flushes: the flush blocks while the pipe is full.  To an end
\* that is closed the bytes are lost.
WriteFlush(e, ms, ahead) ==
    LET out == wbuf[e] \o ms
    IN  /\ InTime(e)
        /\ ahead[Peer(e)] = <<>> \/ Len(ahead[Peer(e)]) + Len(out) <= NetCap
        /\ wbuf' = [wbuf EXCEPT ![e] = <<>>]
        /\ net' = [ahead EXCEPT ![Peer(e)] = IF open[Peer(e)] THEN @ \o out ELSE @]

\* e has a message to read; Rest(e) is the pipe without it.
HasMsg(e) == InTime(e) /\ net[e] # <<>>
Rest(e) == [net EXCEPT ![e] = Tail(@)]
Read(e) == net' = Rest(e)

\* readCommand: it goes on over everything that is not a command.
CommandPcs == {"connectres", "createres", "status", "connect", "commands"}

SkipMsg(e) ==
    /\ pc[e] \in CommandPcs
    /\ HasMsg(e)
    /\ Head(net[e]).name \notin Commands
    /\ Read(e)
    /\ UNCHANGED <<flags, pc, sess, wbuf, ctl, refuse, hist>>

ReadCommand(e, at) ==
    /\ pc[e] = at
    /\ HasMsg(e)
    /\ Head(net[e]).name \in Commands
    /\ transid' = [transid EXCEPT ![e] = Head(net[e]).id]

\* A command that the loop at hand does not look for.
IgnoreCommand(e, at, wanted) ==
    /\ ReadCommand(e, at)
    /\ ~wanted
    /\ Read(e)
    /\ UNCHANGED <<flags, pc, stage, publishing, avmsgsid, wbuf, ctl, refuse, hist>>

BasicConf == <<Ctl("WindowAckSize"), Ctl("SetPeerBandwidth"), Ctl("SetChunkSize")>>

\* Deviation: nobody reads on behalf of the end that writes packets.
StartPeekNever(e, publ) == peek' = peek

\* Deviation: both ends start the loop.
StartPeekAlways(e, publ) == peek' = [peek EXCEPT ![e] = "on"]

\* startPeekReadLoop, for the end that will write packets.
StartPeek(e, publ) ==
    peek' = IF (e = "srv" /\ ~publ) \/ (e = "cli" /\ publ) THEN [peek EXCEPT ![e] = "on"] ELSE peek

-----------------------------------------------------------------------------
(* The client: handshakeClient, writeConnect, connectPublish, connectPlay  *)

Hello ==
    /\ Goto("cli", "hello", "s0s1s2")
    /\ WriteFlush("cli", <<Ctl("C0C1")>>, net)
    /\ UNCHANGED <<flags, sess, ctl, refuse, hist>>

\* C2 is written and not flushed.
ReadS0S1S2 ==
    /\ Goto("cli", "s0s1s2", "writeconnect")
    /\ HasMsg("cli")
    /\ Read("cli")
    /\ Write("cli", <<Ctl("C2")>>)
    /\ stage' = [stage EXCEPT !["cli"] = StageHandshakeDone]
    /\ UNCHANGED <<flags, publishing, avmsgsid, transid, ctl, refuse, hist>>

\* Deviation: writeConnect leaves the flush to a later writer.
WriteConnectNoFlush ==
    /\ Goto("cli", "writeconnect", "connectres")
    /\ Write("cli", BasicConf \o <<Cmd("connect", 1)>>)
    /\ UNCHANGED <<flags, sess, net, ctl, refuse, hist>>

WriteConnect ==
    /\ Goto("cli", "writeconnect", "connectres")
    /\ WriteFlush("cli", BasicConf \o <<Cmd("connect", 1)>>, net)
    /\ UNCHANGED <<flags, sess, ctl, refuse, hist>>

ReadConnectResult ==
    /\ ReadCommand("cli", "connectres")
    /\ Head(net["cli"]).name = "_result" /\ Head(net["cli"]).level = "status"
    /\ Goto("cli", "connectres", "create")
    /\ Read("cli")
    /\ UNCHANGED <<flags, stage, publishing, avmsgsid, wbuf, ctl, refuse, hist>>

WriteCreateStream ==
    /\ Goto("cli", "create", "createres")
    /\ WriteFlush("cli",
          IF flags = "publish"
          THEN <<Cmd("releaseStream", 2), Cmd("FCPublish", 3), Cmd("createStream", 4)>>
          ELSE <<Cmd("createStream", 2), Ctl("SetBufferLength")>>, net)
    /\ UNCHANGED <<flags, sess, ctl, refuse, hist>>

\* Deviation: the stream id of the answer is not kept.
ReadCreateResultNoSid ==
    /\ ReadCommand("cli", "createres")
    /\ Head(net["cli"]).name = "_result"
    /\ Goto("cli", "createres", "request")
    /\ Read("cli")
    /\ UNCHANGED <<flags, stage, publishing, avmsgsid, wbuf, ctl, refuse, hist>>

CreateResult(m) == m.name = "_result" /\ (flags = "publish" => m.id = 4)

ReadCreateResult ==
    /\ ReadCommand("cli", "createres")
    /\ CreateResult(Head(net["cli"]))
    /\ Goto("cli", "createres", "request")
    /\ avmsgsid' = [avmsgsid EXCEPT !["cli"] = Head(net["cli"]).sid]
    /\ Read("cli")
    /\ UNCHANGED <<flags, stage, publishing, wbuf, ctl, refuse, hist>>

WriteRequest ==
    /\ Goto("cli", "request", "status")
    /\ WriteFlush("cli", <<Cmd(flags, IF flags = "publish" THEN 5 ELSE 0)>>, net)
    /\ UNCHANGED <<flags, sess, ctl, refuse, hist>>

\* The first onStatus; then Prepare returns, after startPeekReadLoop.
ReadStatus ==
    /\ ReadCommand("cli", "status")
    /\ Head(net["cli"]).name = "onStatus" /\ Head(net["cli"]).level = "status"
    /\ Goto("cli", "status", "prepared")
    /\ Read("cli")
    /\ publishing' = [publishing EXCEPT !["cli"] = flags = "publish"]
    /\ stage' = [stage EXCEPT !["cli"] = StageCommandDone]
    /\ StartPeek("cli", flags = "publish")
    /\ UNCHANGED <<flags, avmsgsid, wbuf, open, deadline, closeNotify, refuse, hist>>

\* Commands the client's loops pass over.
IgnoreReply ==
    \/ IgnoreCommand("cli", "connectres", Head(net["cli"]).name = "_result")
    \/ IgnoreCommand("cli", "createres", CreateResult(Head(net["cli"])))
    \/ IgnoreCommand("cli", "status", Head(net["cli"]).name = "onStatus")

ClientStep ==
    \/ Hello \/ ReadS0S1S2 \/ WriteConnect \/ ReadConnectResult \/ WriteCreateStream
    \/ ReadCreateResult \/ WriteRequest \/ ReadStatus \/ IgnoreReply

-----------------------------------------------------------------------------
(* The server: handshakeServer, readConnect, writePublishOrPlayResult      *)

ReadC0C1 ==
    /\ Goto("srv", "c0c1", "c2")
    /\ HasMsg("srv")
    /\ WriteFlush("srv", <<Ctl("S0S1S2")>>, Rest("srv"))
    /\ UNCHANGED <<flags, sess, ctl, refuse, hist>>

ReadC2 ==
    /\ Goto("srv", "c2", "connect")
    /\ HasMsg("srv")
    /\ Read("srv")
    /\ stage' = [stage EXCEPT !["srv"] = StageHandshakeDone]
    /\ UNCHANGED <<flags, publishing, avmsgsid, transid, wbuf, ctl, refuse, hist>>

ReadConnect ==
    /\ ReadCommand("srv", "connect")
    /\ Head(net["srv"]).name = "connect"
    /\ Goto("srv", "connect", "commands")
    /\ WriteFlush("srv", BasicConf \o <<Result(Head(net["srv"]).id, 0, "status")>>, Rest("srv"))
    /\ UNCHANGED <<flags, stage, publishing, avmsgsid, ctl, refuse, hist>>

ReadCreateStream ==
    /\ ReadCommand("srv", "commands")
    /\ Head(net["srv"]).name = "createStream"
    /\ avmsgsid' = [avmsgsid EXCEPT !["srv"] = 1]
    /\ WriteFlush("srv", <<Result(Head(net["srv"]).id, 1, "")>>, Rest("srv"))
    /\ UNCHANGED <<flags, pc, stage, publishing, ctl, refuse, hist>>

\* publish or play: readConnect returns, and Prepare with it, after
\* startPeekReadLoop.
ReadRequest ==
    LET publ == Head(net["srv"]).name = "publish"
    IN  /\ ReadCommand("srv", "commands")
        /\ Head(net["srv"]).name \in {"publish", "play"}
        /\ Goto("srv", "commands", "prepared")
        /\ Read("srv")
        /\ publishing' = [publishing EXCEPT !["srv"] = publ]
        /\ stage' = [stage EXCEPT !["srv"] = StageGotPublishOrPlayCommand]
        /\ StartPeek("srv", publ)
        /\ UNCHANGED <<flags, avmsgsid, wbuf, open, deadline, closeNotify, refuse, hist>>

IgnoreRequest ==
    IgnoreCommand("srv", "commands", Head(net["srv"]).name \in {"createStream", "publish", "play"})

\* What the server answers to publish or play.
RequestResult ==
    LET id == transid["srv"]
    IN  IF publishing["srv"] \/ refuse THEN <<OnStatus(id)>>
        ELSE <<Ctl("StreamIsRecorded"), Ctl("StreamBegin"),
               OnStatus(id), OnStatus(id), OnStatus(id)>>

\* Deviation: the answer to publish or play stays in the buffer.
WriteResultNoFlush ==
    /\ Goto("srv", "result", IF publishing["srv"] THEN "packets" ELSE "datastart")
    /\ Write("srv", RequestResult)
    /\ stage' = [stage EXCEPT !["srv"] = StageCommandDone]
    /\ UNCHANGED <<flags, publishing, avmsgsid, transid, net, ctl, refuse, hist>>

\* The answer waits for the first ReadPacket or WritePacket.
WriteResult ==
    /\ Goto("srv", "result", IF publishing["srv"] THEN "packets" ELSE "datastart")
    /\ WriteFlush("srv", RequestResult, net)
    /\ stage' = [stage EXCEPT !["srv"] = StageCommandDone]
    /\ UNCHANGED <<flags, publishing, avmsgsid, transid, ctl, refuse, hist>>

ServerStep ==
    \/ ReadC0C1 \/ ReadC2 \/ ReadConnect \/ ReadCreateStream \/ ReadRequest \/ IgnoreRequest
    \/ publishing["srv"] /\ WriteResult
-----------------------------------------------------------------------------
(* Both ends, once Prepare has returned                                    *)

\* SetDeadline(time.Time{}); a server calls HandleConn, which may set PubPlayErr.
ClearDeadline(e) ==
    /\ pc[e] = "prepared"
    /\ deadline' = [deadline EXCEPT ![e] = "none"]
    /\ pc' = [pc EXCEPT ![e] = IF e = "srv" THEN "result"
                               ELSE IF Writing(e) THEN "datastart" ELSE "packets"]
    /\ refuse' \in IF e = "srv" THEN Refusals ELSE {refuse}
    /\ UNCHANGED <<flags, sess, wbuf, net, open, peek, closeNotify, hist>>

\* Deviation: the stage is not recorded.
WriteDataStartNoStage(e) ==
    /\ Goto(e, "datastart", "packets")
    /\ WriteFlush(e, IF publishing[e] THEN <<>> ELSE <<OnStatus(transid[e])>>, net)
    /\ UNCHANGED <<flags, sess, ctl, refuse, hist>>

\* writeDataStart, by the first WritePacket.
WriteDataStart(e) ==
    /\ Goto(e, "datastart", "packets")
    /\ WriteFlush(e, IF publishing[e] THEN <<>> ELSE <<OnStatus(transid[e])>>, net)
    /\ stage' = [stage EXCEPT ![e] = StageDataStart]
    /\ UNCHANGED <<flags, publishing, avmsgsid, transid, ctl, refuse, hist>>

\* WriteTag: nothing is flushed; a full buffer is written out on the way.
WriteTag(e) ==
    /\ Stays(e, "packets")
    /\ Writing(e)
    /\ wrote < MaxPkts
    /\ wrote' = wrote + 1
    /\ \/ /\ Len(wbuf[e]) < BufCap
          /\ Write(e, <<Packet(wrote + 1)>>)
          /\ UNCHANGED net
       \/ WriteFlush(e, <<Packet(wrote + 1)>>, net)
    /\ UNCHANGED <<flags, sess, ctl, refuse, got, dropped>>

\* Deviation: a message is lost when an acknowledgement is due with it.
ReadTagAckLoses(e) ==
    /\ pc[e] = "packets"
    /\ ~Writing(e)
    /\ HasMsg(e)
    /\ Read(e)
    /\ \E to \in {"packets", "ack"} :
          /\ pc' = [pc EXCEPT ![e] = to]
          /\ got' = IF Head(net[e]).name = "packet" /\ to = "packets" THEN Head(net[e]).id ELSE got
    /\ UNCHANGED <<flags, sess, wbuf, ctl, refuse, wrote, dropped>>

\* rtmpReadTag: messages that are no tags are passed over.  After any of them
\* readMsg may find that an acknowledgement is due.
ReadTag(e) ==
    /\ pc[e] = "packets"
    /\ ~Writing(e)
    /\ HasMsg(e)
    /\ Read(e)
    /\ got' = IF Head(net[e]).name = "packet" THEN Head(net[e]).id ELSE got
    /\ \E to \in {"packets", "ack"} : pc' = [pc EXCEPT ![e] = to]
    /\ UNCHANGED <<flags, sess, wbuf, ctl, refuse, wrote, dropped>>

WriteAck(e) ==
    /\ Goto(e, "ack", "packets")
    /\ WriteFlush(e, <<Ctl("Ack")>>, net)
    /\ UNCHANGED <<flags, sess, ctl, refuse, hist>>

\* The goroutine of startPeekReadLoop: io.Copy to ioutil.Discard, then the token.
PeekRead(e) ==
    /\ peek[e] = "on"
    /\ HasMsg(e)
    /\ Read(e)
    /\ dropped' = [dropped EXCEPT ![e] = @ \union {Head(net[e]).name}]
    /\ UNCHANGED <<flags, pc, sess, wbuf, ctl, refuse, wrote, got>>

PeekEnd(e) ==
    /\ peek[e] = "on"
    /\ ~InTime(e) \/ (net[e] = <<>> /\ ~open[Peer(e)])
    /\ peek' = [peek EXCEPT ![e] = "ended"]
    /\ closeNotify' = [closeNotify EXCEPT ![e] = TRUE]
    /\ UNCHANGED <<flags, pc, sess, wbuf, net, open, deadline, refuse, hist>>

-----------------------------------------------------------------------------
(* Deadlines, disconnects, errors                                          *)

Expire(e) ==
    /\ deadline[e] = "set"
    /\ deadline' = [deadline EXCEPT ![e] = "passed"]
    /\ UNCHANGED <<flags, pc, sess, wbuf, net, open, peek, closeNotify, refuse, hist>>

Preparing(e) == pc[e] \notin {"prepared", "result", "datastart", "packets", "ack", "returned", "closed"}

\* A read or a write of e fails: the deadline has passed, or the other end is
\* gone and there is nothing left to read.
IOError(e) == ~InTime(e) \/ (~open[Peer(e)] /\ net[e] = <<>>)

\* What nc.Close() leaves behind: the buffer is lost, and so is what nobody read.
Close(e) ==
    /\ open' = [open EXCEPT ![e] = FALSE]
    /\ pc' = [pc EXCEPT ![e] = "closed"]
    /\ wbuf' = [wbuf EXCEPT ![e] = <<>>]
    /\ net' = [net EXCEPT ![e] = <<>>]
    /\ UNCHANGED <<flags, sess, deadline, peek, closeNotify, refuse, hist>>

\* A first command that is not connect, or an answer whose level is not status.
BadCommand(e) ==
    /\ HasMsg(e)
    /\ \/ pc[e] = "connect" /\ Head(net[e]).name \in Commands \ {"connect"}
       \/ pc[e] = "connectres" /\ Head(net[e]).name = "_result" /\ Head(net[e]).level # "status"
       \/ pc[e] = "status" /\ Head(net[e]).name = "onStatus" /\ Head(net[e]).level # "status"

\* Prepare returns an error: HandleNetConn and Dial close the connection.
PrepareFails(e) ==
    /\ Preparing(e)
    /\ IOError(e) \/ BadCommand(e)
    /\ Close(e)

\* ReadPacket or WritePacket fails, and the server's handler returns.  Nothing
\* closes the connection.
PacketFails ==
    /\ pc["srv"] \in {"result", "datastart", "packets", "ack"}
    /\ ~open["cli"]
    /\ publishing["srv"] => net["srv"] = <<>>
    /\ pc' = [pc EXCEPT !["srv"] = "returned"]
    /\ UNCHANGED <<flags, sess, wbuf, net, ctl, refuse, hist>>

\* addSub returns on the token of its close channel; setPub returns, before its
\* first packet or between two, when another publisher has replaced it.
HandlerReturns ==
    /\ pc["srv"] \in {"result", "packets"}
    /\ publishing["srv"] \/ closeNotify["srv"]
    /\ pc' = [pc EXCEPT !["srv"] = "returned"]
    /\ UNCHANGED <<flags, sess, wbuf, net, ctl, refuse, hist>>

\* The program that called Dial closes the connection.
CloseClient ==
    /\ pc["cli"] \in {"datastart", "packets", "ack"}
    /\ Close("cli")

\* The garbage collector finds the handler's connection and closes it.
Collect ==
    /\ pc["srv"] = "returned"
    /\ peek["srv"] # "on"
    /\ Close("srv")

\* Steps that wait for the other end only.
Step(e) ==
    \/ IF e = "cli" THEN ClientStep ELSE ServerStep
    \/ SkipMsg(e)
    \/ ClearDeadline(e)
    \/ e = "srv" /\ WriteDataStart(e)
    \/ ReadTag(e)
    \/ WriteAck(e)
    \/ PrepareFails(e)

PeekStep(e) == PeekRead(e) \/ PeekEnd(e)

\* A player's request is answered when the stream has a first packet for it, and
\* a client starts when it has a packet to publish.
FirstPacket == (~publishing["srv"] /\ WriteResult) \/ WriteDataStart("cli")

Finished == pc["cli"] = "closed" /\ pc["srv"] \in {"returned", "closed"} /\ UNCHANGED vars

Next ==
    \/ \E e \in End : Step(e) \/ PeekStep(e) \/ WriteTag(e) \/ Expire(e)
    \/ FirstPacket \/ PacketFails \/ HandlerReturns \/ CloseClient \/ Collect
    \/ Finished

Spec == Init /\ [][Next]_vars

\* Goroutines that can run are run, and both programs go on reading packets.
\* Neither has to write any, no deadline has to pass, nobody has to hang up.
FairSpec == Spec /\ \A e \in End : WF_vars(Step(e)) /\ WF_vars(PeekStep(e))

-----------------------------------------------------------------------------
(* Properties                                                              *)

\* Every variable has its type, and the stage of an end is the one its position
\* in the code presupposes: no ReadPacket or WritePacket prepares again.
TypeOK ==
    /\ flags \in {"publish", "play"}
    /\ stage \in [End -> StageInit..StageDataStart]
    /\ publishing \in [End -> BOOLEAN] /\ avmsgsid \in [End -> 0..1] /\ transid \in [End -> 0..5]
    /\ wbuf \in [End -> Seq(Message)] /\ net \in [End -> Seq(Message)]
    /\ open \in [End -> BOOLEAN] /\ deadline \in [End -> {"none", "set", "passed"}]
    /\ peek \in [End -> {"off", "on", "ended"}] /\ closeNotify \in [End -> BOOLEAN]
    /\ refuse \in BOOLEAN /\ wrote \in 0..MaxPkts /\ got \in 0..MaxPkts
    /\ \A e \in End :
          /\ pc[e] \in {"packets", "ack"} =>
                stage[e] = IF Writing(e) THEN StageDataStart ELSE StageCommandDone
          /\ pc[e] = "datastart" => stage[e] = StageCommandDone

\* When Dial returns a connection, the server has answered this very request,
\* both ends agree who publishes and on which message stream.
PreparedAgree ==
    stage["cli"] >= StageCommandDone =>
        /\ stage["srv"] >= StageCommandDone
        /\ \A e \in End : publishing[e] = (flags = "publish")
        /\ avmsgsid["cli"] = avmsgsid["srv"] /\ avmsgsid["srv"] # 0

\* The loop that reads on behalf of a writer throws away acknowledgements and
\* nothing else: no answer, no packet.
DropsOnlyAcks == \A e \in End : dropped[e] \subseteq {"Ack"}

\* Packets arrive in order and without a gap, from the very first one.
InOrder == [][got' # got => got' = got + 1]_vars

Over == pc["cli"] = "closed" \/ pc["srv"] \in {"returned", "closed"}

\* The request of a client reaches the server's handler: nobody waits for bytes
\* that lie unflushed on the other side.
RequestArrives == <>(stage["srv"] >= StageGotPublishOrPlayCommand \/ Over)

\* So does the answer reach the client.
AnswerArrives ==
    stage["srv"] >= StageCommandDone ~> (stage["cli"] >= StageCommandDone \/ Over)

\* The deadline of the setup can pass after startPeekReadLoop and before it is
\* lifted: the loop ends, with a token that says the peer has left, and it has not.
CutShort == \E e \in End : peek[e] = "ended" /\ deadline[e] = "none" /\ open["cli"] /\ open["srv"]

\* A packet is received once as many more have been written as the writer's
\* buffer holds: acknowledgements and packets never block each other for good,
\* as long as the writer's peek-read loop was not cut short.
Delivers ==
    \A n \in 1..MaxPkts : wrote >= n + BufCap ~> (got >= n \/ Over \/ CutShort)

\* The handler that serves a player is told when the player hangs up.
HangUpNoticed ==
    (pc["cli"] = "closed" /\ pc["srv"] \in {"result", "packets"} /\ ~publishing["srv"])
      ~> (closeNotify["srv"] \/ pc["srv"] = "returned")

\* A client whose request the server refused (the code it sends is
\* NetStream.Publish.Failed or NetStream.Play.Failed) gets an error from Dial.
RefusedFails == refuse => stage["cli"] < StageCommandDone
=============================================================================
