---------------------------- MODULE FuzzerTarget ----------------------------
(***************************************************************************)
(* One session of the fuzzer target (jam-fuzzer-target/src/cli.ts) with a  *)
(* client that waits for every answer (jam-fuzzer/src/index.ts), over a    *)
(* stream socket that cuts messages anywhere; the target's handlers drive  *)
(* the chain manager of module ChainManager.                               *)
(*                                                                         *)
(* A message is sent as its units: the first is the four bytes of its      *)
(* length, the others pieces of its payload.  That the length arrives in   *)
(* one piece is assumed, for the code assumes it.  Every await of the      *)
(* target is on a resolved promise, so the handling of a message ends      *)
(* before the socket's next data event; a job is what is left of it.       *)
(***************************************************************************)
EXTENDS Integers, Sequences

CONSTANTS
  Blocks, Genesis, NoBlock, Parent, Slot,   \* as in ChainManager
  Undecodable,     \* blocks that the codec refuses
  LengthEndsInOne, \* blocks whose message's length ends in a byte 1
  Size,            \* the units of a message, by its kind
  Nothing          \* no request, no message

ASSUME SessionAssumption ==
  /\ Genesis \in Blocks /\ NoBlock \notin Blocks
  /\ Undecodable \subseteq Blocks \ {Genesis}
  /\ LengthEndsInOne \subseteq Blocks
  /\ Size \in [{"peerInfo", "initialize", "importBlock", "getState",
                "stateRoot", "state", "error"} -> Nat \ {0}]

VARIABLES
  best, finalized, unfinalized, db, pending,   \* the chain manager
  toTarget, toClient,        \* units in transit
  buffer, toRead, job,       \* the target's read loop and onMessage
  alive,                     \* the target's process
  request, heard, expected,  \* sendStuff: awaited, its buffer and toRead
  lastBlock, started,        \* the block the client builds on, the handshake
  stopped                    \* the client found fault with an answer

chain == <<best, finalized, unfinalized, db, pending>>
reader == <<buffer, toRead>>
client == <<request, heard, expected, lastBlock, started, stopped>>
targetVars == <<chain, toTarget, toClient, reader, job, alive, client>>

CM == INSTANCE ChainManager WITH MaxInFlight <- 1

Message(kind, block) == [kind |-> kind, block |-> block]
Requests == [kind : {"peerInfo", "initialize"}, block : {Genesis}]
       \cup [kind : {"importBlock"}, block : CM!Incoming]
       \cup [kind : {"getState"}, block : Blocks]

\* What is left of onMessage, for a request.
Jobs == [at : {"start", "importing", "imported", "refused", "done"}, message : Requests]

ASSUME NothingAssumption == Nothing \notin Requests \cup Jobs

TargetInit ==
  /\ CM!Init
  /\ toTarget = <<>> /\ toClient = <<>>
  /\ buffer = <<>> /\ toRead = -1 /\ job = Nothing /\ alive = TRUE
  /\ request = Nothing /\ heard = <<>> /\ expected = 0
  /\ lastBlock = Genesis /\ started = FALSE /\ stopped = FALSE

-----------------------------------------------------------------------------
Encoded(message) ==
  [u \in 1 .. Size[message.kind] |-> [message |-> message, unit |-> u]]

(* The number of units that the length at the head of these announces.     *)
Announced(units) == Size[Head(units).message.kind]

(* The codec accepts exactly one whole message with a good block.          *)
Decodable(units) ==
  LET message == Head(units).message
  IN  /\ units = Encoded(message)
      /\ ~(message.kind = "importBlock" /\ message.block \in Undecodable)

Send(answer) == toClient' = toClient \o Encoded(answer)

(* A faulty variant: data events come in while a message is handled.       *)
DataWhileHandling(n) ==
  LET length == IF toRead = -1 THEN Announced(toTarget) ELSE toRead
      units == buffer \o SubSeq(toTarget, 1, n)
  IN  /\ alive
      /\ toTarget' = SubSeq(toTarget, n + 1, Len(toTarget))
      /\ buffer' = units
      /\ toRead' = length
      /\ job' = IF Len(units) = length
                THEN [at |-> "start", message |-> Head(units).message] ELSE job
      /\ UNCHANGED <<chain, toClient, alive, client>>

(* socket.on("data"): a message is handled when as many units as announced *)
(* are there, neither fewer nor more.                                      *)
Data(n) ==
  LET length == IF toRead = -1 THEN Announced(toTarget) ELSE toRead
      units == buffer \o SubSeq(toTarget, 1, n)
  IN  /\ alive /\ job = Nothing
      /\ toTarget' = SubSeq(toTarget, n + 1, Len(toTarget))
      /\ buffer' = units
      /\ toRead' = length
      /\ job' = IF Len(units) = length
                THEN [at |-> "start", message |-> Head(units).message] ELSE Nothing
      /\ UNCHANGED <<chain, toClient, alive, client>>

Doing(kind, at) ==
  alive /\ job # Nothing /\ job.message.kind = kind /\ job.at = at

Understood(kind) == Doing(kind, "start") /\ Decodable(buffer)

Now(at) == job' = [job EXCEPT !.at = at]

(* onMessage, decoding failed: the answer hangs on data[0], which is the   *)
(* lowest byte of the length.                                              *)
Undecoded ==
  /\ alive /\ job # Nothing /\ job.at = "start"
  /\ ~Decodable(buffer)
  /\ IF job.message.block \in LengthEndsInOne
     THEN Send(Message("stateRoot", NoBlock)) ELSE UNCHANGED toClient
  /\ Now("done")
  /\ UNCHANGED <<chain, toTarget, reader, alive, client>>

TellPeerInfo ==
  /\ Understood("peerInfo")
  /\ Send(Message("peerInfo", Genesis))
  /\ Now("done")
  /\ UNCHANGED <<chain, toTarget, reader, alive, client>>

(* A new chain manager, built on the state that came.                      *)
Initialize ==
  /\ Understood("initialize")
  /\ best' = Genesis /\ finalized' = Genesis
  /\ unfinalized' = {} /\ db' = {Genesis} /\ pending' = <<>>
  /\ Send(Message("stateRoot", Genesis))
  /\ Now("done")
  /\ UNCHANGED <<toTarget, reader, alive, client>>

(* IMPORT_BLOCK awaits handleIncomingBlock; append may refuse at once.     *)
Import ==
  /\ Understood("importBlock")
  /\ LET b == job.message.block
     IN  \/ (CM!CallOnUnfinalized(b) \/ CM!CallLookup(b)) /\ Now("importing")
         \/ Parent[b] \in unfinalized /\ UNCHANGED chain /\ Now("refused")
  /\ UNCHANGED <<toTarget, toClient, reader, alive, client>>

GoOnImporting ==
  /\ Doing("importBlock", "importing")
  /\ \/ CM!ResumeLookup /\ UNCHANGED job
     \/ CM!Reject /\ Now("refused")
     \/ CM!ResumeSave /\ Now("imported")
  /\ UNCHANGED <<toTarget, toClient, reader, alive, client>>

(* A faulty variant: the root of the block that has become final.          *)
AnswerFinalized ==
  IF job.at = "refused" THEN Message("error", NoBlock)
                        ELSE Message("stateRoot", finalized)

(* The best block is read after the await.                                 *)
ImportAnswer ==
  IF job.at = "refused" THEN Message("error", NoBlock)
                        ELSE Message("stateRoot", best)

AnswerImport ==
  /\ Doing("importBlock", "imported") \/ Doing("importBlock", "refused")
  /\ Send(ImportAnswer)
  /\ Now("done")
  /\ UNCHANGED <<chain, toTarget, reader, alive, client>>

(* The state of a stored block or of the best one.                         *)
StateKnown(b) == b \in db \/ b = best

(* Any other hash throws, and the rejection that nobody handles ends the   *)
(* process.                                                                *)
GiveState ==
  /\ Understood("getState")
  /\ alive' = StateKnown(job.message.block)
  /\ IF alive' THEN Send(Message("state", job.message.block)) ELSE UNCHANGED toClient
  /\ Now("done")
  /\ UNCHANGED <<chain, toTarget, reader, client>>

(* The continuation of onMessage.                                          *)
Reset ==
  /\ alive /\ job # Nothing /\ job.at = "done"
  /\ toRead' = -1 /\ buffer' = <<>>
  /\ job' = Nothing
  /\ UNCHANGED <<chain, toTarget, toClient, alive, client>>

-----------------------------------------------------------------------------
(* What the client may ask: peer info and to start, again if it likes;     *)
(* once started, any import and the state of the block imported last.      *)
Askable(message) ==
  \/ message.kind \in {"peerInfo", "initialize"}
  \/ started /\ message.kind = "importBlock"
  \/ started /\ message.kind = "getState" /\ message.block = lastBlock

(* sendStuff: one message, then its answer is awaited.                     *)
Ask(message) ==
  /\ request = Nothing /\ ~stopped
  /\ Askable(message)
  /\ request' = message
  /\ toTarget' = toTarget \o Encoded(message)
  /\ heard' = <<>> /\ expected' = 0
  /\ UNCHANGED <<chain, toClient, reader, job, alive, lastBlock, started, stopped>>

(* The response type that sendStuff was given, and the root or the state   *)
(* that the client knows.                                                  *)
Satisfies(answer) ==
  CASE request.kind = "peerInfo"    -> answer.kind = "peerInfo"
    [] request.kind = "initialize"  -> answer = Message("stateRoot", Genesis)
    [] request.kind = "importBlock" -> \/ answer.kind = "error"
                                       \/ answer = Message("stateRoot", request.block)
    [] request.kind = "getState"    -> answer = Message("state", request.block)

Conclude(answer) ==
  IF Satisfies(answer)
  THEN /\ request' = Nothing
       /\ lastBlock' = IF answer.kind = "stateRoot" THEN answer.block ELSE lastBlock
       /\ started' = (started \/ request.kind = "initialize")
       /\ UNCHANGED stopped
  ELSE stopped' = TRUE /\ UNCHANGED <<request, lastBlock, started>>

(* The listener of sendStuff, until a whole answer is there.               *)
Hear(n) ==
  LET length == IF expected = 0 THEN Announced(toClient) ELSE expected
      units == heard \o SubSeq(toClient, 1, n)
  IN  /\ request # Nothing /\ ~stopped
      /\ toClient' = SubSeq(toClient, n + 1, Len(toClient))
      /\ heard' = units
      /\ expected' = length
      /\ IF Len(units) = length THEN Conclude(Head(units).message)
         ELSE UNCHANGED <<request, lastBlock, started, stopped>>
      /\ UNCHANGED <<chain, toTarget, reader, job, alive>>

Handle ==
  \/ Undecoded \/ TellPeerInfo \/ Initialize
  \/ Import \/ GoOnImporting \/ AnswerImport
  \/ GiveState \/ Reset

Receive == \E n \in 1 .. Len(toTarget) : Data(n)
Listen == \E n \in 1 .. Len(toClient) : Hear(n)

TargetNext ==
  \/ Receive \/ Handle \/ Listen
  \/ \E message \in Requests : Ask(message)

(* The socket delivers what was written, and the event loop runs what can  *)
(* run; the client owes nothing.                                           *)
Target ==
  /\ TargetInit /\ [][TargetNext]_targetVars
  /\ WF_targetVars(Receive) /\ WF_targetVars(Handle) /\ WF_targetVars(Listen)

-----------------------------------------------------------------------------
Refused(message) ==
  message.kind = "importBlock" /\ message.block \in Undecodable

(* However the socket cuts the messages, every request is answered and     *)
(* heard, unless its block cannot be decoded: the read loop                *)
(* (cli.ts:50-67) never waits for units that do not come, nor joins two    *)
(* messages.                                                               *)
EveryRequestAnswered ==
  \A message \in Requests :
    ~Refused(message) => ((request = message) ~> (request = Nothing))

\* Between requests both sides agree on the best block.
SidesAgree == started /\ request = Nothing => best = lastBlock

(* The client finds fault only with the answer to an undecodable block: a  *)
(* root is that of the block just asked for (cli.ts:120 reads the best     *)
(* block after an await), no answer is taken for another's, and after each *)
(* both sides are at the same block, also when imports were refused, forks *)
(* were tried or the session was started again.                            *)
AnswersAreRight == (stopped => Refused(request)) /\ SidesAgree
=============================================================================
