---------------------------- MODULE MCTransport -----------------------------
(* Small instances for TLC of the sending side of a connection (a          *)
(* FrontEnd, and two RdmaSockets with their flow control) and of the       *)
(* encodings (texts, values in a stream, and JSON documents). One of them  *)
(* runs in a behaviour, the others rest in an initial state.               *)
EXTENDS FrontEnd, TLC

CONSTANTS p1, p2

Json == INSTANCE JsonText WITH IntWidth <- 6, LongBits <- 6, IntBits <- 4

Symmetry == Permutations(Producer)

\* Both ends send; at each one a message goes along with the next one's buffer,
\* and one has zero-copy blocks and takes two buffers.
Message(b, z) == [bufs |-> b, blocks |-> z]
Sent == (1 :> <<Message(1, 0), Message(0, 2), Message(2, 2)>>) @@ (2 :> <<Message(0, 0), Message(2, 1)>>)

\* Texts that are typed byte by byte, after a prefix: numbers, strings with
\* escapes, words, pointers, URIs and punctuation.
Typed(prefix, bytes, len) == [prefix |-> prefix, bytes |-> bytes, len |-> len]
Kinds ==
  {Typed(<<>>, {48, 55, 45, 43, 46, 101}, 5),
   Typed(<<34>>, {34, 92, 117, 110, 1, 200}, 4),
   Typed(<<34, 92, 117>>, {34, 48, 70, 97, 103}, 5),
   Typed(<<34, 92, 117, 68, 56, 48, 48, 92, 117>>, {34, 48, 68, 67}, 5),
   Typed(<<>>, {102, 97, 108, 115, 101}, 5),
   Typed(<<>>, {110, 117, 108, 114, 116, 101}, 4),
   Typed(<<>>, {47, 126, 48, 49}, 4),
   Typed(<<109, 101, 109, 58, 47, 47, 97, 63>>, {97, 61, 38, 37, 51, 68}, 5),
   Typed(<<>>, {32, 44, 58, 91, 93, 123, 125, 239, 187, 191, 0, 10}, 3)}

\* A value of every type that has an encoding of its own.
T(k) == [k |-> k]
Of(k, t) == [k |-> k, of |-> t]
Map(k) == Of(k, T("char")) @@ [key |-> T("string")]
Item(t, x) == [type |-> t, value |-> x]
Nine == <<1, 0, 1, 1, 0, 0, 0, 0, 1>>
Keyed == << <<<<48>>, 48>> >>
Samples ==
  {Item(T("int"), -3), Item(T("int8"), 12), Item(T("char"), 32), Item(T("char"), 55),
   Item(T("bool"), 1), Item(T("string"), <<>>), Item(T("string"), <<32, 49>>),
   Item(T("bits"), Nine), Item(Of("vector", T("char")), <<32, 50>>),
   Item(Of("vector", T("int")), <<5, -1>>), Item(Of("vector", T("string")), << <<>>, <<32>> >>),
   Item(Of("array", T("int")) @@ [n |-> 2], <<0, 7>>),
   Item(Of("carray", T("bool")) @@ [n |-> 1], <<0>>),
   Item(Of("deque", T("bits")), << <<>>, <<1>> >>), Item(Of("valarray", T("int")), <<9, 0>>),
   Item(Of("set", T("int")), <<4, 2>>), Item(Of("uset", T("char")), <<32>>),
   Item(Map("map"), Keyed), Item(Map("umap"), Keyed), Item(Map("hash"), Keyed),
   Item([k |-> "tuple", fields |-> <<T("int8"), T("char"), T("int")>>], <<1, 32, 1>>),
   Item(T("archive"), <<32, 32>>),
   Item(T("json"), Json!Arr(<<Json!Unsigned(3), Json!Str(<<34>>)>>))}

\* Patches that add, move, copy, remove and test; some must be refused.
Patches ==
  LET zero == <<48>>  one == <<49>>
      Moved(op, path, from) == [op |-> op, path |-> path, from |-> from, value |-> Json!Null]
  IN {<<Json!Op("add", <<zero, one>>, Json!Str(<<34>>))>>,
      <<Json!Op("remove", <<zero>>, Json!Null), Json!Op("test", <<zero>>, Json!Null)>>,
      <<Moved("move", << <<34, 47>> >>, <<zero>>)>>,
      <<Moved("copy", <<zero, Json!Dash>>, <<one>>), Json!Op("replace", <<one>>, Json!Float(2))>>}

VARIABLE unit    \* the component that runs

VARIABLES rdSender, rdBusy, rdCredit, rdEvent, rdAck, rdDone, rdAcksOut, rdReadsOut, rdPending,
          rdRecving, rdHeld, rdWire, rdRecvCq, rdSendCq, rdIo, rdGot
rdVars == <<rdSender, rdBusy, rdCredit, rdEvent, rdAck, rdDone, rdAcksOut, rdReadsOut, rdPending,
            rdRecving, rdHeld, rdWire, rdRecvCq, rdSendCq, rdIo, rdGot>>
Rdma == INSTANCE Rdma WITH
  BNum <- 1, Msgs <- Sent, sender <- rdSender, busy <- rdBusy, credit <- rdCredit,
  event <- rdEvent, ack <- rdAck, done <- rdDone, acksOut <- rdAcksOut, readsOut <- rdReadsOut,
  pending <- rdPending, recving <- rdRecving, held <- rdHeld, wire <- rdWire, recvCq <- rdRecvCq,
  sendCq <- rdSendCq, io <- rdIo, got <- rdGot

VARIABLES txText, txKind
txVars == <<txText, txKind>>
Text == INSTANCE Texts WITH
  Kinds <- Kinds, IntWidth <- 6, LongBits <- 8, IntBits <- 4, text <- txText, kind <- txKind

VARIABLES srKind, srBytes, srQueue, srCut, srGot
srVars == <<srKind, srBytes, srQueue, srCut, srGot>>
Stream == INSTANCE Serialization WITH
  Samples <- Samples, IntBytes <- 1, SizeBytes <- 1, WordBits <- 8, MaxQueue <- 2, IntWidth <- 6,
  LongBits <- 16, IntBits <- 8, kind <- srKind, bytes <- srBytes, queue <- srQueue, cut <- srCut,
  got <- srGot

VARIABLES jsDoc, jsOld, jsOut
jsVars == <<jsDoc, jsOld, jsOut>>
Doc == INSTANCE JsonDoc WITH
  Leaves <- {Json!Unsigned(1)}, Written <- {Json!Unsigned(1)}, KeySet <- {<<48>>, <<34, 47>>},
  Patches <- Patches, MaxSize <- 3, MaxOld <- 2, IntWidth <- 6, LongBits <- 6, IntBits <- 4,
  doc <- jsDoc, old <- jsOld, out <- jsOut

-----------------------------------------------------------------------------
SumInit ==
  /\ unit \in {"front end", "rdma", "texts", "stream", "json"}
  /\ Init /\ (unit # "front end" => isClient)
  /\ Rdma!Init
  /\ Text!Init /\ (unit # "texts" => txKind = Typed(<<>>, {47, 126, 48, 49}, 4))
  /\ Stream!Init /\ (unit # "stream" => srKind = "bin")
  /\ Doc!Init
SumNext ==
  \/ unit = "front end" /\ ExclusiveNext /\ UNCHANGED <<unit, rdVars, txVars, srVars, jsVars>>
  \/ unit = "rdma" /\ Rdma!Next /\ UNCHANGED <<unit, vars, txVars, srVars, jsVars>>
  \/ unit = "texts" /\ Text!Next /\ UNCHANGED <<unit, vars, rdVars, srVars, jsVars>>
  \/ unit = "stream" /\ Stream!Next /\ UNCHANGED <<unit, vars, rdVars, txVars, jsVars>>
  \/ unit = "json" /\ Doc!Next /\ UNCHANGED <<unit, vars, rdVars, txVars, srVars>>
all == <<unit, vars, rdVars, txVars, srVars, jsVars>>
SumSpec == SumInit /\ [][SumNext]_all
\* Two RdmaSockets alone, whose threads are scheduled and whose network delivers.
RdmaSpec ==
  /\ SumInit /\ unit = "rdma" /\ [][SumNext]_all
  /\ \A e \in Rdma!End : /\ WF_rdVars(Rdma!Sending(e)) /\ WF_rdVars(Rdma!Deliver(e))
                         /\ WF_rdVars(Rdma!Handling(e))

-----------------------------------------------------------------------------
\* Both ends of an RDMA connection keep their credits, receive buffers, queues
\* and zero-copy memory in step.
RdmaSound == unit = "rdma" => Rdma!RdmaSound

\* A call of RdmaSocket::send_msg returns.
SendReturns == Rdma!SendReturns

\* The lexer takes the longest token and what strings mean, the codecs invert,
\* splitting loses nothing, a cast gives the number or refuses, a URI keeps its
\* parts, and what is written into a stream of any kind is read back value by value,
\* or refused where the stream lost its end.
TextsExact ==
  /\ unit = "texts" => /\ Text!LongestToken /\ Text!StringsExact /\ Text!CodecsInvert
                       /\ Text!SplitsExactly /\ Text!CastExact /\ Text!UriKeeps
  /\ unit = "stream" => Stream!ReadsBack

\* A document and an earlier version are turned into each other by their diffs;
\* text, flattening, iteration, order and lookups agree with the document; and
\* an operation that is refused changes nothing.  Every document is reached
\* while no earlier version is kept, so what is about one document is asked then.
JsonExact ==
  /\ [](unit = "json" =>
          /\ Doc!DiffPatch /\ Doc!OrderTotal
          /\ jsOld = Json!Null => /\ Doc!TextRoundTrip /\ Doc!CallbackFilters /\ Doc!FlattenRestores
                                  /\ Doc!IterationExact /\ Doc!HasExactly)
  /\ Doc!RefusedChangesNothing
=============================================================================
