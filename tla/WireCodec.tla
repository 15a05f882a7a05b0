------------------------------ MODULE WireCodec ------------------------------
(***************************************************************************)
(* protow: the protobuf messages of the gRPC services, which the server    *)
(* encodes and decodes by hand and a client with the code generated from   *)
(* the repository's protos.  The wire is a sequence of numbers, one for    *)
(* each varint (a tag is number * 8 + type, as on the wire), each          *)
(* fixed-width value and each string, which is a number too and, when it   *)
(* is not empty, one long.                                                 *)
(***************************************************************************)
EXTENDS Naturals, Sequences, SequencesExt

CONSTANTS
  Message,   \* the Pub/Sub messages
  Traffic    \* pairs of a message type and a message

VARIABLES
  sent,        \* the type and the message a peer sends, or nothing
  wire,        \* its encoding
  understood   \* what the other peer decodes, or nothing

codecVars == <<sent, wire, understood>>

VarintType  == 0
Fixed64Type == 1
BytesType   == 2
Fixed32Type == 5

----------------------------------------------------------------------------
(* Encoder. *)

Tag(num, typ) == num * 8 + typ

\* Mutant: the value without its tag, as before the fix wire.go:51-63 tells of.
VarintUntagged(num, v) == <<v>>

Varint(num, v)       == <<Tag(num, VarintType), v>>
BytesField(num, raw) == <<Tag(num, BytesType), Len(raw)>> \o raw
Content(s)           == IF s = 0 THEN <<>> ELSE <<s>>
String(num, s)       == BytesField(num, Content(s))

\* AppendMessage, for each of a sequence of encodings.
Messages(num, encoded)  == FlattenSeq([i \in DOMAIN encoded |-> BytesField(num, encoded[i])])
RepeatedString(num, ss) == FlattenSeq([i \in DOMAIN ss |-> String(num, ss[i])])

\* A Go map is encoded in any order.
MapEntries(num, m) ==
  LET keys == SetToSeq(DOMAIN m)
  IN  Messages(num, [i \in DOMAIN keys |-> String(1, keys[i]) \o String(2, m[keys[i]])])

----------------------------------------------------------------------------
(* Decoder.Next: the next field of a buffer and what follows it; a buffer   *)
(* that is used up, cut in a field or has a group in it is at its end.      *)

Field(num, typ, val) == [num |-> num, typ |-> typ, val |-> val]

AtEnd == [ok |-> FALSE, field |-> Field(0, 0, <<>>), rest |-> <<>>]

NextField(buf) ==
  IF Len(buf) < 2 THEN AtEnd
  ELSE LET num == buf[1] \div 8
           typ == buf[1] % 8
           len == IF typ = BytesType THEN buf[2] ELSE 0
       IN  IF num = 0 \/ typ \notin {VarintType, Fixed64Type, BytesType, Fixed32Type}
                \/ Len(buf) < 2 + len
             THEN AtEnd
             ELSE [ok    |-> TRUE,
                   field |-> Field(num, typ, IF typ = BytesType THEN SubSeq(buf, 3, 2 + len)
                                             ELSE <<buf[2]>>),
                   rest  |-> SubSeq(buf, 3 + len, Len(buf))]

\* What is left when Next has no more.  The server's decoders pass over it; it is kept as a
\* field of number 0, which no field has, for a generated decoder refuses such a message.
Leftover(buf) == IF buf = <<>> THEN <<>> ELSE <<Field(0, VarintType, <<>>)>>

\* Next again and again, until it has no more.
Fields(buf) ==
  LET fields[b \in Seq(Nat)] ==
        LET f == NextField(b) IN IF f.ok THEN <<f.field>> \o fields[f.rest] ELSE Leftover(b)
  IN  fields[buf]

\* The values of the fields with a number and a type, in their order.
Picked(fields, num, typ) ==
  LET picked[i \in 0 .. Len(fields)] ==
        IF i = 0 THEN <<>>
        ELSE IF fields[i].num = num /\ fields[i].typ = typ
               THEN Append(picked[i - 1], fields[i].val)
               ELSE picked[i - 1]
  IN  picked[Len(fields)]

Values(raw, num, typ) == Picked(Fields(raw), num, typ)

\* The loops assign, so that the last occurrence stands.
Latest(raw, num, typ) ==
  LET vs == Values(raw, num, typ) IN IF vs = <<>> \/ Last(vs) = <<>> THEN 0 ELSE Last(vs)[1]

ToStrings(vals) == [i \in DOMAIN vals |-> IF vals[i] = <<>> THEN 0 ELSE vals[i][1]]

ScanString(raw, num) ==
  LET vs == ToStrings(Values(raw, num, BytesType)) IN IF vs = <<>> THEN 0 ELSE vs[1]

ToMap(vals) ==
  LET key(i) == Latest(vals[i], 1, BytesType)
  IN  [k \in {key(i) : i \in DOMAIN vals} |->
        LET i == CHOOSE i \in DOMAIN vals :
                   key(i) = k /\ \A j \in DOMAIN vals : key(j) = k => j <= i
        IN  Latest(vals[i], 2, BytesType)]

----------------------------------------------------------------------------
(* The messages the server decodes. *)

PubsubMessage(m) ==
  (IF m.data = 0 THEN <<>> ELSE String(1, m.data)) \o MapEntries(2, m.attributes)
    \o (IF m.messageId = 0 THEN <<>> ELSE String(3, m.messageId))
DecodePubsubMessage(raw) ==
  [data |-> Latest(raw, 1, BytesType), attributes |-> ToMap(Values(raw, 2, BytesType)),
   messageId |-> Latest(raw, 3, BytesType)]

DecodePublishRequest(raw) ==
  LET ms == Values(raw, 2, BytesType)
  IN  [topic |-> Latest(raw, 1, BytesType),
       messages |-> [i \in DOMAIN ms |-> DecodePubsubMessage(ms[i])]]

DecodePullRequest(raw) ==
  [subscription |-> Latest(raw, 1, BytesType), maxMessages |-> Latest(raw, 2, VarintType),
   returnImmediately |-> IF Latest(raw, 3, VarintType) = 0 THEN 0 ELSE 1]

DecodeAcknowledgeRequest(raw) ==
  [subscription |-> Latest(raw, 1, BytesType), ackIds |-> ToStrings(Values(raw, 2, BytesType))]
DecodeStreamingPullRequest(raw) ==
  [subscription |-> Latest(raw, 1, BytesType), ackIds |-> ToStrings(Values(raw, 2, BytesType))]

DecodeGetDocumentRequest(raw) == [name |-> ScanString(raw, 1)]
DecodeListDocumentsRequest(raw) ==
  [parent |-> Latest(raw, 1, BytesType), collectionId |-> Latest(raw, 2, BytesType)]
DecodeCreateDocumentRequest(raw) ==
  [parent |-> Latest(raw, 1, BytesType), collectionId |-> Latest(raw, 2, BytesType),
   documentId |-> Latest(raw, 3, BytesType)]

----------------------------------------------------------------------------
(* The messages the server sends. *)

ReceivedMessage(m) ==
  String(1, m.ackId) \o BytesField(2, PubsubMessage(m.message)) \o Varint(3, m.delivery)
PullResponse(m) == Messages(1, [i \in DOMAIN m.messages |-> ReceivedMessage(m.messages[i])])
PublishResponse(m) == RepeatedString(1, m.messageIds)
TopicMsg(m) == String(1, m.name)
SubscriptionMsg(m) == String(1, m.name) \o String(2, m.topic)
ListTopicsResponse(m) == Messages(1, [i \in DOMAIN m.topics |-> TopicMsg(m.topics[i])])
ListSubscriptionsResponse(m) ==
  Messages(1, [i \in DOMAIN m.subscriptions |-> SubscriptionMsg(m.subscriptions[i])])
DocumentMsg(m) == String(1, m.name) \o String(3, m.createTime) \o String(4, m.updateTime)
ListDocumentsResponse(m) ==
  Messages(1, [i \in DOMAIN m.documents |-> DocumentMsg(m.documents[i])])

----------------------------------------------------------------------------
(* A client: the code generated from the protos.  It leaves a field with    *)
(* its zero value out; the fields that the server's types do not have       *)
(* (ordering keys, labels, page sizes, a document's fields) are not set.    *)

Optional(num, s)       == IF s = 0 THEN <<>> ELSE String(num, s)
OptionalVarint(num, v) == IF v = 0 THEN <<>> ELSE Varint(num, v)

PublishRequest(m) ==
  Optional(1, m.topic) \o Messages(2, [i \in DOMAIN m.messages |-> PubsubMessage(m.messages[i])])
PullRequest(m) ==
  Optional(1, m.subscription) \o OptionalVarint(2, m.maxMessages)
    \o OptionalVarint(3, m.returnImmediately)
AcknowledgeRequest(m) == Optional(1, m.subscription) \o RepeatedString(2, m.ackIds)
GetDocumentRequest(m) == Optional(1, m.name)
ListDocumentsRequest(m) == Optional(1, m.parent) \o Optional(2, m.collectionId)
CreateDocumentRequest(m) ==
  Optional(1, m.parent) \o Optional(2, m.collectionId) \o Optional(3, m.documentId)

\* A buffer that is a message to its end.  The code refuses any other, and one in which a
\* field the proto declares a message is not one.
Whole(raw)        == Values(raw, 0, VarintType) = <<>>
AllWhole(vals)    == \A i \in DOMAIN vals : Whole(vals[i])
WholePubsub(raw)  == Whole(raw) /\ AllWhole(Values(raw, 2, BytesType))
WholeReceived(raw) ==
  LET ms == Values(raw, 2, BytesType)
  IN  Whole(raw) /\ \A i \in DOMAIN ms : WholePubsub(ms[i])
WholeDocument(raw) ==
  Whole(raw) /\ AllWhole(Values(raw, 3, BytesType)) /\ AllWhole(Values(raw, 4, BytesType))

WholeAnswer(type, raw) ==
  LET vs == Values(raw, 1, BytesType)
  IN  /\ Whole(raw)
      /\ type = "DocumentMsg" => WholeDocument(raw)
      /\ type \in {"ListTopicsResponse", "ListSubscriptionsResponse"} => AllWhole(vs)
      /\ type = "PullResponse" => \A i \in DOMAIN vs : WholeReceived(vs[i])
      /\ type = "ListDocumentsResponse" => \A i \in DOMAIN vs : WholeDocument(vs[i])

\* The fields as the protos declare them; a time is read as its seconds.
ReadTopic(raw)        == [name |-> Latest(raw, 1, BytesType)]
ReadSubscription(raw) ==
  [name |-> Latest(raw, 1, BytesType), topic |-> Latest(raw, 2, BytesType)]
ReadTimestamp(vals)   == IF vals = <<>> THEN 0 ELSE Latest(Last(vals), 1, VarintType)
ReadDocument(raw)     ==
  [name |-> Latest(raw, 1, BytesType), createTime |-> ReadTimestamp(Values(raw, 3, BytesType)),
   updateTime |-> ReadTimestamp(Values(raw, 4, BytesType))]
ReadPubsubMessage(raw) ==
  [data |-> Latest(raw, 1, BytesType), attributes |-> ToMap(Values(raw, 2, BytesType)),
   messageId |-> Latest(raw, 3, BytesType)]
ReadReceivedMessage(raw) ==
  [ackId |-> Latest(raw, 1, BytesType),
   message |-> ReadPubsubMessage(Values(raw, 2, BytesType)[1]),
   delivery |-> Latest(raw, 3, VarintType)]

ReadAnswer(type, raw) ==
  LET vs == Values(raw, 1, BytesType)
  IN  CASE type = "TopicMsg"         -> ReadTopic(raw)
        [] type = "SubscriptionMsg"  -> ReadSubscription(raw)
        [] type = "DocumentMsg"      -> ReadDocument(raw)
        [] type = "PublishResponse"  -> [messageIds |-> ToStrings(vs)]
        [] type = "PullResponse"     ->
             [messages |-> [i \in DOMAIN vs |-> ReadReceivedMessage(vs[i])]]
        [] type = "ListTopicsResponse" ->
             [topics |-> [i \in DOMAIN vs |-> ReadTopic(vs[i])]]
        [] type = "ListSubscriptionsResponse" ->
             [subscriptions |-> [i \in DOMAIN vs |-> ReadSubscription(vs[i])]]
        [] type = "ListDocumentsResponse" ->
             [documents |-> [i \in DOMAIN vs |-> ReadDocument(vs[i])]]
        [] type = "Empty"            -> <<>>

Refused == [refused |-> TRUE]

ClientReads(type, raw) == IF WholeAnswer(type, raw) THEN ReadAnswer(type, raw) ELSE Refused

----------------------------------------------------------------------------
(* What the types hold.  A string is a number, 0 the empty one; an int32   *)
(* and a bool are numbers that a varint holds.  A document has its times.  *)

IsPubsubMessage(m) ==
  /\ m \in [data : Nat, attributes : {m.attributes}, messageId : Nat]
  /\ IsFiniteSet(DOMAIN m.attributes) /\ DOMAIN m.attributes \subseteq Nat
  /\ m.attributes \in [DOMAIN m.attributes -> Nat]

ReceivedMessages == [ackId : Nat, message : Message, delivery : Nat]
TopicMsgs        == [name : Nat]
SubscriptionMsgs == [name : Nat, topic : Nat]
DocumentMsgs     == [name : Nat, createTime : Nat \ {0}, updateTime : Nat \ {0}]

Holds(type, m) ==
  CASE type = "PublishRequest"        -> m \in [topic : Nat, messages : Seq(Message)]
    [] type = "PullRequest"           ->
         m \in [subscription : Nat, maxMessages : Nat, returnImmediately : {0, 1}]
    [] type \in {"AcknowledgeRequest", "StreamingPullRequest"} ->
         m \in [subscription : Nat, ackIds : Seq(Nat)]
    [] type = "GetDocumentRequest"    -> m \in [name : Nat]
    [] type = "ListDocumentsRequest"  -> m \in [parent : Nat, collectionId : Nat]
    [] type = "CreateDocumentRequest" ->
         m \in [parent : Nat, collectionId : Nat, documentId : Nat]
    [] type = "PublishResponse"       -> m \in [messageIds : Seq(Nat)]
    [] type = "PullResponse"          -> m \in [messages : Seq(ReceivedMessages)]
    [] type = "ListTopicsResponse"    -> m \in [topics : Seq(TopicMsgs)]
    [] type = "ListSubscriptionsResponse" -> m \in [subscriptions : Seq(SubscriptionMsgs)]
    [] type = "ListDocumentsResponse" -> m \in [documents : Seq(DocumentMsgs)]
    [] type = "TopicMsg"              -> m \in TopicMsgs
    [] type = "SubscriptionMsg"       -> m \in SubscriptionMsgs
    [] type = "DocumentMsg"           -> m \in DocumentMsgs
    [] type = "Empty"                 -> m = <<>>
    [] OTHER                          -> FALSE

ASSUME CodecAssumption ==
  /\ \A m \in Message : IsPubsubMessage(m)
  /\ \A t \in Traffic : t = <<t[1], t[2]>> /\ Holds(t[1], t[2])

----------------------------------------------------------------------------
(* grpcutil.rawCodec between the two: Marshal calls the message's Encode,   *)
(* Unmarshal hands the bytes to the handler, which calls the decoder.       *)

Encoded(type, m) ==
  CASE type = "PublishRequest"        -> PublishRequest(m)
    [] type = "PullRequest"           -> PullRequest(m)
    [] type \in {"AcknowledgeRequest", "StreamingPullRequest"} -> AcknowledgeRequest(m)
    [] type = "GetDocumentRequest"    -> GetDocumentRequest(m)
    [] type = "ListDocumentsRequest"  -> ListDocumentsRequest(m)
    [] type = "CreateDocumentRequest" -> CreateDocumentRequest(m)
    [] type = "PublishResponse"       -> PublishResponse(m)
    [] type = "PullResponse"          -> PullResponse(m)
    [] type = "ListTopicsResponse"    -> ListTopicsResponse(m)
    [] type = "ListSubscriptionsResponse" -> ListSubscriptionsResponse(m)
    [] type = "ListDocumentsResponse" -> ListDocumentsResponse(m)
    [] type = "TopicMsg"              -> TopicMsg(m)
    [] type = "SubscriptionMsg"       -> SubscriptionMsg(m)
    [] type = "DocumentMsg"           -> DocumentMsg(m)
    [] type = "Empty"                 -> <<>>

Decoded(type, raw) ==
  CASE type = "PublishRequest"        -> DecodePublishRequest(raw)
    [] type = "PullRequest"           -> DecodePullRequest(raw)
    [] type = "AcknowledgeRequest"    -> DecodeAcknowledgeRequest(raw)
    [] type = "StreamingPullRequest"  -> DecodeStreamingPullRequest(raw)
    [] type = "GetDocumentRequest"    -> DecodeGetDocumentRequest(raw)
    [] type = "ListDocumentsRequest"  -> DecodeListDocumentsRequest(raw)
    [] type = "CreateDocumentRequest" -> DecodeCreateDocumentRequest(raw)
    [] OTHER                          -> ClientReads(type, raw)

\* Fields the peer does not know, one of each wire type: real clients send some.
Unknown == {<<>>, Varint(15, 1), BytesField(15, <<1>>), <<Tag(15, Fixed64Type), 1>>,
            <<Tag(15, Fixed32Type), 1>>}

Nothing == <<>>

CodecInit == sent = Nothing /\ wire = <<>> /\ understood = Nothing

Marshal ==
  /\ sent = Nothing
  /\ \E t \in Traffic, before \in Unknown, after \in Unknown :
       /\ sent' = t
       /\ wire' = before \o Encoded(t[1], t[2]) \o after
  /\ UNCHANGED understood

Unmarshal ==
  /\ sent # Nothing /\ understood = Nothing
  /\ understood' = <<sent[1], Decoded(sent[1], wire)>>
  /\ UNCHANGED <<sent, wire>>

Delivered == understood # Nothing /\ sent' = Nothing /\ wire' = <<>> /\ understood' = Nothing

CodecNext == Marshal \/ Unmarshal \/ Delivered
CodecSpec == CodecInit /\ [][CodecNext]_codecVars

----------------------------------------------------------------------------
\* The messages in which a document, and so a time, is encoded.
WithDocuments(t) ==
  t[1] = "DocumentMsg" \/ (t[1] = "ListDocumentsResponse" /\ t[2].documents # <<>>)

(***************************************************************************)
(* What one peer encodes the other understands as it was meant, whatever   *)
(* fields of any wire type that it does not know stand before or after:    *)
(* every field is told apart by its number and its type, with messages     *)
(* inside messages inside messages (PullResponse), several values of one   *)
(* field, and zero and empty values among them.  Documents are not: what   *)
(* becomes of them is the next property's.                                 *)
(***************************************************************************)
UnderstoodAsMeant == understood # Nothing /\ ~WithDocuments(sent) => understood = sent

(***************************************************************************)
(* What wire.go:7-9 says: the types mirror the real messages "so that real *)
(* Google Cloud client libraries can marshal/unmarshal against them", here *)
(* the answers with documents.  firestore.proto:14-15 declares the times   *)
(* messages; DocumentMsg.Encode (messages.go:311-317) sends strings.       *)
(***************************************************************************)
DocumentsUnderstood == understood # Nothing /\ WithDocuments(sent) => understood = sent
=============================================================================
