---------------------------- MODULE ServiceTypes ----------------------------
(***************************************************************************)
(* The generated service types of src/types/src/generated: records whose   *)
(* byte_len, encode and decode go through their fields one after the       *)
(* other.  The encoding has no tags: what tells one field from the next is *)
(* only that decode reads them in the order encode wrote them, and what    *)
(* tells one message from the next is that byte_len, which sizes buffers   *)
(* and message headers, is the number of bytes encode writes.              *)
(*                                                                         *)
(* Each type is four tables taken from its file: the fields of the struct  *)
(* with their types, and the fields in the order in which byte_len, encode *)
(* and decode name them.  The functions themselves are the three operators *)
(* ByteLen, Encode and Decode over such tables; the built-in types are     *)
(* those of module BinaryEncoding.                                         *)
(*                                                                         *)
(* The specification is a writer that encodes a value of some type in      *)
(* front of whatever follows it in the stream, a stream that may end       *)
(* early, and a reader that decodes it.                                    *)
(***************************************************************************)
EXTENDS BinaryEncoding, FiniteSets, TLC

CONSTANTS
    Numbers,        \* the numbers a numeric field may hold
    Texts,          \* the byte sequences a string or byte string may hold
    Structures,     \* the encodings a structure from outside src/ may have
    MaxArrayLen,    \* bound: elements of an array
    Followers       \* what may follow a value in the stream

VARIABLES
    pc,         \* "idle", "written", "read"
    type,       \* the type of the value under way
    value,      \* the value the writer was given
    size,       \* what byte_len said of it
    stream,     \* the bytes in front of the reader
    cut,        \* the stream has ended early
    result      \* what decode returned

vars == <<pc, type, value, size, stream, cut, result>>

\* a field of a struct: a value of its type, or an optional array of them
One(name, t)  == [name |-> name, type |-> t, array |-> FALSE]
Many(name, t) == [name |-> name, type |-> t, array |-> TRUE]

----------------------------------------------------------------------------
(* The types *)

\* browse_next_request.rs
BrowseNextRequest ==
    <<One("request_header", "RequestHeader"),
      One("release_continuation_points", "Boolean"),
      Many("continuation_points", "ByteString")>>
BrowseNextRequest_byte_len ==
    <<"request_header", "release_continuation_points", "continuation_points">>
BrowseNextRequest_encode ==
    <<"request_header", "release_continuation_points", "continuation_points">>
BrowseNextRequest_decode ==
    <<"request_header", "release_continuation_points", "continuation_points">>

\* cancel_response.rs
CancelResponse ==
    <<One("response_header", "ResponseHeader"),
      One("cancel_count", "UInt32")>>
CancelResponse_byte_len == <<"response_header", "cancel_count">>
CancelResponse_encode == <<"response_header", "cancel_count">>
CancelResponse_decode == <<"response_header", "cancel_count">>

\* channel_security_token.rs
ChannelSecurityToken ==
    <<One("channel_id", "UInt32"), One("token_id", "UInt32"),
      One("created_at", "DateTime"), One("revised_lifetime", "UInt32")>>
ChannelSecurityToken_byte_len ==
    <<"channel_id", "token_id", "created_at", "revised_lifetime">>
ChannelSecurityToken_encode ==
    <<"channel_id", "token_id", "created_at", "revised_lifetime">>
ChannelSecurityToken_decode_swapped ==
    <<"token_id", "channel_id", "created_at", "revised_lifetime">>
ChannelSecurityToken_decode ==
    <<"channel_id", "token_id", "created_at", "revised_lifetime">>

\* event_filter_result.rs
EventFilterResult ==
    <<Many("select_clause_results", "StatusCode"),
      Many("select_clause_diagnostic_infos", "DiagnosticInfo"),
      One("where_clause_result", "ContentFilterResult")>>
EventFilterResult_byte_len ==
    <<"select_clause_results", "select_clause_diagnostic_infos",
      "where_clause_result">>
EventFilterResult_encode ==
    <<"select_clause_results", "select_clause_diagnostic_infos",
      "where_clause_result">>
EventFilterResult_decode ==
    <<"select_clause_results", "select_clause_diagnostic_infos",
      "where_clause_result">>

\* history_update_result.rs
HistoryUpdateResult ==
    <<One("status_code", "StatusCode"),
      Many("operation_results", "StatusCode"),
      Many("diagnostic_infos", "DiagnosticInfo")>>
HistoryUpdateResult_byte_len ==
    <<"status_code", "operation_results", "diagnostic_infos">>
HistoryUpdateResult_encode ==
    <<"status_code", "operation_results", "diagnostic_infos">>
HistoryUpdateResult_decode ==
    <<"status_code", "operation_results", "diagnostic_infos">>

\* modify_monitored_items_request.rs
ModifyMonitoredItemsRequest ==
    <<One("request_header", "RequestHeader"),
      One("subscription_id", "UInt32"),
      One("timestamps_to_return", "TimestampsToReturn"),
      Many("items_to_modify", "MonitoredItemModifyRequest")>>
ModifyMonitoredItemsRequest_byte_len ==
    <<"request_header", "subscription_id", "timestamps_to_return",
      "items_to_modify">>
ModifyMonitoredItemsRequest_encode ==
    <<"request_header", "subscription_id", "timestamps_to_return",
      "items_to_modify">>
ModifyMonitoredItemsRequest_decode ==
    <<"request_header", "subscription_id", "timestamps_to_return",
      "items_to_modify">>

\* monitored_item_create_request.rs
MonitoredItemCreateRequest ==
    <<One("item_to_monitor", "ReadValueId"),
      One("monitoring_mode", "MonitoringMode"),
      One("requested_parameters", "MonitoringParameters")>>
MonitoredItemCreateRequest_byte_len ==
    <<"item_to_monitor", "monitoring_mode", "requested_parameters">>
MonitoredItemCreateRequest_encode ==
    <<"item_to_monitor", "monitoring_mode", "requested_parameters">>
MonitoredItemCreateRequest_decode ==
    <<"item_to_monitor", "monitoring_mode", "requested_parameters">>

\* query_data_description.rs
QueryDataDescription ==
    <<One("relative_path", "RelativePath"), One("attribute_id", "UInt32"),
      One("index_range", "UAString")>>
QueryDataDescription_byte_len ==
    <<"relative_path", "attribute_id", "index_range">>
QueryDataDescription_encode ==
    <<"relative_path", "attribute_id", "index_range">>
QueryDataDescription_decode_swapped ==
    <<"relative_path", "index_range", "attribute_id">>
QueryDataDescription_decode ==
    <<"relative_path", "attribute_id", "index_range">>

\* register_nodes_response.rs
RegisterNodesResponse ==
    <<One("response_header", "ResponseHeader"),
      Many("registered_node_ids", "NodeId")>>
RegisterNodesResponse_byte_len == <<"response_header", "registered_node_ids">>
RegisterNodesResponse_encode == <<"response_header", "registered_node_ids">>
RegisterNodesResponse_decode == <<"response_header", "registered_node_ids">>

\* server_on_network.rs
ServerOnNetwork ==
    <<One("record_id", "UInt32"), One("server_name", "UAString"),
      One("discovery_url", "UAString"),
      Many("server_capabilities", "UAString")>>
ServerOnNetwork_byte_len_short == <<"record_id", "server_name", "discovery_url">>
ServerOnNetwork_byte_len ==
    <<"record_id", "server_name", "discovery_url", "server_capabilities">>
ServerOnNetwork_encode ==
    <<"record_id", "server_name", "discovery_url", "server_capabilities">>
ServerOnNetwork_decode ==
    <<"record_id", "server_name", "discovery_url", "server_capabilities">>

\* set_publishing_mode_request.rs
SetPublishingModeRequest ==
    <<One("request_header", "RequestHeader"),
      One("publishing_enabled", "Boolean"),
      Many("subscription_ids", "UInt32")>>
SetPublishingModeRequest_byte_len ==
    <<"request_header", "publishing_enabled", "subscription_ids">>
SetPublishingModeRequest_encode ==
    <<"request_header", "publishing_enabled", "subscription_ids">>
SetPublishingModeRequest_decode ==
    <<"request_header", "publishing_enabled", "subscription_ids">>

\* signature_data.rs
SignatureData ==
    <<One("algorithm", "UAString"), One("signature", "ByteString")>>
SignatureData_byte_len == <<"algorithm", "signature">>
SignatureData_encode == <<"algorithm", "signature">>
SignatureData_decode_short == <<"algorithm">>
SignatureData_decode == <<"algorithm", "signature">>

\* status_result.rs
StatusResult ==
    <<One("status_code", "StatusCode"),
      One("diagnostic_info", "DiagnosticInfo")>>
StatusResult_byte_len == <<"status_code", "diagnostic_info">>
StatusResult_encode == <<"status_code", "diagnostic_info">>
StatusResult_decode == <<"status_code", "diagnostic_info">>

\* subscription_acknowledgement.rs
SubscriptionAcknowledgement ==
    <<One("subscription_id", "UInt32"), One("sequence_number", "UInt32")>>
SubscriptionAcknowledgement_byte_len == <<"subscription_id", "sequence_number">>
SubscriptionAcknowledgement_encode == <<"subscription_id", "sequence_number">>
SubscriptionAcknowledgement_decode == <<"subscription_id", "sequence_number">>

\* view_description.rs
ViewDescription ==
    <<One("view_id", "NodeId"), One("timestamp", "DateTime"),
      One("view_version", "UInt32")>>
ViewDescription_byte_len == <<"view_id", "timestamp", "view_version">>
ViewDescription_encode == <<"view_id", "timestamp", "view_version">>
ViewDescription_decode == <<"view_id", "timestamp", "view_version">>

\* x_509_identity_token.rs
X509IdentityToken ==
    <<One("policy_id", "UAString"), One("certificate_data", "ByteString")>>
X509IdentityToken_byte_len == <<"policy_id", "certificate_data">>
X509IdentityToken_encode == <<"policy_id", "certificate_data">>
X509IdentityToken_decode == <<"policy_id", "certificate_data">>

\* impl MessageInfo for T: the node id that names the encoding of T where a
\* value travels with its type, in a message or an extension object
BrowseNextRequest_object_id == "BrowseNextRequest_Encoding_DefaultBinary"
\* (mutant) the id of the type generated before it, as a copied block would have
CancelResponse_object_id_copied == BrowseNextRequest_object_id
CancelResponse_object_id == "CancelResponse_Encoding_DefaultBinary"
ChannelSecurityToken_object_id == "ChannelSecurityToken_Encoding_DefaultBinary"
HistoryUpdateResult_object_id == "HistoryUpdateResult_Encoding_DefaultBinary"
ModifyMonitoredItemsRequest_object_id == "ModifyMonitoredItemsRequest_Encoding_DefaultBinary"
MonitoredItemCreateRequest_object_id == "MonitoredItemCreateRequest_Encoding_DefaultBinary"
QueryDataDescription_object_id == "QueryDataDescription_Encoding_DefaultBinary"
RegisterNodesResponse_object_id == "RegisterNodesResponse_Encoding_DefaultBinary"
ServerOnNetwork_object_id == "ServerOnNetwork_Encoding_DefaultBinary"
SetPublishingModeRequest_object_id == "SetPublishingModeRequest_Encoding_DefaultBinary"
SignatureData_object_id == "SignatureData_Encoding_DefaultBinary"
StatusResult_object_id == "StatusResult_Encoding_DefaultBinary"
SubscriptionAcknowledgement_object_id == "SubscriptionAcknowledgement_Encoding_DefaultBinary"
ViewDescription_object_id == "ViewDescription_Encoding_DefaultBinary"
\* EventFilterResult and X509IdentityToken have none
NoObjectId == "none"

\* impl BinaryEncoder<T> for T and impl MessageInfo for T, for every T
Impl(fields, len, enc, dec, id) ==
    [fields |-> fields, byte_len |-> len, encode |-> enc, decode |-> dec,
     object_id |-> id]

Generated ==
    [BrowseNextRequest |-> Impl(BrowseNextRequest, BrowseNextRequest_byte_len,
        BrowseNextRequest_encode, BrowseNextRequest_decode, BrowseNextRequest_object_id),
     CancelResponse |-> Impl(CancelResponse, CancelResponse_byte_len,
        CancelResponse_encode, CancelResponse_decode, CancelResponse_object_id),
     ChannelSecurityToken |-> Impl(ChannelSecurityToken, ChannelSecurityToken_byte_len,
        ChannelSecurityToken_encode, ChannelSecurityToken_decode, ChannelSecurityToken_object_id),
     EventFilterResult |-> Impl(EventFilterResult, EventFilterResult_byte_len,
        EventFilterResult_encode, EventFilterResult_decode, NoObjectId),
     HistoryUpdateResult |-> Impl(HistoryUpdateResult, HistoryUpdateResult_byte_len,
        HistoryUpdateResult_encode, HistoryUpdateResult_decode, HistoryUpdateResult_object_id),
     ModifyMonitoredItemsRequest |-> Impl(ModifyMonitoredItemsRequest, ModifyMonitoredItemsRequest_byte_len,
        ModifyMonitoredItemsRequest_encode, ModifyMonitoredItemsRequest_decode, ModifyMonitoredItemsRequest_object_id),
     MonitoredItemCreateRequest |-> Impl(MonitoredItemCreateRequest, MonitoredItemCreateRequest_byte_len,
        MonitoredItemCreateRequest_encode, MonitoredItemCreateRequest_decode, MonitoredItemCreateRequest_object_id),
     QueryDataDescription |-> Impl(QueryDataDescription, QueryDataDescription_byte_len,
        QueryDataDescription_encode, QueryDataDescription_decode, QueryDataDescription_object_id),
     RegisterNodesResponse |-> Impl(RegisterNodesResponse, RegisterNodesResponse_byte_len,
        RegisterNodesResponse_encode, RegisterNodesResponse_decode, RegisterNodesResponse_object_id),
     ServerOnNetwork |-> Impl(ServerOnNetwork, ServerOnNetwork_byte_len,
        ServerOnNetwork_encode, ServerOnNetwork_decode, ServerOnNetwork_object_id),
     SetPublishingModeRequest |-> Impl(SetPublishingModeRequest, SetPublishingModeRequest_byte_len,
        SetPublishingModeRequest_encode, SetPublishingModeRequest_decode, SetPublishingModeRequest_object_id),
     SignatureData |-> Impl(SignatureData, SignatureData_byte_len,
        SignatureData_encode, SignatureData_decode, SignatureData_object_id),
     StatusResult |-> Impl(StatusResult, StatusResult_byte_len,
        StatusResult_encode, StatusResult_decode, StatusResult_object_id),
     SubscriptionAcknowledgement |-> Impl(SubscriptionAcknowledgement, SubscriptionAcknowledgement_byte_len,
        SubscriptionAcknowledgement_encode, SubscriptionAcknowledgement_decode, SubscriptionAcknowledgement_object_id),
     ViewDescription |-> Impl(ViewDescription, ViewDescription_byte_len,
        ViewDescription_encode, ViewDescription_decode, ViewDescription_object_id),
     X509IdentityToken |-> Impl(X509IdentityToken, X509IdentityToken_byte_len,
        X509IdentityToken_encode, X509IdentityToken_decode, NoObjectId)]

----------------------------------------------------------------------------
(* byte_len, encode and decode of a generated type *)

Field(T, name) == CHOOSE f \in Range(Generated[T].fields) : f.name = name

\* byte_len: the sum over the fields it names
ByteLen(T, v) ==
    LET len(f) == IF f.array THEN byte_len_array(f.type, v[f.name])
                             ELSE byte_len(f.type, v[f.name])
    IN  FoldLeft(LAMBDA sum, name : sum + len(Field(T, name)), 0, Generated[T].byte_len)

\* encode: the fields it names, in that order
Encode(T, v) ==
    LET enc(f) == IF f.array THEN write_array(f.type, v[f.name])
                             ELSE encode(f.type, v[f.name])
        order  == Generated[T].encode
    IN  FlattenSeq([i \in DOMAIN order |-> enc(Field(T, order[i]))])

\* decode: the fields it names, in that order, each from where the one
\* before it ended; the first error is the result
RECURSIVE DecodeFields(_, _, _, _)
DecodeFields(T, names, bytes, struct) ==
    IF names = <<>> THEN Ok(struct, bytes)
    ELSE LET f    == Field(T, Head(names))
             next == IF f.array THEN read_array(f.type, bytes) ELSE decode(f.type, bytes)
         IN  IF next.ok
             THEN DecodeFields(T, Tail(names), next.rest, struct @@ (f.name :> next.value))
             ELSE Failed

Decode(T, bytes) == DecodeFields(T, Generated[T].decode, bytes, <<>>)

\* The decoder a reader takes for a value of type T: the one of the type
\* that the object id in front of the value names, and T itself where the
\* place of the value says what it is.
Decoder(T) ==
    IF Generated[T].object_id = NoObjectId THEN T
    ELSE CHOOSE U \in DOMAIN Generated : Generated[U].object_id = Generated[T].object_id

----------------------------------------------------------------------------
(* The values of the model *)

Sample(t) ==
    CASE t = "Boolean"  -> {0, 1}
      [] t \in Numeric  -> Numbers
      [] t \in Strings  -> {Null} \cup {Some(s) : s \in Texts}
      [] OTHER          -> Structures

FieldValues(f) ==
    IF f.array THEN {Null} \cup {Some(s) : s \in BoundedSeq(Sample(f.type), MaxArrayLen)}
               ELSE Sample(f.type)

RECURSIVE Records(_)
Records(fields) ==
    IF fields = <<>> THEN {<<>>}
    ELSE {r @@ (Head(fields).name :> x) :
              r \in Records(Tail(fields)), x \in FieldValues(Head(fields))}

Values(T) == Records(Generated[T].fields)

ASSUME /\ Numbers \subseteq Nat /\ MaxArrayLen \in Nat
       /\ \A s \in Texts \cup Structures \cup Followers : s \in Seq(0..255)
       /\ \A s \in Structures : s # <<>> /\ Head(s) = Len(s) - 1

----------------------------------------------------------------------------
(* Writer, stream and reader *)

Init ==
    /\ pc = "idle" /\ type = "none" /\ value = <<>> /\ size = 0
    /\ stream = <<>> /\ cut = FALSE /\ result = Failed

\* The writer sizes the value with byte_len and encodes it into the stream,
\* in front of what follows.
Write(T, v) ==
    /\ pc = "idle"
    /\ pc' = "written" /\ type' = T /\ value' = v
    /\ size' = ByteLen(T, v)
    /\ \E follower \in Followers : stream' = Encode(T, v) \o follower
    /\ UNCHANGED <<cut, result>>

\* The stream ends somewhere inside the value.
Cut ==
    /\ pc = "written" /\ ~cut
    /\ \E n \in 0..(Len(Encode(type, value)) - 1) : stream' = SubSeq(stream, 1, n)
    /\ cut' = TRUE
    /\ UNCHANGED <<pc, type, value, size, result>>

\* The reader decodes what is in front of it.
Read ==
    /\ pc = "written"
    /\ pc' = "read"
    /\ result' = Decode(Decoder(type), stream)
    /\ UNCHANGED <<type, value, size, stream, cut>>

\* The next value.
Again ==
    /\ pc = "read"
    /\ pc' = "idle" /\ type' = "none" /\ value' = <<>> /\ size' = 0
    /\ stream' = <<>> /\ cut' = FALSE /\ result' = Failed

Next ==
    \/ \E T \in DOMAIN Generated : \E v \in Values(T) : Write(T, v)
    \/ Cut
    \/ Read
    \/ Again

Spec == Init /\ [][Next]_vars

----------------------------------------------------------------------------

\* The writer holds a value of the type it was given and the reader, when
\* decode succeeds, a value of that type too: every field of the struct
\* literal at the end of decode holds what its type can hold.
TypeOK ==
    /\ pc \in {"idle", "written", "read"}
    /\ type \in DOMAIN Generated \cup {"none"}
    /\ pc # "idle" => value \in Values(type)
    /\ size \in Nat
    /\ stream \in Seq(0..255)
    /\ cut \in BOOLEAN
    /\ result.ok \in BOOLEAN
    /\ result.ok => result.value \in Values(type) /\ result.rest \in Seq(0..255)

\* What the reader decodes is what the writer encoded, field for field, and
\* it stops exactly where the value ends: what follows in the stream is
\* left for the next decode.  This is about the order of the fields in
\* encode and in decode of every generated type, Option<Vec<T>> being None
\* or empty included.
RoundTrip ==
    (pc = "read" /\ ~cut)
        => /\ result.ok
           /\ result.value = value
           /\ stream = Encode(type, value) \o result.rest

\* byte_len is the number of bytes encode writes: a buffer or a message
\* header sized by byte_len fits the encoded value exactly.  This is about
\* byte_len and encode of every generated type naming the same fields.
ByteLenIsEncodedLength ==
    (pc = "written" /\ ~cut) => \E follower \in Followers :
        Len(stream) = size + Len(follower) /\ IsSuffix(follower, stream)

\* A value whose bytes end early is refused: decode never takes the front
\* of a value for a value.  This is about decode of every generated type
\* reading every field that encode wrote.
TruncatedIsRefused ==
    (pc = "read" /\ cut) => ~result.ok

=============================================================================
