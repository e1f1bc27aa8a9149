------------------------------ MODULE AncsParse ------------------------------
(***************************************************************************)
(* The decoder of the ANCS client (samples/ancs/src/ancs/ancs_service.c).  *)
(* The phone answers a request with a message: a header of five bytes and  *)
(* attributes, each of an identifier, a length of two bytes and data.  It  *)
(* arrives in fragments that end anywhere, and the decoder keeps what it   *)
(* needs between two fragments in attribute_data.                          *)
(*                                                                         *)
(* A byte of the data is a number; what is displayed is kept as the        *)
(* sequence of attributes that the display shows.  All is done by the BT   *)
(* RX thread; the reset after a lost link comes after its last fragment.   *)
(***************************************************************************)
EXTENDS Naturals, Sequences, SequencesExt

CONSTANTS AncsMessages,   \* sequences of attributes [id, data]
          FragmentSizes   \* the sizes of a notification

ANCS_DS_HDR_LEN == 5
AttributeIds == 0 .. 5
Octets == 0 .. 255
Attributes == [id : AttributeIds, data : Seq(Octets)]

\* The phone sends the identifier of the application, 0, first if at all, and
\* fills every notification but the last one.
ASSUME ParseAssumption ==
    /\ \A m \in AncsMessages :
          /\ m \in Seq(Attributes) /\ m # <<>>
          /\ \A i \in DOMAIN m : (m[i].id = 0 => i = 1) /\ Len(m[i].data) < 65536
    /\ FragmentSizes \subseteq {n \in Nat : n > ANCS_DS_HDR_LEN}

VARIABLES
    attribute_data,
    call,       \* ancs_parse_data: p, the fragment, the count of bytes read, and stop,
                \* set when the rest of the fragment is ignored
    shown,      \* what was displayed of the message
    message,    \* the message that the phone sends
    offset,     \* how many bytes of it have been sent
    fragment,   \* the size of a notification on this link
    emptyEnd    \* history: a message ended with an empty attribute
parseVars == <<attribute_data, call, shown, message, offset, fragment, emptyEnd>>

\* ancs_clear_attribute_data
Cleared == [state |-> "hdr", attr_len |-> 0, pending_len |-> FALSE,
            rem_attr_len |-> 0, pending_attr_data |-> 0]

NoCall == [p |-> <<>>, count |-> 0, stop |-> FALSE]

Low(n) == n % 256
High(n) == n \div 256
AttrBytes(a) == <<a.id, Low(Len(a.data)), High(Len(a.data))>> \o a.data

Bytes(m) == <<0, 1, 2, 3, 4>> \o FlattenSeq([i \in DOMAIN m |-> AttrBytes(m[i])])

ParseInit ==
    /\ attribute_data = Cleared
    /\ call = NoCall
    /\ shown = <<>>
    /\ message \in AncsMessages
    /\ offset = 0
    /\ fragment \in FragmentSizes
    /\ emptyEnd = FALSE

-----------------------------------------------------------------------------
(***************************************************************************)
(* ancs_parse_data: a turn of its loop for each decoder state.             *)
(***************************************************************************)
ParseLoop(state) ==
    /\ call.count < Len(call.p) /\ ~call.stop
    /\ attribute_data.state = state
    /\ UNCHANGED <<message, offset, fragment, emptyEnd>>

ParseHdr ==
    /\ ParseLoop("hdr")
    /\ call' = [call EXCEPT !.count = ANCS_DS_HDR_LEN, !.stop = call.p[1] # 0]
    /\ attribute_data' = [attribute_data EXCEPT !.state = IF call.p[1] = 0 THEN "attrid" ELSE @]
    /\ UNCHANGED shown

ParseAttrId ==
    LET id == call.p[call.count + 1]
    IN  /\ ParseLoop("attrid")
        /\ call' = [call EXCEPT !.count = @ + 1, !.stop = id \notin AttributeIds]
        /\ IF id \in AttributeIds
           THEN /\ attribute_data' = [attribute_data EXCEPT !.state = "attrlen"]
                /\ shown' = Append(shown, [id |-> id, data |-> <<>>])
           ELSE UNCHANGED <<attribute_data, shown>>

\* The length, its second byte if that came in another fragment, or its first.
ParseAttrLen ==
    LET byte == call.p[call.count + 1]
    IN  /\ ParseLoop("attrlen")
        /\ \/ /\ attribute_data.pending_len
              /\ attribute_data' = [attribute_data EXCEPT
                    !.attr_len = byte * 256 + attribute_data.rem_attr_len, !.rem_attr_len = 0,
                    !.pending_len = FALSE, !.state = "attrdata"]
              /\ call' = [call EXCEPT !.count = @ + 1]
           \/ /\ ~attribute_data.pending_len /\ call.count + 1 < Len(call.p)
              /\ attribute_data' = [attribute_data EXCEPT
                    !.attr_len = byte + 256 * call.p[call.count + 2], !.state = "attrdata"]
              /\ call' = [call EXCEPT !.count = @ + 2]
           \/ /\ ~attribute_data.pending_len /\ call.count + 1 >= Len(call.p)
              /\ attribute_data' = [attribute_data EXCEPT !.rem_attr_len = byte, !.pending_len = TRUE]
              /\ call' = [call EXCEPT !.count = @ + 1]
        /\ UNCHANGED shown

\* The data of the last attribute, unless that was one of an earlier message.
Shown(bytes) ==
    IF shown = <<>> THEN shown ELSE [shown EXCEPT ![Len(shown)].data = @ \o bytes]

\* The first turn of an attribute only notes its length: pending_attr_data is
\* still zero, and no byte is copied.
ParseAttrBegin ==
    /\ ParseLoop("attrdata")
    /\ attribute_data.pending_attr_data = 0
    /\ attribute_data' = [attribute_data EXCEPT
          !.pending_attr_data = attribute_data.attr_len, !.attr_len = 0,
          !.state = IF attribute_data.attr_len = 0 THEN "attrid" ELSE @]
    /\ UNCHANGED <<call, shown>>

ParseAttrData ==
    LET left == Len(call.p) - call.count
        pending == attribute_data.pending_attr_data
        n == IF pending < left THEN pending ELSE left
    IN  /\ ParseLoop("attrdata")
        /\ pending > 0
        /\ shown' = Shown(SubSeq(call.p, call.count + 1, call.count + n))
        /\ call' = [call EXCEPT !.count = @ + n]
        /\ attribute_data' = [attribute_data EXCEPT
              !.pending_attr_data = @ - n, !.state = IF pending = n THEN "attrid" ELSE @]

ParseEnd ==
    /\ call # NoCall
    /\ call.count >= Len(call.p) \/ call.stop
    /\ call' = NoCall
    /\ UNCHANGED <<attribute_data, shown, message, offset, fragment, emptyEnd>>

ancs_parse_data ==
    ParseHdr \/ ParseAttrId \/ ParseAttrLen \/ ParseAttrBegin \/ ParseAttrData \/ ParseEnd

AtHeaderByByte(p, d) == p[1] = 0

\* ancs_handle_data_source_data: between two attributes, a first byte that is
\* the command identifier starts a message.
AtHeader(p, d) ==
    /\ p[1] = 0
    /\ d.pending_attr_data = 0 /\ d.attr_len = 0 /\ ~d.pending_len
    /\ d.state \in {"hdr", "attrid"}

ancs_handle_data_source_data(p) ==
    /\ call = NoCall
    /\ attribute_data' = IF AtHeader(p, attribute_data) THEN [attribute_data EXCEPT !.state = "hdr"]
                         ELSE attribute_data
    /\ call' = [NoCall EXCEPT !.p = p]

-----------------------------------------------------------------------------
\* The next notification of the message.
Fragment ==
    LET all == Bytes(message)
        end == IF offset + fragment < Len(all) THEN offset + fragment ELSE Len(all)
    IN  /\ offset < Len(all)
        /\ ancs_handle_data_source_data(SubSeq(all, offset + 1, end))
        /\ offset' = end
        /\ UNCHANGED <<shown, message, fragment, emptyEnd>>

\* The phone answers the next request.
NewMessage ==
    /\ call = NoCall /\ offset = Len(Bytes(message))
    /\ message' \in AncsMessages
    /\ offset' = 0
    /\ shown' = <<>>
    /\ emptyEnd' = (emptyEnd \/ Last(message).data = <<>>)
    /\ UNCHANGED <<attribute_data, call, fragment>>

\* The link is lost, maybe in the middle of a message: BLE_CONN_CLOSE_IND calls
\* ancs_service_data_init.
LinkLost ==
    /\ call = NoCall
    /\ attribute_data' = Cleared
    /\ message' \in AncsMessages
    /\ fragment' \in FragmentSizes
    /\ offset' = 0
    /\ shown' = <<>>
    /\ emptyEnd' = FALSE
    /\ UNCHANGED call

ParseNext == Fragment \/ ancs_parse_data \/ NewMessage \/ LinkLost

ParseSpec == ParseInit /\ [][ParseNext]_parseVars

-----------------------------------------------------------------------------
\* The decoder never holds a length that is both announced and being read.
ParseTypeOK ==
    /\ attribute_data.state \in {"hdr", "attrid", "attrlen", "attrdata"}
    /\ attribute_data.attr_len = 0 \/ attribute_data.pending_attr_data = 0
    /\ offset \in 0 .. Len(Bytes(message))

\* ancs_parse_data: wherever the fragments end, in an identifier, a length or the
\* data, and whatever link was lost before, the attributes displayed are those
\* the phone sent.  Not so after a message that ended with an empty attribute:
\* the decoder is then left expecting data, and takes the header of the next
\* message for attributes.
DecodedAsSent ==
    call = NoCall /\ offset = Len(Bytes(message)) /\ ~emptyEnd => shown = message
=============================================================================
