------------------------------ MODULE MCMessage ------------------------------
(***************************************************************************)
(* The parts of a message that change by calls alone: the two containers   *)
(* of its fields, the fields that frame it, a typed header, and the        *)
(* buffers of bodies and reads.  They share no state, and each property is *)
(* about one of them: in a behaviour one part is used, any of them, and    *)
(* the others are as they were made.                                       *)
(***************************************************************************)
EXTENDS MCBuffers, Fields, MessageFields, MCETag

VARIABLE part

\* A list names no token twice.
MCOptions ==
    {<< >>, <<"close">>, <<"keep-alive">>, <<"upgrade">>,
     <<"close", "upgrade">>, <<"upgrade", "keep-alive">>, <<"keep-alive", "close">>}

MCCodings == {<< >>, <<"chunked">>, <<"gzip">>, <<"gzip", "chunked">>, <<"chunked", "gzip">>}

AResponse == ~request /\ result = "ok" /\ version = 11
NoHeader  == header = << >> /\ etag = Unparsed
Cleared   == \A i \in DOMAIN mem : mem[i] = mem[1]

PartsInit ==
    /\ Init /\ Multi!Init /\ FieldsInit /\ FramingInit
    /\ \/ part = "fields" /\ AResponse /\ NoHeader /\ Cleared
       \/ part = "framing" /\ NoHeader /\ Cleared
       \/ part = "tag" /\ AResponse /\ TagInit /\ Cleared
       \/ part = "flat buffer" /\ AResponse /\ NoHeader
       \/ part = "multi_buffer" /\ AResponse /\ NoHeader /\ Cleared

PartsNext ==
    /\ UNCHANGED part
    /\ \/ /\ part = "fields" /\ FieldsNext
          /\ UNCHANGED <<framingVars, tagVars, vars, multiVars>>
       \/ /\ part = "framing" /\ FramingNext
          /\ UNCHANGED <<fieldsVars, tagVars, vars, multiVars>>
       \/ /\ part = "tag" /\ TagNext
          /\ UNCHANGED <<fieldsVars, framingVars, vars, multiVars>>
       \/ /\ part = "flat buffer" /\ Next
          /\ UNCHANGED <<fieldsVars, framingVars, tagVars, multiVars>>
       \/ /\ part = "multi_buffer" /\ Multi!Next
          /\ UNCHANGED <<fieldsVars, framingVars, tagVars, vars>>

PartsSpec == PartsInit /\ [][PartsNext]_<<part, fieldsVars, framingVars, tagVars, vars, multiVars>>
=============================================================================
