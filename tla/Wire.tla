--------------------------------- MODULE Wire ---------------------------------
(***************************************************************************)
(* How a struct crosses the wire: the constructor takes arguments, write() *)
(* sends the fields that are set, and read() of the other side, which may  *)
(* be of another version, fills in those it knows.  The server is taken to *)
(* read and write as the generated code does, with fields of its own.      *)
(*                                                                         *)
(* The value of a field is the name it was given under.                    *)
(***************************************************************************)
EXTENDS ThriftService, FiniteSets, FiniteSetsExt, SequencesExt

VARIABLES
    call,     \* the method called, or NoCall for a struct by itself
    struct,   \* the struct in question, a name of Structs
    given,    \* the arguments of the constructor, by name
    alien,    \* the other side: "no", "more fields", "other type"
    envelope, \* the fields of the frame around it on the wire, for a call
    message,  \* the fields on the wire
    object,   \* what read() has filled in, as pairs of field and value
    step

wireVars == <<call, struct, given, alien, envelope, message, object, step>>

NoCall == "none"

Names(fields) == {fields[i].name : i \in DOMAIN fields}
Needed(fields) == {f \in Names(fields) : \E i \in DOMAIN fields :
                                            fields[i].name = f /\ fields[i].required}

-----------------------------------------------------------------------------
(* What the program passes to the constructors *)

QueryGives == {"sessionId", "statement", "statementId", "fetchSize", "timeout",
               "enableRedirectQuery", "jdbcQuery"}
UpdateGives == {"sessionId", "statement", "statementId"}
TreeTabletGives == {"sessionId", "prefixPath", "measurements", "values", "timestamps", "types",
                    "size", "isAligned"}
TableTabletGives == {"sessionId", "prefixPath", "measurements", "values", "timestamps", "types",
                     "size", "isAligned", "writeToTable", "columnCategories"}
TabletsGives == {"sessionId", "prefixPaths", "measurementsList", "valuesList", "timestampsList",
                 "typesList", "sizeList", "isAligned"}
FetchGives == {"sessionId", "statement", "fetchSize", "queryId", "isAlign"}
CloseOperationGives == {"sessionId", "queryId", "statementId"}
OpenGives == {"client_protocol", "username", "password", "zoneId", "configuration"}
CloseSessionGives == {"sessionId"}

ProgramCalls == {
    <<"executeQueryStatementV2", QueryGives>>, <<"executeUpdateStatementV2", UpdateGives>>,
    <<"insertTablet", TreeTabletGives>>, <<"insertTablet", TableTabletGives>>,
    <<"insertTablets", TabletsGives>>, <<"fetchResultsV2", FetchGives>>,
    <<"closeOperation", CloseOperationGives>>, <<"openSession", OpenGives>>,
    <<"closeSession", CloseSessionGives>>, <<"requestStatementId", {}>>}

-----------------------------------------------------------------------------
(* Constructor, write() and read() *)

\* The fields of a message in the order of the table.
OnWire(f) == [id |-> f.id, type |-> f.type, value |-> f.name]
Written(fields, set) ==
    FlattenSeq([i \in DOMAIN fields |-> IF fields[i].name \in set THEN <<OnWire(fields[i])>>
                                        ELSE <<>>])

\* Does the table know a field of a message?
ById(f, m) == f.id = m.id                               \* mutant: type not looked at
Matches(f, m) == f.id = m.id /\ f.type = m.type

Decoded(fields, msg) ==
    {<<p[1].name, p[2].value>> :
        p \in {q \in ToSet(fields) \X ToSet(msg) : Matches(q[1], q[2])}}

Fields(s) == IF s = NoStruct THEN <<>> ELSE Structs[s]

\* The struct around the argument or the result of a call, its only field set.
Around(part) == Methods[call].frame[part]
Sealed(part) == IF call = NoCall THEN <<>> ELSE Written(Around(part), Names(Around(part)))

\* Arguments worth trying: all, all but one, the required ones with up to two more.
Arguments(fields) ==
    LET names == Names(fields)
    IN  {names \ x : x \in {{}} \cup {{n} : n \in names}}
            \cup {Needed(fields) \cup {m, n} : m, n \in names} \cup {Needed(fields)}

WireInit ==
    /\ \/ \E s \in DOMAIN Structs :
            /\ call = NoCall /\ struct = s
            /\ given \in Arguments(Structs[s])
       \/ \E c \in ProgramCalls : /\ call = c[1] /\ struct = Methods[c[1]].request
                           /\ given = c[2]
    /\ alien \in {"no", "more fields", "other type"}
    /\ envelope = <<>> /\ message = <<>>
    /\ object = {}
    /\ step = "construct"

\* new ttypes.<struct>(args), then write().  An argument the struct has no field
\* for is dropped; a required one that is missing makes the constructor throw.
Send ==
    /\ step = "construct"
    /\ \/ /\ ~ (Needed(Fields(struct)) \subseteq given)
          /\ step' = "thrown"
          /\ UNCHANGED <<envelope, message>>
       \/ /\ Needed(Fields(struct)) \subseteq given
          /\ envelope' = Sealed("args")
          /\ message' = Written(Fields(struct), given)
          /\ step' = "sent"
    /\ UNCHANGED <<call, struct, given, alien, object>>

\* The other side has a field more, or another type for one.
Skew ==
    /\ step = "sent"
    /\ \/ alien = "no" /\ UNCHANGED message
       \/ /\ alien = "more fields"
          /\ \E i \in 0..Len(message) :
               message' = InsertAt(message, i + 1, [id |-> 99, type |-> "STRING", value |-> "new"])
       \/ /\ alien = "other type" /\ message # <<>>
          /\ \E i \in DOMAIN message : message' = [message EXCEPT ![i].type = "changed"]
    /\ step' = "arriving"
    /\ UNCHANGED <<call, struct, given, alien, envelope, object>>

\* The receiver opens the frame and reads the struct in it.
Opens(part) ==
    call = NoCall \/ Decoded(Around(part), envelope) = {<<f, f>> : f \in Names(Around(part))}

Receive ==
    /\ step = "arriving"
    /\ object' = IF Opens("args") \/ Opens("result") THEN Decoded(Fields(struct), message) ELSE {}
    /\ step' = "read"
    /\ UNCHANGED <<call, struct, given, alien, envelope, message>>

\* The server replies to a call, with any fields; a result without "success" is
\* an "unknown result" for the callback.
Reply ==
    /\ step = "read" /\ call # NoCall
    /\ Opens("args") /\ ~ Opens("result")
    /\ struct' = Methods[call].response
    /\ \/ /\ envelope' = Sealed("result")
          /\ given' \in Arguments(Fields(struct'))
          /\ message' = Written(Fields(struct'), given')
          /\ step' = "sent"
       \/ /\ envelope' = Written(Around("result"), {})
          /\ message' = <<>> /\ given' = {}
          /\ step' = "unknown result"
    /\ object' = {}
    /\ UNCHANGED <<call, alien>>

WireNext == Send \/ Skew \/ Receive \/ Reply

WireSpec == WireInit /\ [][WireNext]_wireVars

-----------------------------------------------------------------------------
\* Every field arrives under its own name, whatever else is in the message, and
\* one whose type has changed is left out without harm to the others; what the
\* program passes to a constructor is complete and none of it is dropped
\* (client_types.js, Session.ts:277, 365, 437, 531, 1437, SessionDataSet.ts:246, 408,
\* Connection.ts:115, 190).
RoundTrip ==
    /\ step = "read" => object =
        {<<m.value, m.value>> : m \in {n \in ToSet(message) : n.type # "changed" /\ n.id # 99}}
    /\ step = "read" /\ alien = "no" =>
        Cardinality(object) = Cardinality(given \cap Names(Fields(struct)))
    /\ call # NoCall /\ struct = Methods[call].request =>
        step # "thrown" /\ given \subseteq Names(Fields(struct))
    /\ step = "unknown result" => ~ Opens("result")
=============================================================================
