---------------------------- MODULE RequestInfo ----------------------------
(***************************************************************************)
(* event.client and event.server (builtins/request-info.cpp) for the one   *)
(* request of an instance.                                                 *)
(*                                                                         *)
(* Getters on the prototypes build an object from the request's headers    *)
(* when it is first asked for and define it on the instance, where it      *)
(* hides the getter.  Any of the definitions may run out of memory, and    *)
(* the last fails when the application has frozen the instance; then the   *)
(* read throws.  Nothing runs while a getter does.  The application may    *)
(* change the headers between reads as far as the engine lets it.          *)
(***************************************************************************)
EXTENDS Integers, Sequences

CONSTANTS
    HeaderNames,    \* bound: the headers that may be there
    HeaderValues,   \* bound: the values of theirs that occur
    Parsed          \* the number that strtod makes of those that start with a finite one

VARIABLES
    headers,    \* those of the request
    info,       \* the objects that are properties by now, by path
    frozen,     \* the objects that take no more properties
    seen        \* what the last successful read of a path gave

infoVars == <<headers, info, frozen, seen>>

\* A header that is not there reads as one that is empty.
read_header(name) == IF name \in DOMAIN headers THEN headers[name] ELSE ""

\* The first that is not empty.
IsGiven(name) == read_header(name) # ""
read_header_fallback(names) ==
    LET given == SelectSeq(names, IsGiven)
    IN IF given = <<>> THEN "" ELSE read_header(Head(given))

define_str(names) == read_header_fallback(names)
define_decimal_or_null(name) ==
    LET raw == read_header(name) IN IF raw \in DOMAIN Parsed THEN Parsed[raw] ELSE "null"

ClientInfo ==
    [address |-> define_str(<<"x-real-ip", "x-forwarded-for">>),
     tlsJA3MD5 |-> define_str(<<"x-ja3">>),
     protocol |-> define_str(<<"x-forwarded-proto">>)]

GeoInfo ==
    [asn |-> define_str(<<"geoip-asn">>),
     latitude |-> define_decimal_or_null("geoip-lat"),
     longitude |-> define_decimal_or_null("geoip-long"),
     region |-> define_str(<<"geoip-reg">>),
     continent |-> define_str(<<"geoip-continent">>),
     countryCode |-> define_str(<<"geoip-country-code">>),
     countryName |-> define_str(<<"geoip-country-name">>),
     city |-> define_str(<<"geoip-city">>)]

ServerInfo ==
    [address |-> define_str(<<"server_addr">>), name |-> define_str(<<"server_name">>)]

PopInfo ==
    [latitude |-> define_decimal_or_null("pop-lat"),
     longitude |-> define_decimal_or_null("pop-long"),
     region |-> define_str(<<"pop-reg">>),
     continent |-> define_str(<<"pop-continent">>),
     countryCode |-> define_str(<<"pop-country-code">>),
     countryName |-> define_str(<<"pop-country-name">>),
     city |-> define_str(<<"pop-city">>)]

\* The instance a property is read of, and what its getter builds.
Owner == [client |-> "event", server |-> "event", geo |-> "client", pop |-> "server"]
Built(p) ==
    CASE p = "client" -> ClientInfo [] p = "server" -> ServerInfo
      [] p = "geo" -> GeoInfo [] p = "pop" -> PopInfo

Has(obj) == obj = "event" \/ obj \in DOMAIN info
With(f, p, v) == [q \in DOMAIN f \cup {p} |-> IF q = p THEN v ELSE f[q]]

-----------------------------------------------------------------------------
InfoInit ==
    /\ headers = <<>> /\ info = <<>> /\ seen = <<>>
    /\ frozen = {}

\* The getter of p, to its end.
Get(p) ==
    /\ Has(Owner[p]) /\ p \notin DOMAIN info
    /\ Owner[p] \notin frozen
    /\ info' = With(info, p, Built(p))
    /\ seen' = With(seen, p, Built(p))
    /\ UNCHANGED <<headers, frozen>>

\* It throws: for want of memory, because the instance is frozen, or, called
\* past the property, because that is there and read-only.
GetThrows(p) ==
    /\ Has(Owner[p])
    /\ UNCHANGED infoVars

\* Mutant: the getter stays and builds another object.
ReadAfresh(p) ==
    /\ p \in DOMAIN info
    /\ seen' = With(seen, p, Built(p))
    /\ UNCHANGED <<headers, info, frozen>>

\* The property is there by now.
ReadAgain(p) ==
    /\ p \in DOMAIN info
    /\ seen' = With(seen, p, info[p])
    /\ UNCHANGED <<headers, info, frozen>>

Freeze(obj) ==
    /\ Has(obj)
    /\ frozen' = frozen \cup {obj}
    /\ UNCHANGED <<headers, info, seen>>

\* By the engine as the request comes in, or by the application.
SetHeader(name) ==
    /\ \E v \in HeaderValues : headers' = With(headers, name, v)
    /\ UNCHANGED <<info, frozen, seen>>

InfoNext ==
    \/ \E p \in DOMAIN Owner : Get(p) \/ GetThrows(p) \/ ReadAgain(p)
    \/ \E obj \in {"event", "client", "server"} : Freeze(obj)
    \/ \E name \in HeaderNames : SetHeader(name)

InfoSpec == InfoInit /\ [][InfoNext]_infoVars

-----------------------------------------------------------------------------
InfoTypeOK ==
    /\ DOMAIN headers \subseteq HeaderNames
    /\ DOMAIN seen = DOMAIN info
    /\ \A p \in DOMAIN info : Has(Owner[p]) /\ DOMAIN info[p] = DOMAIN Built(p)

\* Whoever reads a property of the event twice gets the same, whatever has
\* become of the headers, and reads that failed in between leave no trace.
ReadsAgree ==
    [][\A p \in DOMAIN seen : p \in DOMAIN seen' /\ seen'[p] = seen[p]]_infoVars
=============================================================================
