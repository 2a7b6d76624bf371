------------------------------ MODULE Options ------------------------------
(***************************************************************************)
(* Options from their text to their use: the registry and its lock         *)
(* (options.go: RegisterOption, ParseOption), Parse and Validate of the    *)
(* typed options, an address whose query sets one option (address.go) and  *)
(* the option set that Dial or Listen make of it, whose values come before *)
(* those of the connector and the default.                                 *)
(***************************************************************************)
EXTENDS Integers

CONSTANTS
    Callers,        \* threads that parse an option's name
    Nobody,         \* no thread
    Bits,           \* width of "uint8", "uint16", "uint32", "int32", "int" and "uint64"
    Texts           \* the numbers an address may hold as text

ASSUME CallersAssumption == Nobody \notin Callers
ASSUME BitsAssumption ==
    /\ Bits \in [{"uint8", "uint16", "uint32", "int32", "int", "uint64"} -> Nat \ {0}]
    /\ Bits["int"] = Bits["uint64"] /\ \A k \in DOMAIN Bits : Bits[k] <= Bits["int"]
    /\ Texts \subseteq Int

Signed(b) == -(2^(b - 1)) .. 2^(b - 1) - 1
Unsigned(b) == 0 .. 2^b - 1

\* the kinds of option whose text is a number, and those of which 0 and 1 stand for values
UintKinds == {"uint8", "uint16", "uint32"}
OptionKinds == UintKinds \cup {"int32", "int", "bool", "string", "duration"}
NumbersOf(type) ==
    CASE type \in UintKinds \cup {"uint64"} -> Unsigned(Bits[type])
      [] type \in {"int", "int64"} -> Signed(Bits["int"])
      [] type = "int32" -> Signed(Bits["int32"])
      [] OTHER -> {0, 1}

\* the widths are large enough for the default, 0, and the connector's value, 1
ASSUME WidthAssumption == \A kind \in OptionKinds : {0, 1} \subseteq NumbersOf(kind)

\* a Go value: its type and the number, or one of two values of another type
Typed == UNION {{[type |-> t, n |-> n] : n \in NumbersOf(t)} : t \in OptionKinds \cup {"int64", "uint64"}}
Invalid == [type |-> "error", n |-> 0]

\* Parse: strconv gives int64 or uint64; a bool, a string, a duration their own
Parse(kind, text) ==
    CASE kind \in UintKinds ->
           IF text \in Unsigned(Bits[kind]) THEN [type |-> "uint64", n |-> text] ELSE Invalid
      [] kind \in {"int", "int32"} ->
           IF text \in Signed(Bits[kind]) THEN [type |-> "int64", n |-> text] ELSE Invalid
      [] OTHER -> IF text \in {0, 1} THEN [type |-> kind, n |-> text] ELSE Invalid

\* plausible bug: only the option's own type, which is not what Parse returns
Validate_OwnType(kind, val) == IF val.type = kind THEN val ELSE Invalid

\* Validate: the option's own type; an integer of another type within the
\* range, which uint32 does not ask of an uint64
Validate(kind, val) ==
    LET Fits == IF val.n \in NumbersOf(kind) THEN [type |-> kind, n |-> val.n] ELSE Invalid
    IN  CASE val.type = kind -> val
          [] kind = "uint32" /\ val.type = "uint64" -> [type |-> kind, n |-> val.n % 2^Bits["uint32"]]
          [] kind \in UintKinds /\ val.type = "int" -> Fits
          [] kind \in UintKinds \ {"uint32"} /\ val.type = "uint64" -> Fits
          [] kind = "int32" /\ val.type \in {"int", "int64"} -> Fits
          [] kind = "int" /\ val.type = "int64" -> [type |-> "int", n |-> val.n]
          [] OTHER -> Invalid

-----------------------------------------------------------------------------
VARIABLES
    registered,     \* names, one of each kind, in the registry
    reglock,        \* who holds the registry's lock
    lookup,         \* ParseOption: "new", "called", "locked", "found", "notfound"
    item,           \* the query item of the address: kind, parsed value, text
    astate,         \* the address: "new", "parsed", "error", "used"
    override,       \* the caller's value for the option, or Invalid for none
    effective       \* what the pipe or dialer reads

optvars == <<registered, reglock, lookup, item, astate, override, effective>>

NoItem == [kind |-> "bool", val |-> Invalid, text |-> 0]

OptionsInit ==
    /\ registered \in {OptionKinds, OptionKinds \ {"string"}} /\ reglock = Nobody
    /\ lookup = [t \in Callers |-> "new"]
    /\ item = NoItem /\ astate = "new" /\ override = Invalid /\ effective = Invalid

\* RegisterOption
Registers(kind) ==
    /\ reglock = Nobody /\ registered' = registered \cup {kind}
    /\ UNCHANGED <<reglock, lookup, item, astate, override, effective>>

ParseCalled(t) ==
    /\ lookup[t] = "new" /\ lookup' = [lookup EXCEPT ![t] = "called"]
    /\ UNCHANGED <<registered, reglock, item, astate, override, effective>>

ParseLocks(t) ==
    /\ lookup[t] = "called" /\ reglock = Nobody /\ reglock' = t
    /\ lookup' = [lookup EXCEPT ![t] = "locked"]
    /\ UNCHANGED <<registered, item, astate, override, effective>>

\* plausible bug: the lock is kept by a lookup that succeeds, too
ParseFinds_Keeps(t) ==
    /\ lookup[t] = "locked" /\ UNCHANGED <<reglock, registered, override, effective>>
    /\ lookup' = [lookup EXCEPT ![t] = "found"] /\ UNCHANGED <<item, astate>>

\* ParseOption finds the name; if it is the address's, the text is parsed
ParseFinds(t) ==
    /\ lookup[t] = "locked" /\ reglock' = Nobody
    /\ lookup' = [lookup EXCEPT ![t] = "found"]
    /\ \E kind \in registered :
         IF astate = "new"
         THEN \E text \in Texts :
                LET val == Parse(kind, text)
                IN  /\ astate' = IF val = Invalid THEN "error" ELSE "parsed"
                    /\ item' = IF val = Invalid THEN NoItem ELSE [kind |-> kind, val |-> val, text |-> text]
         ELSE UNCHANGED <<astate, item>>
    /\ UNCHANGED <<registered, override, effective>>

\* the name is not there: the error is returned with the lock held
ParseMisses(t) ==
    /\ lookup[t] = "locked" /\ registered # OptionKinds
    /\ lookup' = [lookup EXCEPT ![t] = "notfound"]
    /\ UNCHANGED <<registered, reglock, item, astate, override, effective>>

\* GetOption of a set with sub options, and the default: the set's own value
\* (NewOptionsWithValuesAndSubs leaves out what is not valid), the connector's, the default
ValueFrom(own, sub, default) == IF own # Invalid THEN own ELSE IF sub # Invalid THEN sub ELSE default

\* Dial, Listen: the caller's values overwrite those of the address
Merged(val, over) == IF over # Invalid THEN over ELSE val

\* Connect, DialOptions or ListenOptions, and a read of the option
Uses(over) ==
    /\ astate = "parsed" /\ astate' = "used" /\ override' = over
    /\ \E sub \in {Invalid, [type |-> item.kind, n |-> 1]} :
         effective' = ValueFrom(Validate(item.kind, Merged(item.val, over)), sub, [type |-> item.kind, n |-> 0])
    /\ UNCHANGED <<registered, reglock, lookup, item>>

ParseOption(t) == ParseFinds(t) \/ ParseMisses(t)

OptionsNext ==
    \/ \E t \in Callers : ParseCalled(t) \/ ParseLocks(t) \/ ParseOption(t)
    \/ \E kind \in OptionKinds : Registers(kind)
    \/ \E over \in Typed \cup {Invalid} : Uses(over)

OptionsSpec == OptionsInit /\ [][OptionsNext]_optvars

\* a lookup ends, and a mutex that is free again and again is given to who
\* waits
OptionsFairness ==
    \A t \in Callers : WF_optvars(ParseOption(t)) /\ SF_optvars(ParseLocks(t))

-----------------------------------------------------------------------------
(* Properties *)

\* What is read of an option that an address sets, after Parse, the merge with
\* the caller's value, Validate and the lookup (options.go, connector.go): the
\* number of the text, with no loss on the way through uint64 or int64; or the
\* caller's number, cut to the low bits when an uint64 is given to an uint32
\* option, whose range test is that of uint64 (options.go:666); or, when the
\* caller's value is refused, what the connector or the default says: the
\* setting of the address is lost with it.  It is always one of the option's.
SettingsTakeEffect ==
    astate = "used" =>
        LET cut == item.kind = "uint32" /\ override.type = "uint64"
            taken == Validate(item.kind, override) # Invalid
        IN  /\ override = Invalid => effective.n = item.text
            /\ taken => effective.n = IF cut THEN override.n % 2^Bits["uint32"] ELSE override.n
            /\ ~taken /\ override # Invalid => effective.n \in {0, 1}
            /\ effective.type = item.kind /\ effective.n \in NumbersOf(item.kind)

\* ParseOption returns, unless a name was not found before: that error keeps
\* the registry's lock (options.go:216).
ParseEnds ==
    \A t \in Callers :
        lookup[t] = "called" ~> (lookup[t] = "found" \/ \E u \in Callers : lookup[u] = "notfound")
=============================================================================
