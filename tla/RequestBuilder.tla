---------------------------- MODULE RequestBuilder ----------------------------
(***************************************************************************)
(* How a protobuf request comes out of an HTTP request                     *)
(* (request_builder.go): body, then path parameters, then query            *)
(* parameters, each found by one of several names and parsed by its kind.  *)
(*                                                                         *)
(* A field is a record: where it is (`at`, one proto name per level), its  *)
(* JSON name, its kind and whether it is a list.  Kinds stand for what the *)
(* code tells apart: "text" for string and bytes, "float" for both floats, *)
(* "Timestamp" for Duration too, "message" for all messages the builder    *)
(* does not know by name; a list of kind "message" may also be a map.      *)
(* A message is a function from its fields to values; the entry of a field *)
(* of a message kind says that it is present, its fields have entries of   *)
(* their own.  A text is a sequence of tokens, which are what commas       *)
(* separate; a number in quotes, in a JSON object, is a token of its own.  *)
(***************************************************************************)
EXTENDS Integers, Sequences, SequencesExt

CONSTANTS
  Fields,        \* the fields of each message type
  Snake, Camel,  \* what toSnakeCase and toCamelCase make of each name
  Lexicon,       \* what tokens read as: a number (num), a boolean, an enum name, a
                 \* float, a time; and what a bare number is as a float64 (round)
  Width32, Width64   \* bits of the two sizes of integers, scaled down

ASSUME WidthAssumption == Width32 \in Nat /\ Width64 \in Nat /\ 1 < Width32 /\ Width32 < Width64

\* The messages whose texts the builder parses, and all kinds that are MessageKind.
WellKnown    == {"StringValue", "Int32Value", "Int64Value", "BoolValue", "Timestamp"}
MessageKinds == WellKnown \union {"message"}

Inside(g, f) == Front(g.at) = f.at

\* In a message no two fields have one proto name, nor one JSON name; the fields of the
\* well-known types are scalars.
ASSUME FieldsAssumption ==
  \A type \in DOMAIN Fields : \A f, g \in Fields[type] :
    /\ Front(f.at) = Front(g.at) /\ (Last(f.at) = Last(g.at) \/ f.json = g.json) => f = g
    /\ Inside(g, f) /\ f.kind \in WellKnown =>
         g.kind \notin MessageKinds /\ (f.kind = "BoolValue" => g.kind = "bool")

Num(n)   == [is |-> "num", n |-> n]
Txt(t)   == [is |-> "txt", t |-> t]
Many(s)  == [is |-> "list", s |-> s]
Parts(p) == [is |-> "parts", parts |-> p]    \* a message, by the names of its fields
Wrap(v)  == Parts([n \in {"value"} |-> v])
Present  == [is |-> "message"]
Unset    == [is |-> "unset"]

Empty(type) == [f \in Fields[type] |-> Unset]

\* In a field without presence the zero value is as good as none.
Stored(v) == IF v \in {Num(0), Txt(<<"">>), Many(<<>>)} THEN Unset ELSE v

\* The fields that get a value when f is set to v, and the value they get: f itself
\* and, where v is a message, the fields in it.
Touches(f, v, g) == g = f \/ (v.is = "parts" /\ Inside(g, f))
Part(f, v, g) ==
  Stored(IF v.is # "parts" THEN v
         ELSE IF g = f THEN Present
         ELSE IF Last(g.at) \in DOMAIN v.parts THEN v.parts[Last(g.at)] ELSE Unset)

Set(msg, f, v) == [g \in DOMAIN msg |-> IF Touches(f, v, g) THEN Part(f, v, g) ELSE msg[g]]

----------------------------------------------------------------------------
\* What a text is in one of the tables: one value or none.
Read(table, text) == { Num(table[t]) : t \in {u \in DOMAIN table : text = <<u>>} }

\* The number a text stands for if it is between a and b.
Within(text, a, b) == {v \in Read(Lexicon.num, text) : v.n \in a .. b}

SInt(text, w) == Within(text, -(2 ^ (w - 1)), 2 ^ (w - 1) - 1)
UInt(text, w) == Within(text, 0, 2 ^ w - 1)

\* int32(iv): the low bits of a wider integer.
Truncate32(n) == LET r == n % 2 ^ Width32 IN IF r >= 2 ^ (Width32 - 1) THEN r - 2 ^ Width32 ELSE r

\* The value of a text for a kind of field, or none where the code has an error.
\* An Int32Value is read as 64 bits and truncated.
parseSingleValue(kind, text) ==
  CASE kind = "text"   -> {Txt(text)}
    [] kind = "int32"  -> SInt(text, Width32)
    [] kind = "int64"  -> SInt(text, Width64)
    [] kind = "uint32" -> UInt(text, Width32)
    [] kind = "uint64" -> UInt(text, Width64)
    [] kind = "enum"   -> IF SInt(text, Width32) # {} THEN SInt(text, Width32) ELSE Read(Lexicon.enum, text)
    [] kind \in {"bool", "float"} -> Read(Lexicon[kind], text)
    [] kind = "StringValue" -> {Wrap(Txt(text))}
    [] kind = "Int32Value"  -> { Wrap(Num(Truncate32(v.n))) : v \in SInt(text, Width64) }
    [] kind = "Int64Value"  -> { Wrap(v) : v \in SInt(text, Width64) }
    [] kind = "BoolValue"   -> { Wrap(v) : v \in Read(Lexicon.bool, text) }
    [] kind = "Timestamp"   -> { Parts(Lexicon.time[t]) : t \in {u \in DOMAIN Lexicon.time : text = <<u>>} }
    [] OTHER -> {}

\* A repeated field takes the parts between commas, all or none.
parseStringValue(f, text) ==
  LET part(i) == parseSingleValue(f.kind, <<text[i]>>)
  IN  CASE ~f.list -> parseSingleValue(f.kind, text)
        [] f.list /\ \A i \in DOMAIN text : part(i) # {} ->
             { Many([i \in DOMAIN text |-> CHOOSE v \in part(i) : TRUE]) }
        [] OTHER -> {}

----------------------------------------------------------------------------
Children(type, parent) == {f \in Fields[type] : Front(f.at) = parent}
ByJSONName(fs, n) == {f \in fs : f.json = n}
ByName(fs, n)     == {f \in fs : Last(f.at) = n}

\* The field of a name: by JSON name, proto name, the name in snake case, the
\* name in camel case, in this order.
findField(type, parent, n) ==
  LET fs == Children(type, parent)
  IN  IF ByJSONName(fs, n) # {} THEN ByJSONName(fs, n)
      ELSE IF ByName(fs, n) # {} THEN ByName(fs, n)
      ELSE IF ByName(fs, Snake[n]) # {} THEN ByName(fs, Snake[n])
      ELSE ByJSONName(fs, Camel[n])

\* The fields a dotted name leads through, as far as they exist and, except for
\* the last, are of a message kind.
Walk(type, name) ==
  LET at[i \in 0 .. Len(name)] ==
        IF i = 0 THEN <<>>
        ELSE IF Len(at[i - 1]) < i - 1 THEN at[i - 1]
        ELSE LET up == IF i = 1 THEN <<>> ELSE Last(at[i - 1]).at
                 fs == IF i > 1 /\ Last(at[i - 1]).kind \notin MessageKinds THEN {} ELSE findField(type, up, name[i])
             IN  IF fs = {} THEN at[i - 1] ELSE Append(at[i - 1], CHOOSE f \in fs : TRUE)
  IN  at[Len(name)]

\* The messages it goes into, and the field it ends at, if it gets there.
Over(type, name) ==
  LET way == Walk(type, name)
  IN  {way[i] : i \in {j \in DOMAIN way : j < Len(name) /\ way[j].kind \in MessageKinds}}
Target(type, name) ==
  LET way == Walk(type, name)
  IN  {f \in Fields[type] : Len(way) = Len(name) /\ f = Last(way)}

\* A list or a map on the way is taken for a message, and Set or Message panics.
PathPanics(type, name) == \E f \in Over(type, name) : f.list

\* Messages on the way to the field are created, and stay, even if the field does
\* not exist or its value cannot be parsed; errors are logged and passed over.
setFieldByPath(msg, type, name, text) ==
  LET made == [f \in DOMAIN msg |-> IF f \in Over(type, name) /\ msg[f] = Unset THEN Present ELSE msg[f]]
      sets == {Set(made, f, CHOOSE v \in parseStringValue(f, text) : TRUE) :
                 f \in {g \in Target(type, name) : parseStringValue(g, text) # {}}}
  IN  IF sets = {} THEN made ELSE CHOOSE s \in sets : TRUE

----------------------------------------------------------------------------
\* protojson (external): a JSON object, keys to texts, into the fields of a message.
\* A key is a JSON name or else a proto name.  Unknown keys, two keys for a field, values
\* out of range and numbers where a text is due are errors; one result or none.
Unmarshal(type, parent, obj) ==
  LET fs == Children(type, parent)
      named(k) == IF ByJSONName(fs, k) # {} THEN ByJSONName(fs, k) ELSE ByName(fs, k)
      field(k) == CHOOSE f \in named(k) : TRUE
      vals(k)  == parseStringValue(field(k), obj[k])
      val(k)   == CHOOSE v \in vals(k) : TRUE
      fits(k)  == \A i \in DOMAIN obj[k] :
                    CASE field(k).kind = "Int32Value" -> SInt(<<obj[k][i]>>, Width32) # {}
                      [] field(k).kind \in {"text", "StringValue"} -> obj[k][i] \notin DOMAIN Lexicon.round
                      [] OTHER -> TRUE
      keys(g)  == {k \in DOMAIN obj : Touches(field(k), val(k), g)}
  IN  IF /\ \A k \in DOMAIN obj : named(k) # {} /\ fits(k) /\ vals(k) # {}
         /\ \A k, l \in DOMAIN obj : field(k) = field(l) => k = l
      THEN { [g \in Fields[type] |-> IF keys(g) = {} THEN Unset
                                     ELSE LET k == CHOOSE x \in keys(g) : TRUE IN Part(field(k), val(k), g)] }
      ELSE {}

\* json.Unmarshal into map[string]interface{} and json.Marshal: bare numbers have been
\* float64 in between.
reMarshal(obj) ==
  [k \in DOMAIN obj |-> [i \in DOMAIN obj[k] |->
     LET t == obj[k][i] IN IF t \in DOMAIN Lexicon.round THEN Lexicon.round[t] ELSE t]]

\* BuildRequest gives setField a JSON object, whatever the kind of the body's
\* field: convertToProtoValue has no case for one.
convertToProtoValue(f, obj) == {}

\* The body as one field of an empty message.  The well-known types are no objects in
\* JSON.
setField(type, n, obj) ==
  LET found == findField(type, <<>>, n)
      f     == CHOOSE g \in found : TRUE
  IN  IF found = {} THEN {}
      ELSE IF f.kind \notin MessageKinds THEN convertToProtoValue(f, obj)
      ELSE IF f.kind # "message" THEN {}
      ELSE { [s EXCEPT ![f] = Present] : s \in Unmarshal(type, f.at, reMarshal(obj)) }

\* What a body that was read makes of an empty message, or nothing: an error.
\* A rule that binds no body ignores it.
FromBody(type, rule, body) ==
  CASE body.is = "none" \/ rule.body = "" -> {Empty(type)}
    [] body.is = "obj" /\ rule.body = "*" -> Unmarshal(type, <<>>, body.obj)
    [] body.is = "obj" /\ rule.body \notin {"", "*"} -> setField(type, rule.body, body.obj)
    [] OTHER -> {}

\* The object that setField took for a list or a map: Set panics.
BodyPanics(type, rule, body) ==
  /\ rule.body \notin {"", "*"} /\ FromBody(type, rule, body) # {} /\ body.is = "obj"
  /\ (CHOOSE f \in findField(type, <<>>, rule.body) : TRUE).list
==============================================================================
