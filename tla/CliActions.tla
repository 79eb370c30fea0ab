----------------------------- MODULE CliActions -----------------------------
(***************************************************************************)
(* The entity actions of the command line tool                              *)
(* (bin/commands/actions/entity_actions.cpp) on top of the handles: an      *)
(* action parses its values, builds a command and sends one message, or     *)
(* fails and sends nothing.  Values are tokens: an integer, a decimal in    *)
(* steps of 1 / Unit, a word, a token with a percent sign, a list split at  *)
(* its separator, or a key with the token behind its equals sign.           *)
(*                                                                          *)
(* The device has entities of one domain; the program sends whole commands  *)
(* through handles too, and the device applies the messages and reports its *)
(* state later.                                                             *)
(***************************************************************************)
EXTENDS EntityCommands, Sequences, SequencesExt

CONSTANTS Domains,      \* the domains that a run looks at
          Keys,         \* the keys of the entities
          Bad,          \* a value that is no number: an exception or a failure
          NaN, Infinity, MinusInfinity,   \* the floats that are no numbers
          IntLimit,     \* std::int32_t holds -IntLimit .. IntLimit - 1
          MaxCommands   \* bound: calls made

ASSUME CliAssumption ==
    /\ Domains \subseteq CommandDomains /\ Keys # {}
    /\ IntLimit \in Nat \ {0} /\ MaxCommands \in Nat
    /\ NaN \notin {Infinity, MinusInfinity} /\ Infinity # MinusInfinity
    /\ \A x \in {NaN, Infinity, MinusInfinity} : x # Bad /\ x \notin Int

VARIABLES domain,      \* the domain of the entities
          device,      \* key -> what a command can change, at the device
          outbox,      \* messages on their way to the device
          cached,      \* key -> Info and State that the client holds
          fresh,       \* keys whose State was reported after their last change
          intended,    \* key -> what the calls made so far ask for
          calls

cli_vars == <<domain, device, outbox, cached, fresh, intended, calls>>

-----------------------------------------------------------------------------
(* The parsers: a number of steps, a float that is no number, or Bad, which    *)
(* stands for the exception.                                                   *)

IsFinite(x) == x \notin {Bad, NaN, Infinity, MinusInfinity}

(* std::clamp(x, 0, 1): what compares with nothing is left as it is. *)
Clamp(x) ==
    CASE x \in {Bad, NaN} -> x
      [] x = Infinity -> Unit
      [] x = MinusInfinity -> 0
      [] IsFinite(x) -> IF x < 0 THEN 0 ELSE IF x > Unit THEN Unit ELSE x

Divided(x, n) == IF IsFinite(x) THEN x \div n ELSE x

(* strtof reads the words nan and inf too. *)
parse_float(t) ==
    CASE t.kind = "integer" -> Unit * t.n
      [] t.kind = "decimal" -> t.n
      [] t.kind = "word" /\ t.text = "nan" -> NaN
      [] t.kind = "word" /\ t.text \in {"inf", "infinity"} -> Infinity
      [] t.kind = "word" /\ t.text = "-inf" -> MinusInfinity
      [] OTHER -> Bad

(* A long cut to 32 bits. *)
ToInt32(n) == LET m == n % (2 * IntLimit)
              IN  IF m >= IntLimit THEN m - 2 * IntLimit ELSE m

parse_int(t) == IF t.kind = "integer" THEN ToInt32(t.n) ELSE Bad

parse_uint(t) == IF parse_int(t) = Bad THEN Bad
                 ELSE IF parse_int(t) < 0 THEN Bad ELSE parse_int(t)

percent_value(t) ==
    IF t.kind = "percent" THEN Divided(parse_float(t.of), 100) ELSE parse_float(t)

(* Bug variant of parse_percent_or_unit: the value is not limited. *)
parse_percent_unlimited(t) == percent_value(t)

parse_percent_or_unit(t) == Clamp(percent_value(t))

parse_bool(t) ==
    CASE t.kind = "word" /\ t.text \in {"true", "on", "yes"} -> 1
      [] t.kind = "word" /\ t.text \in {"false", "off", "no"} -> 0
      [] t.kind = "integer" /\ t.n \in {0, 1} -> t.n
      [] OTHER -> Bad

(* A component above 1.0 counts in 255ths. *)
parse_component(t) ==
    LET v == parse_float(t)
        above == IF IsFinite(v) THEN v > Unit ELSE v = Infinity
    IN  Clamp(IF above THEN Divided(v, 255) ELSE v)

AnyBad(s) == \E i \in DOMAIN s : s[i] = Bad

parse_rgb(values) ==
    LET parts == IF Len(values) = 1 /\ values[1].kind = "list" THEN values[1].parts
                                                                ELSE values
        comp == [i \in DOMAIN parts |-> parse_component(parts[i])]
    IN  IF Len(parts) # 3 \/ AnyBad(comp) THEN Bad ELSE comp

ClimateMode == [off |-> 0, heat_cool |-> 1, heatcool |-> 1, auto_heat_cool |-> 1,
                cool |-> 2, heat |-> 3, fan_only |-> 4, fan |-> 4, dry |-> 5, auto |-> 6]

parse_climate_mode(t) ==
    IF t.kind = "word" /\ t.text \in DOMAIN ClimateMode THEN ClimateMode[t.text] ELSE Bad

(* Texts are told apart as far as empty, a word or another token. *)
text_value(t) == IF t.kind = "word" THEN 1 ELSE 2

-----------------------------------------------------------------------------
(* The actions, as the command they send or Bad: a missing value, a value that *)
(* a parser refuses or an unknown field.                                       *)

Method(d, v, is_on, name) ==
    IF v = Bad THEN Bad ELSE EntityHandle(d, v, is_on).methods[name]

(* The first value, put through a parser. *)
First(values, parse(_)) == IF values = <<>> THEN Bad ELSE parse(values[1])

LightField ==
    [state |-> "state", brightness |-> "brightness",
     color_brightness |-> "color_brightness", rgb |-> "rgb", white |-> "white",
     color_temperature |-> "color_temperature", cold_white |-> "cold_white",
     warm_white |-> "warm_white", transition |-> "transition_length",
     transition_length |-> "transition_length", flash |-> "flash_length",
     flash_length |-> "flash_length", effect |-> "effect"]

light_value(field, t) ==
    CASE field = "state" -> parse_bool(t)
      [] field = "rgb" -> parse_rgb(<<t>>)
      [] field = "color_temperature" -> parse_float(t)
      [] field \in {"transition_length", "flash_length"} -> parse_uint(t)
      [] field = "effect" -> text_value(t)
      [] OTHER -> parse_percent_or_unit(t)

ClimateField ==
    [mode |-> "mode", target_temperature |-> "target_temperature",
     temperature |-> "target_temperature",
     target_temperature_low |-> "target_temperature_low",
     target_temperature_high |-> "target_temperature_high",
     target_humidity |-> "target_humidity", humidity |-> "target_humidity"]

climate_value(field, t) ==
    IF field = "mode" THEN parse_climate_mode(t) ELSE parse_float(t)

(* light_command and climate_command: every token is key=value with a known   *)
(* key, and the last token of a field counts.                                 *)
KeyValues(values, Field, value(_, _)) ==
    LET known(t) == t.kind = "kv" /\ t.key \in DOMAIN Field
        parsed == [i \in DOMAIN values |->
                      IF known(values[i]) THEN value(Field[values[i].key], values[i].value)
                                          ELSE Bad]
        fields == {Field[values[i].key] : i \in DOMAIN values}
        last(f) == CHOOSE i \in DOMAIN values :
                      /\ Field[values[i].key] = f
                      /\ \A j \in DOMAIN values : Field[values[j].key] = f => j <= i
    IN  IF AnyBad(parsed) THEN Bad ELSE [f \in fields |-> parsed[last(f)]]

light_command(values) == KeyValues(values, LightField, light_value)
climate_command(values) == KeyValues(values, ClimateField, climate_value)

switch_actions(name, values, is_on) ==
    IF name = "set"
    THEN LET on == First(values, parse_bool) IN IF on = Bad THEN Bad ELSE set_power(on)
    ELSE Method("Switch", 0, is_on, name)

light_actions(name, values, is_on) ==
    CASE name = "turn_on" /\ values # <<>> ->
             Method("Light", parse_percent_or_unit(values[1]), is_on, "set_brightness")
      [] name = "set_brightness" ->
             Method("Light", First(values, parse_percent_or_unit), is_on, name)
      [] name = "set_rgb" -> Method("Light", parse_rgb(values), is_on, name)
      [] name = "command" -> light_command(values)
      [] OTHER -> Method("Light", 0, is_on, name)

fan_actions(name, values, is_on) ==
    Method("Fan", IF name = "set_speed" THEN First(values, parse_int) ELSE 0, is_on, name)

cover_actions(name, values, is_on) ==
    Method("Cover", IF name = "set_position" THEN First(values, parse_percent_or_unit)
                                             ELSE 0, is_on, name)

valve_actions(name, values, is_on) ==
    IF name = "set_position"
    THEN LET p == First(values, parse_percent_or_unit)
         IN  IF p = Bad THEN Bad ELSE [position |-> p, stop |-> 0]
    ELSE Method("Valve", 0, is_on, name)

climate_actions(name, values, is_on) ==
    CASE name = "command" -> climate_command(values)
      [] name = "set_mode" ->
             Method("Climate", First(values, parse_climate_mode), is_on, name)
      [] OTHER -> Method("Climate", First(values, parse_float), is_on, name)

media_player_actions(name, values, is_on) ==
    Method("MediaPlayer",
           IF name = "set_volume" THEN First(values, parse_percent_or_unit) ELSE 0,
           is_on, name)

alarm_control_panel_actions(name, values, is_on) ==
    Method("AlarmControlPanel", IF values = <<>> THEN 0 ELSE text_value(values[1]),
           is_on, name)

(* A date has three parts, a time two or more, of which three are read. *)
Parts(t) == IF t.kind = "list" THEN t.parts ELSE <<t>>

date_set(t) ==
    LET p == [i \in DOMAIN Parts(t) |-> parse_uint(Parts(t)[i])]
    IN  IF Len(p) # 3 \/ AnyBad(p) THEN Bad ELSE p

time_set(t) ==
    LET p == Parts(t)
        read == [i \in 1..(IF Len(p) > 2 THEN 3 ELSE Len(p)) |-> parse_uint(p[i])]
    IN  IF Len(p) < 2 \/ AnyBad(read) THEN Bad
        ELSE IF Len(p) > 2 THEN read ELSE read \o <<0>>

ActionsOf(d) ==
    CASE d = "Switch" -> {"turn_on", "turn_off", "toggle", "set"}
      [] d = "Light" -> {"turn_on", "turn_off", "toggle", "set_brightness", "set_rgb",
                         "command"}
      [] d = "Fan" -> {"turn_on", "turn_off", "toggle", "set_speed"}
      [] d = "Siren" -> {"turn_on", "turn_off", "toggle"}
      [] d \in {"Cover", "Valve"} -> {"open", "close", "stop", "set_position"}
      [] d = "Climate" -> {"set_mode", "set_target_temperature", "command"}
      [] d \in {"Number", "Select", "Text", "Date", "Time", "DateTime"} -> {"set"}
      [] d = "Button" -> {"press"}
      [] d = "Lock" -> {"lock", "unlock", "open"}
      [] d = "MediaPlayer" -> {"play", "pause", "stop", "set_volume"}
      [] d = "AlarmControlPanel" -> {"arm_away", "arm_home", "disarm"}
      [] d = "Update" -> {"install", "check"}
      [] OTHER -> {}

find_action(d, name, values, is_on) ==
    CASE d = "Switch" -> switch_actions(name, values, is_on)
      [] d = "Light" -> light_actions(name, values, is_on)
      [] d = "Fan" -> fan_actions(name, values, is_on)
      [] d = "Cover" -> cover_actions(name, values, is_on)
      [] d = "Valve" -> valve_actions(name, values, is_on)
      [] d = "Climate" -> climate_actions(name, values, is_on)
      [] d = "MediaPlayer" -> media_player_actions(name, values, is_on)
      [] d = "AlarmControlPanel" -> alarm_control_panel_actions(name, values, is_on)
      [] d = "Number" -> Method(d, First(values, parse_float), is_on, name)
      [] d \in {"Select", "Text"} -> Method(d, First(values, text_value), is_on, name)
      [] d = "Date" -> Method(d, First(values, date_set), is_on, name)
      [] d = "Time" -> Method(d, First(values, time_set), is_on, name)
      [] d = "DateTime" -> Method(d, First(values, parse_uint), is_on, name)
      [] OTHER -> Method(d, 0, is_on, name)

-----------------------------------------------------------------------------
(* The tokens and the commands that the model tries. *)

Integer(n) == [kind |-> "integer", n |-> n]
Word(w) == [kind |-> "word", text |-> w]
Percent(t) == [kind |-> "percent", of |-> t]
List(parts) == [kind |-> "list", parts |-> parts]
KeyValue(key, t) == [kind |-> "kv", key |-> key, value |-> t]

Numbers == {Integer(n) : n \in {-1, 0, 1, IntLimit, 2 * IntLimit + 1}} \cup
           {[kind |-> "decimal", n |-> 1], Percent(Integer(50)), Percent(Integer(150)),
            Percent(Word("nan"))}

Triples == {<<Integer(255), Integer(1), Integer(0)>>, <<Integer(7), Integer(5), Integer(3)>>,
            <<Word("inf"), Word("-inf"), Word("nan")>>}

Tokens == Numbers \cup {Word(w) : w \in {"on", "off", "heat", "nan", "inf", "-inf"}} \cup
          {List(p) : p \in Triples \cup {<<Integer(7), Integer(5)>>}}

(* What may stand after the name of an action. *)
ValueLists(name) ==
    IF name = "command"
    THEN LET keys == {"brightness", "rgb", "effect", "transition", "transition_length",
                      "temperature", "target_temperature", "mode"}
         IN  {<<KeyValue(k, t)>> : k \in keys, t \in Tokens} \cup
             {<<KeyValue("transition_length", t), KeyValue("transition", u)>> :
                 t, u \in {Integer(0), Integer(1), Word("on")}}
    ELSE {<<>>} \cup {<<t>> : t \in Tokens} \cup Triples

(* Whole commands: at most two members are engaged. *)
Commands(d) ==
    {[f \in engaged \cup TypesOf[d].plain |->
         IF f = "rgb" THEN <<v, Unit, Unit - v>> ELSE v] :
        engaged \in {s \in SUBSET TypesOf[d].optional : Cardinality(s) <= 2},
        v \in {0, 1}}

-----------------------------------------------------------------------------
(* What a command says: the members engaged change, the others stay. *)
Asks(fields, c) ==
    [f \in DOMAIN fields |->
        CASE f \in DOMAIN c -> c[f]
          [] f = "red" /\ "rgb" \in DOMAIN c -> c.rgb[1]
          [] f = "green" /\ "rgb" \in DOMAIN c -> c.rgb[2]
          [] f = "blue" /\ "rgb" \in DOMAIN c -> c.rgb[3]
          [] OTHER -> fields[f]]

is_on(k) == IF "state" \in DOMAIN cached[k].state THEN cached[k].state["state"] ELSE 0

Unset(members) == [f \in members |-> 0]

CliInit ==
    /\ domain \in Domains
    /\ device = [k \in Keys |-> [f \in Targets(domain) |-> 1]]
    /\ intended = device
    /\ outbox = <<>>
    /\ cached = [k \in Keys |-> [info |-> Unset(TypesOf[domain].info),
                                  state |-> Unset(TypesOf[domain].state)]]
    /\ fresh = {}
    /\ calls = 0

send_command(k, c) ==
    /\ outbox' = Append(outbox, [key |-> k, msg |-> to_message(domain, c)])
    /\ intended' = [intended EXCEPT ![k] = Asks(@, c)]
    /\ UNCHANGED <<domain, device, cached, fresh>>

(* command(c) of a handle *)
HandleCommand(k) ==
    /\ calls < MaxCommands
    /\ calls' = calls + 1
    /\ \E c \in Commands(domain) : send_command(k, c)

(* `esphome-cli <device> <domain> <id> <action> [values]`: the action sends its *)
(* message or, when a value is refused, nothing.                                *)
CliAction(k) ==
    /\ calls < MaxCommands
    /\ calls' = calls + 1
    /\ \E name \in ActionsOf(domain) : \E values \in ValueLists(name) :
           LET c == find_action(domain, name, values, is_on(k))
           IN  IF c = Bad THEN UNCHANGED <<domain, device, outbox, cached, fresh, intended>>
                          ELSE send_command(k, c)

(* The device, external. *)
DeviceApplies ==
    /\ outbox # <<>>
    /\ LET m == Head(outbox)
       IN  /\ device' = [device EXCEPT ![m.key] = Applies(domain, @, m.msg)]
           /\ fresh' = fresh \ {m.key}
    /\ outbox' = Tail(outbox)
    /\ UNCHANGED <<domain, cached, intended, calls>>

(* The device describes the entity and reports its state, and the parse         *)
(* functions fill the structures; members no command changes stay as they are.  *)
DeviceReports(k) ==
    LET filled == ParsedOf[domain]
        types == TypesOf[domain]
        changes == filled.state \cap Targets(domain)
    IN  /\ k \notin fresh
        /\ cached' = [cached EXCEPT ![k] =
               [info |-> [f \in types.info |-> IF f \in filled.info THEN 1 ELSE 0],
                state |-> [f \in types.state |->
                              IF f \in changes THEN device[k][f] ELSE 0]]]
        /\ fresh' = fresh \cup {k}
        /\ UNCHANGED <<domain, device, outbox, intended, calls>>

CliNext ==
    \/ \E k \in Keys : HandleCommand(k) \/ CliAction(k) \/ DeviceReports(k)
    \/ DeviceApplies

CliSpec == CliInit /\ [][CliNext]_cli_vars

-----------------------------------------------------------------------------
(* The messages in flight change the device into what the calls asked for:     *)
(* each member that a command engages, at the entity it names, and nothing     *)
(* else, whatever the messages before it said (to_message, has_ flags).        *)
DeviceFollows ==
    intended = FoldLeft(LAMBDA d, m : [d EXCEPT ![m.key] = Applies(domain, @, m.msg)],
                        device, outbox)

(* Once an entity has reported after the last command to it was applied, its   *)
(* handle reads back what the calls asked for, and the accessors of Info and   *)
(* State read what the device sent (entity_handles.hpp, parse_x).              *)
HandleReadsBack ==
    \A k \in fresh :
        /\ \A f \in EntityHandle(domain, <<0, 0, 0>>, 0).reads \cap TypesOf[domain].info :
               cached[k].info[f] = 1
        /\ (\A i \in DOMAIN outbox : outbox[i].key # k) =>
               \A f \in TypesOf[domain].state \cap Targets(domain) :
                  cached[k].state[f] = intended[k][f]

Fractions == {"brightness", "color_brightness", "red", "green", "blue", "white",
              "cold_white", "warm_white", "position", "tilt", "volume"}

Unsigned == {"transition_length", "flash_length", "year", "month", "day", "hour", "minute",
             "second", "epoch_seconds"}

Limited == (0..Unit) \cup {NaN}

(* Whatever was typed, no number outside of 0.0 to 1.0 is sent for a fraction *)
(* (parse_percent_or_unit, parse_rgb) and no negative one for an unsigned     *)
(* member (parse_uint).                                                       *)
ValuesLimited ==
    \A k \in Keys : \A f \in Targets(domain) :
        /\ f \in Fractions => intended[k][f] \in Limited
        /\ f \in Unsigned => intended[k][f] >= 0

(* Every fraction that is sent lies between 0.0 and 1.0, as the comment on    *)
(* parse_percent_or_unit says. Not an invariant: NaN passes (README, section  *)
(* 5).                                                                        *)
FractionsInRange ==
    \A k \in Keys : \A f \in Targets(domain) \cap Fractions : intended[k][f] \in 0..Unit
=============================================================================
