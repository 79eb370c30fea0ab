--------------------------- MODULE EntityCommands ---------------------------
(***************************************************************************)
(* Commands: how to_message (src/model/entities/) turns the engaged members *)
(* of a command structure into a message with its has_ flags, which command *)
(* each method of an entity handle builds (entity_handles.hpp), and what    *)
(* the device makes of the message.                                         *)
(*                                                                          *)
(* A command is a function from its engaged members to values; the members  *)
(* that are no std::optional are always in it.  A message has the set of    *)
(* the has_ flags that are true and a function from the fields that were    *)
(* set to their values; every other field reads as 0.  Booleans are 0 and 1, *)
(* and a float is counted in steps of which Unit make 1.0.                  *)
(***************************************************************************)
EXTENDS EntityTypes, Integers, FiniteSets

CONSTANT Unit   \* steps that make 1.0

ASSUME UnitAssumption == Unit \in Nat \ {0}

Flagged(c, members) ==
    [has |-> members \cap DOMAIN c, value |-> [f \in members \cap DOMAIN c |-> c[f]]]

Always(c, members) == [has |-> {}, value |-> [f \in members |-> c[f]]]

(* f, and g where f says nothing. *)
With(f, g) ==
    [x \in DOMAIN f \cup DOMAIN g |-> IF x \in DOMAIN f THEN f[x] ELSE g[x]]

Both(m, n) == [has |-> m.has \cup n.has, value |-> With(m.value, n.value)]

(* Bug variant of light_to_message: color_brightness goes without its flag. *)
light_to_message_unflagged(c) ==
    LET members == DOMAIN c \ {"rgb"}
    IN  [has |-> DOMAIN c \ {"color_brightness"},
         value |-> With([f \in members |-> c[f]],
                        IF "rgb" \in DOMAIN c
                        THEN [red |-> c.rgb[1], green |-> c.rgb[2], blue |-> c.rgb[3]]
                        ELSE <<>>)]

(* One flag for the three channels. *)
light_to_message(c) ==
    Both(Flagged(c, {"state", "brightness", "color_mode", "color_brightness", "white",
                     "color_temperature", "cold_white", "warm_white",
                     "transition_length", "flash_length", "effect"}),
         IF "rgb" \in DOMAIN c
         THEN [has |-> {"rgb"},
               value |-> [red |-> c.rgb[1], green |-> c.rgb[2], blue |-> c.rgb[3]]]
         ELSE [has |-> {}, value |-> <<>>])

switch_to_message(c) == Always(c, {"state"})
cover_to_message(c) == Both(Flagged(c, {"position", "tilt"}), Always(c, {"stop"}))
fan_to_message(c) ==
    Flagged(c, {"state", "oscillating", "direction", "speed_level", "preset_mode"})
climate_to_message(c) ==
    Flagged(c, {"mode", "target_temperature", "target_temperature_low",
                "target_temperature_high", "fan_mode", "swing_mode", "custom_fan_mode",
                "preset", "custom_preset", "target_humidity"})
number_to_message(c) == Always(c, {"state"})
select_to_message(c) == Always(c, {"state"})
text_to_message(c) == Always(c, {"state"})
button_to_message(c) == Always(c, {})
lock_to_message(c) == Both(Flagged(c, {"code"}), Always(c, {"command"}))
media_player_to_message(c) ==
    Flagged(c, {"command", "volume", "media_url", "announcement"})
siren_to_message(c) == Flagged(c, {"state", "tone", "duration", "volume"})
alarm_control_panel_to_message(c) == Always(c, {"command", "code"})
date_to_message(c) == Always(c, {"year", "month", "day"})
time_to_message(c) == Always(c, {"hour", "minute", "second"})
datetime_to_message(c) == Always(c, {"epoch_seconds"})
valve_to_message(c) == Both(Flagged(c, {"position"}), Always(c, {"stop"}))
update_to_message(c) == Always(c, {"command"})

(* WaterHeaterCommandHasField *)
HasBit == [mode |-> 1, target_temperature |-> 2, target_temperature_low |-> 8,
           target_temperature_high |-> 16, on_state |-> 32, away_state |-> 64]

SumBits(members) ==
    LET bit(f) == IF f \in members THEN HasBit[f] ELSE 0
    IN  bit("mode") + bit("target_temperature") + bit("target_temperature_low")
        + bit("target_temperature_high") + bit("on_state") + bit("away_state")

(* The flags are the bits of has_fields, the two switches bits of state. *)
water_heater_to_message(c) ==
    LET on == IF "on_state" \in DOMAIN c THEN 2 * c.on_state ELSE 0
        away == IF "away_state" \in DOMAIN c THEN c.away_state ELSE 0
        plain == DOMAIN c \ {"on_state", "away_state"}
    IN  [has |-> {},
         value |-> With([f \in plain |-> c[f]],
                        [has_fields |-> SumBits(DOMAIN c), state |-> on + away])]

to_message(d, c) ==
    CASE d = "Switch" -> switch_to_message(c) [] d = "Light" -> light_to_message(c)
      [] d = "Cover" -> cover_to_message(c) [] d = "Fan" -> fan_to_message(c)
      [] d = "Climate" -> climate_to_message(c) [] d = "Number" -> number_to_message(c)
      [] d = "Select" -> select_to_message(c) [] d = "Text" -> text_to_message(c)
      [] d = "Button" -> button_to_message(c) [] d = "Lock" -> lock_to_message(c)
      [] d = "MediaPlayer" -> media_player_to_message(c)
      [] d = "Siren" -> siren_to_message(c)
      [] d = "AlarmControlPanel" -> alarm_control_panel_to_message(c)
      [] d = "Date" -> date_to_message(c) [] d = "Time" -> time_to_message(c)
      [] d = "DateTime" -> datetime_to_message(c) [] d = "Valve" -> valve_to_message(c)
      [] d = "Update" -> update_to_message(c)
      [] d = "WaterHeater" -> water_heater_to_message(c)

CommandDomains == EntityDomains \ {"BinarySensor", "Sensor", "TextSensor", "Camera",
                                   "Event", "Infrared", "RadioFrequency"}

-----------------------------------------------------------------------------
(* The device, from the fields of its messages (proto/api.proto): a field with *)
(* a has_ flag is taken when the flag is set, the others always.               *)

Channels == {"red", "green", "blue"}

(* What a command of domain d can change. *)
Targets(d) ==
    LET members == TypesOf[d].optional \cup TypesOf[d].plain
    IN  IF d = "Light" THEN (members \ {"rgb"}) \cup Channels ELSE members

BitSet(n, b) == (n \div b) % 2 = 1

water_heater_applies(fields, msg) ==
    [f \in DOMAIN fields |->
        IF ~BitSet(msg.value["has_fields"], HasBit[f]) THEN fields[f]
        ELSE CASE f = "on_state" -> (msg.value["state"] \div 2) % 2
               [] f = "away_state" -> msg.value["state"] % 2
               [] OTHER -> msg.value[f]]

Applies(d, fields, msg) ==
    IF d = "WaterHeater" THEN water_heater_applies(fields, msg)
    ELSE [f \in DOMAIN fields |->
             LET flag == IF d = "Light" /\ f \in Channels THEN "rgb" ELSE f
             IN  IF flag \in TypesOf[d].optional /\ flag \notin msg.has THEN fields[f]
                 ELSE IF f \in DOMAIN msg.value THEN msg.value[f] ELSE 0]

-----------------------------------------------------------------------------
(* The handles: the members of Info and State that have an accessor, and the   *)
(* command that each method builds, with v its argument.  Besides, command(c)  *)
(* of every handle sends any command c of its domain.                          *)

Handle(types, hidden, methods) ==
    [reads |-> (types.info \cup types.state) \ hidden, methods |-> methods]

NoMethods == <<>>

BinarySensorEntity == Handle(BinarySensorTypes, {}, NoMethods)
SensorEntity == Handle(SensorTypes, {}, NoMethods)
TextSensorEntity == Handle(TextSensorTypes, {}, NoMethods)
EventEntity == Handle(EventTypes, {}, NoMethods)
CameraEntity == Handle(CameraTypes, {}, NoMethods)
InfraredEntity == Handle(InfraredTypes, {}, NoMethods)
RadioFrequencyEntity == Handle(RadioFrequencyTypes, {}, NoMethods)

(* is_on is what the cached state says, 0 when there is none. *)
ToggleEntity(power(_), is_on) ==
    [turn_on |-> power(1), turn_off |-> power(0), toggle |-> power(1 - is_on)]

set_power(on) == [state |-> on]

SwitchEntity(v, is_on) == Handle(SwitchTypes, {}, ToggleEntity(set_power, is_on))

LightEntity(v, is_on) ==
    Handle(LightTypes, {},
           With(ToggleEntity(set_power, is_on),
                [set_brightness |-> [state |-> 1, brightness |-> v],
                 set_rgb |-> [state |-> 1, rgb |-> v]]))

FanEntity(v, is_on) ==
    Handle(FanTypes, {},
           With(ToggleEntity(set_power, is_on), [set_speed |-> [speed_level |-> v]]))

SirenEntity(v, is_on) == Handle(SirenTypes, {}, ToggleEntity(set_power, is_on))

(* 1.0 is open; stop is false by default. *)
CoverEntity(v) ==
    Handle(CoverTypes, {},
           [open |-> [position |-> Unit, stop |-> 0],
            close |-> [position |-> 0, stop |-> 0],
            stop |-> [stop |-> 1], set_position |-> [position |-> v, stop |-> 0]])

ValveEntity(v) ==
    Handle(ValveTypes, {},
           [open |-> [position |-> Unit, stop |-> 0],
            close |-> [position |-> 0, stop |-> 0], stop |-> [stop |-> 1]])

ClimateEntity(v) ==
    Handle(ClimateTypes, {},
           [set_mode |-> [mode |-> v],
            set_target_temperature |-> [target_temperature |-> v]])

NumberEntity(v) == Handle(NumberTypes, {"state"}, [set |-> [state |-> v]])
SelectEntity(v) == Handle(SelectTypes, {"state"}, [set |-> [state |-> v]])
TextEntity(v) == Handle(TextTypes, {"state"}, [set |-> [state |-> v]])
ButtonEntity(v) == Handle(ButtonTypes, {}, [press |-> <<>>])

LockCommand == [Unlock |-> 0, Lock |-> 1, Open |-> 2]

LockEntity(v) ==
    Handle(LockTypes, {"state"},
           [lock |-> [command |-> LockCommand.Lock],
            unlock |-> [command |-> LockCommand.Unlock],
            open |-> [command |-> LockCommand.Open]])

MediaPlayerCommand == [Play |-> 0, Pause |-> 1, Stop |-> 2]

MediaPlayerEntity(v) ==
    Handle(MediaPlayerTypes, {"state"},
           [play |-> [command |-> MediaPlayerCommand.Play],
            pause |-> [command |-> MediaPlayerCommand.Pause],
            stop |-> [command |-> MediaPlayerCommand.Stop],
            set_volume |-> [volume |-> v]])

AlarmControlPanelStateCommand == [Disarm |-> 0, ArmAway |-> 1, ArmHome |-> 2]

AlarmControlPanelEntity(v) ==
    LET ask(command) == [command |-> AlarmControlPanelStateCommand[command], code |-> v]
    IN  Handle(AlarmControlPanelTypes, {"state"},
               [disarm |-> ask("Disarm"), arm_away |-> ask("ArmAway"),
                arm_home |-> ask("ArmHome")])

DateEntity(v) ==
    Handle(DateTypes, {}, [set |-> [year |-> v[1], month |-> v[2], day |-> v[3]]])
TimeEntity(v) ==
    Handle(TimeTypes, {}, [set |-> [hour |-> v[1], minute |-> v[2], second |-> v[3]]])
DateTimeEntity(v) == Handle(DateTimeTypes, {}, [set |-> [epoch_seconds |-> v]])

UpdateCommand == [None |-> 0, Update |-> 1, Check |-> 2]

UpdateEntity(v) ==
    Handle(UpdateTypes, {}, [install |-> [command |-> UpdateCommand.Update],
                             check |-> [command |-> UpdateCommand.Check]])
WaterHeaterEntity(v) == Handle(WaterHeaterTypes, {"state"}, NoMethods)

EntityHandle(d, v, is_on) ==
    CASE d = "Switch" -> SwitchEntity(v, is_on) [] d = "Light" -> LightEntity(v, is_on)
      [] d = "Fan" -> FanEntity(v, is_on) [] d = "Siren" -> SirenEntity(v, is_on)
      [] d = "Cover" -> CoverEntity(v) [] d = "Valve" -> ValveEntity(v)
      [] d = "Climate" -> ClimateEntity(v) [] d = "Number" -> NumberEntity(v)
      [] d = "Select" -> SelectEntity(v) [] d = "Text" -> TextEntity(v)
      [] d = "Button" -> ButtonEntity(v) [] d = "Lock" -> LockEntity(v)
      [] d = "MediaPlayer" -> MediaPlayerEntity(v)
      [] d = "AlarmControlPanel" -> AlarmControlPanelEntity(v)
      [] d = "Date" -> DateEntity(v) [] d = "Time" -> TimeEntity(v)
      [] d = "DateTime" -> DateTimeEntity(v) [] d = "Update" -> UpdateEntity(v)
      [] d = "WaterHeater" -> WaterHeaterEntity(v)
      [] d = "BinarySensor" -> BinarySensorEntity [] d = "Sensor" -> SensorEntity
      [] d = "TextSensor" -> TextSensorEntity [] d = "Event" -> EventEntity
      [] d = "Camera" -> CameraEntity [] d = "Infrared" -> InfraredEntity
      [] d = "RadioFrequency" -> RadioFrequencyEntity
=============================================================================
