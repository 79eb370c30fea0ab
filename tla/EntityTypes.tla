----------------------------- MODULE EntityTypes -----------------------------
(***************************************************************************)
(* The entity domains: the members of their Info, State and Command         *)
(* structures (include/esphome/api/model/entities/) and the members that    *)
(* the parse functions fill from a message (src/model/entities/).  A member *)
(* that is not filled keeps its default.                                     *)
(***************************************************************************)

Types(info, state, optional, plain) ==
    [info |-> info, state |-> state, optional |-> optional, plain |-> plain]

Copies(info, state) == [info |-> info, state |-> state]

(* binary_sensor.hpp, binary_sensor.cpp *)
BinarySensorTypes == Types(
    {"device_class", "is_status_binary_sensor"}, {"state", "missing_state"}, {}, {})
parse_binary_sensor == Copies(
    {"device_class", "is_status_binary_sensor"}, {"state", "missing_state"})

(* sensor.hpp, sensor.cpp *)
SensorTypes == Types(
    {"unit_of_measurement", "accuracy_decimals", "force_update", "device_class",
     "state_class"},
    {"state", "missing_state"}, {}, {})
parse_sensor == Copies(
    {"unit_of_measurement", "accuracy_decimals", "force_update", "device_class",
     "state_class"},
    {"state", "missing_state"})

(* text_sensor.hpp, text_sensor.cpp *)
TextSensorTypes == Types({"device_class"}, {"state", "missing_state"}, {}, {})
parse_text_sensor == Copies({"device_class"}, {"state", "missing_state"})

(* switch.hpp, switch.cpp *)
SwitchTypes == Types({"assumed_state", "device_class"}, {"state"}, {}, {"state"})
parse_switch == Copies({"assumed_state", "device_class"}, {"state"})

(* light.hpp, light.cpp *)
LightTypes == Types(
    {"supported_color_modes", "min_mireds", "max_mireds", "effects"},
    {"state", "brightness", "color_mode", "color_brightness", "red", "green", "blue",
     "white", "color_temperature", "cold_white", "warm_white", "effect"},
    {"state", "brightness", "color_mode", "color_brightness", "rgb", "white",
     "color_temperature", "cold_white", "warm_white", "transition_length",
     "flash_length", "effect"},
    {})
(* Bug variant of parse_light: the effect is not read. *)
parse_light_no_effect == Copies(
    {"supported_color_modes", "min_mireds", "max_mireds", "effects"},
    {"state", "brightness", "color_mode", "color_brightness", "red", "green", "blue",
     "white", "color_temperature", "cold_white", "warm_white"})
parse_light == Copies(
    {"supported_color_modes", "min_mireds", "max_mireds", "effects"},
    {"state", "brightness", "color_mode", "color_brightness", "red", "green", "blue",
     "white", "color_temperature", "cold_white", "warm_white", "effect"})

(* cover.hpp, cover.cpp *)
CoverTypes == Types(
    {"assumed_state", "supports_position", "supports_tilt", "device_class",
     "supports_stop"},
    {"position", "tilt", "current_operation"}, {"position", "tilt"}, {"stop"})
parse_cover == Copies(
    {"assumed_state", "supports_position", "supports_tilt", "device_class",
     "supports_stop"},
    {"position", "tilt", "current_operation"})

(* fan.hpp, fan.cpp *)
FanTypes == Types(
    {"supports_oscillation", "supports_speed", "supports_direction",
     "supported_speed_count", "supported_preset_modes"},
    {"state", "oscillating", "direction", "speed_level", "preset_mode"},
    {"state", "oscillating", "direction", "speed_level", "preset_mode"}, {})
parse_fan == Copies(
    {"supports_oscillation", "supports_speed", "supports_direction",
     "supported_speed_count", "supported_preset_modes"},
    {"state", "oscillating", "direction", "speed_level", "preset_mode"})

(* climate.hpp, climate.cpp *)
ClimateTypes == Types(
    {"supported_modes", "visual_min_temperature", "visual_max_temperature",
     "visual_target_temperature_step", "supported_fan_modes", "supported_swing_modes",
     "supported_custom_fan_modes", "supported_presets", "supported_custom_presets",
     "visual_current_temperature_step", "visual_min_humidity", "visual_max_humidity",
     "feature_flags", "temperature_unit"},
    {"mode", "current_temperature", "target_temperature", "target_temperature_low",
     "target_temperature_high", "action", "fan_mode", "swing_mode", "custom_fan_mode",
     "preset", "custom_preset", "current_humidity", "target_humidity"},
    {"mode", "target_temperature", "target_temperature_low",
     "target_temperature_high", "fan_mode", "swing_mode", "custom_fan_mode", "preset",
     "custom_preset", "target_humidity"},
    {})
parse_climate == Copies(
    {"supported_modes", "visual_min_temperature", "visual_max_temperature",
     "visual_target_temperature_step", "supported_fan_modes", "supported_swing_modes",
     "supported_custom_fan_modes", "supported_presets", "supported_custom_presets",
     "visual_current_temperature_step", "visual_min_humidity", "visual_max_humidity",
     "feature_flags", "temperature_unit"},
    {"mode", "current_temperature", "target_temperature", "target_temperature_low",
     "target_temperature_high", "action", "fan_mode", "swing_mode", "custom_fan_mode",
     "preset", "custom_preset", "current_humidity", "target_humidity"})

(* number.hpp, number.cpp *)
NumberTypes == Types(
    {"min_value", "max_value", "step", "unit_of_measurement", "mode", "device_class"},
    {"state", "missing_state"}, {}, {"state"})
parse_number == Copies(
    {"min_value", "max_value", "step", "unit_of_measurement", "mode", "device_class"},
    {"state", "missing_state"})

(* select.hpp, select.cpp *)
SelectTypes == Types({"options"}, {"state", "missing_state"}, {}, {"state"})
parse_select == Copies({"options"}, {"state", "missing_state"})

(* text.hpp, text.cpp *)
TextTypes == Types(
    {"min_length", "max_length", "pattern", "mode"}, {"state", "missing_state"}, {},
    {"state"})
parse_text == Copies(
    {"min_length", "max_length", "pattern", "mode"}, {"state", "missing_state"})

(* button.hpp, button.cpp *)
ButtonTypes == Types({"device_class"}, {}, {}, {})
parse_button == Copies({"device_class"}, {})

(* lock.hpp, lock.cpp *)
LockTypes == Types(
    {"assumed_state", "supports_open", "requires_code", "code_format"}, {"state"},
    {"code"}, {"command"})
parse_lock == Copies(
    {"assumed_state", "supports_open", "requires_code", "code_format"}, {"state"})

(* media_player.hpp, media_player.cpp *)
MediaPlayerTypes == Types(
    {"supports_pause", "supported_formats"}, {"state", "volume", "muted"},
    {"command", "volume", "media_url", "announcement"}, {})
parse_media_player == Copies(
    {"supports_pause", "supported_formats"}, {"state", "volume", "muted"})

(* camera.hpp, camera.cpp *)
CameraTypes == Types({}, {}, {}, {})
parse_camera == Copies({}, {})

(* siren.hpp, siren.cpp *)
SirenTypes == Types(
    {"tones", "supports_duration", "supports_volume"}, {"state"},
    {"state", "tone", "duration", "volume"}, {})
parse_siren == Copies({"tones", "supports_duration", "supports_volume"}, {"state"})

(* alarm_control_panel.hpp, alarm_control_panel.cpp *)
AlarmControlPanelTypes == Types(
    {"supported_features", "requires_code", "requires_code_to_arm"}, {"state"}, {},
    {"command", "code"})
parse_alarm_control_panel == Copies(
    {"supported_features", "requires_code", "requires_code_to_arm"}, {"state"})

(* date.hpp, date.cpp *)
DateTypes == Types(
    {}, {"missing_state", "year", "month", "day"}, {}, {"year", "month", "day"})
parse_date == Copies({}, {"missing_state", "year", "month", "day"})

(* time.hpp, time.cpp *)
TimeTypes == Types(
    {}, {"missing_state", "hour", "minute", "second"}, {},
    {"hour", "minute", "second"})
parse_time == Copies({}, {"missing_state", "hour", "minute", "second"})

(* datetime.hpp, datetime.cpp *)
DateTimeTypes == Types({}, {"missing_state", "epoch_seconds"}, {}, {"epoch_seconds"})
parse_datetime == Copies({}, {"missing_state", "epoch_seconds"})

(* valve.hpp, valve.cpp *)
ValveTypes == Types(
    {"device_class", "assumed_state", "supports_position", "supports_stop"},
    {"position", "current_operation"}, {"position"}, {"stop"})
parse_valve == Copies(
    {"device_class", "assumed_state", "supports_position", "supports_stop"},
    {"position", "current_operation"})

(* event.hpp, event.cpp *)
EventTypes == Types({"device_class", "event_types"}, {"event_type"}, {}, {})
parse_event == Copies({"device_class", "event_types"}, {"event_type"})

(* update.hpp, update.cpp *)
UpdateTypes == Types(
    {"device_class"},
    {"missing_state", "in_progress", "has_progress", "progress", "current_version",
     "latest_version", "title", "release_summary", "release_url"},
    {}, {"command"})
parse_update == Copies(
    {"device_class"},
    {"missing_state", "in_progress", "has_progress", "progress", "current_version",
     "latest_version", "title", "release_summary", "release_url"})

(* water_heater.hpp, water_heater.cpp *)
WaterHeaterTypes == Types(
    {"min_temperature", "max_temperature", "target_temperature_step",
     "supported_modes", "supported_features", "temperature_unit"},
    {"current_temperature", "target_temperature", "mode", "state",
     "target_temperature_low", "target_temperature_high"},
    {"mode", "target_temperature", "target_temperature_low",
     "target_temperature_high", "on_state", "away_state"},
    {})
parse_water_heater == Copies(
    {"min_temperature", "max_temperature", "target_temperature_step",
     "supported_modes", "supported_features", "temperature_unit"},
    {"current_temperature", "target_temperature", "mode", "state",
     "target_temperature_low", "target_temperature_high"})

(* infrared.hpp, infrared.cpp *)
InfraredTypes == Types({"capabilities", "receiver_frequency"}, {}, {}, {})
parse_infrared == Copies({"capabilities", "receiver_frequency"}, {})

(* radio_frequency.hpp, radio_frequency.cpp *)
RadioFrequencyTypes == Types(
    {"capabilities", "frequency_min", "frequency_max", "supported_modulations"}, {},
    {}, {})
parse_radio_frequency == Copies(
    {"capabilities", "frequency_min", "frequency_max", "supported_modulations"}, {})
-----------------------------------------------------------------------------
TypesOf ==
    [BinarySensor |-> BinarySensorTypes, Sensor |-> SensorTypes,
     TextSensor |-> TextSensorTypes, Switch |-> SwitchTypes, Light |-> LightTypes,
     Cover |-> CoverTypes, Fan |-> FanTypes, Climate |-> ClimateTypes,
     Number |-> NumberTypes, Select |-> SelectTypes, Text |-> TextTypes,
     Button |-> ButtonTypes, Lock |-> LockTypes, MediaPlayer |-> MediaPlayerTypes,
     Camera |-> CameraTypes, Siren |-> SirenTypes,
     AlarmControlPanel |-> AlarmControlPanelTypes, Date |-> DateTypes,
     Time |-> TimeTypes, DateTime |-> DateTimeTypes, Valve |-> ValveTypes,
     Event |-> EventTypes, Update |-> UpdateTypes, WaterHeater |-> WaterHeaterTypes,
     Infrared |-> InfraredTypes, RadioFrequency |-> RadioFrequencyTypes]

ParsedOf ==
    [BinarySensor |-> parse_binary_sensor, Sensor |-> parse_sensor,
     TextSensor |-> parse_text_sensor, Switch |-> parse_switch, Light |-> parse_light,
     Cover |-> parse_cover, Fan |-> parse_fan, Climate |-> parse_climate,
     Number |-> parse_number, Select |-> parse_select, Text |-> parse_text,
     Button |-> parse_button, Lock |-> parse_lock, MediaPlayer |-> parse_media_player,
     Camera |-> parse_camera, Siren |-> parse_siren,
     AlarmControlPanel |-> parse_alarm_control_panel, Date |-> parse_date,
     Time |-> parse_time, DateTime |-> parse_datetime, Valve |-> parse_valve,
     Event |-> parse_event, Update |-> parse_update,
     WaterHeater |-> parse_water_heater, Infrared |-> parse_infrared,
     RadioFrequency |-> parse_radio_frequency]

EntityDomains == DOMAIN TypesOf
=============================================================================
