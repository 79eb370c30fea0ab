---------------------------- MODULE MCSubsystems ----------------------------
(* Programs that use two methods of a manager, in any order, or all methods of *)
(* the modem lines.                                                            *)
EXTENDS Subsystems

Voice == {"VoiceAssistant_subscribe", "VoiceAssistant_on_event", "VoiceAssistant_on_audio",
          "VoiceAssistant_on_announce_finished", "VoiceAssistant_request_configuration",
          "VoiceAssistant_on_timer_event", "VoiceAssistant_send_response",
          "VoiceAssistant_send_audio", "VoiceAssistant_announce",
          "VoiceAssistant_set_configuration"}

Scanner == {"BluetoothProxy_subscribe_advertisements", "BluetoothProxy_on_raw_advertisements",
            "BluetoothProxy_on_scanner_state", "BluetoothProxy_on_connection",
            "BluetoothProxy_on_connections_free", "BluetoothProxy_unsubscribe_advertisements",
            "BluetoothProxy_set_scanner_mode", "BluetoothProxy_request_connection",
            "BluetoothProxy_request_uncached", "BluetoothProxy_disconnect",
            "BluetoothProxy_subscribe_connections_free"}

Streams == {"LogStream_subscribe", "ZWaveProxy_on_frame", "ZWaveProxy_send_frame",
            "ZWaveProxy_request", "HomeAssistantServices_on_service",
            "HomeAssistantServices_execute"}

SerialData == {"SerialProxy_on_data", "SerialProxy_on_data_of",
               "SerialProxy_on_request_response", "SerialProxy_request",
               "SerialProxy_configure", "SerialProxy_write"}

SerialPins == {"SerialProxy_on_modem_pins", "SerialProxy_get_modem_pins",
               "SerialProxy_set_modem_pins"}

Pairs(methods) == {{m, n} : m, n \in methods}

SomePrograms ==
    Pairs(Voice) \cup Pairs(Scanner) \cup Pairs(Streams) \cup Pairs(SerialData) \cup
    {SerialPins}
=============================================================================
