------------------------------ MODULE Mc60Boot ------------------------------
(***************************************************************************)
(* The configuration states of the MC60 driver, from the first command     *)
(* after a power-up or a soft reset to CONTROL_WAIT_FOR_CONNECT, as the    *)
(* table the code builds: the command each state sends on entry and the    *)
(* lines that lead out of it.  A line is named by what the condition tests *)
(* for, an echoed command by the command.                                  *)
(***************************************************************************)

BootStates ==
    {"GPS_USART_ECHO_ON", "INIT", "AT_QBTPWR", "AT_QBTVISB", "AT_QBTGATSREG", "AT_QBTGATSL",
     "PIN_STATUS_CHECK", "ENTER_PIN", "GET_SIM_IMSI", "SIGNAL_QUALITY_CHECK",
     "REGISTRATION_CHECK", "GPRS_ATTACH_CHECK", "SMS_TEXT_MODE", "SMS_CHARACTER_SET",
     "SET_CONTEXT", "APN_USER_PASSWD_INPUT", "MULTIPLE_CONNECTIONS_OFF", "SET_MODEM_MODE",
     "USE_DNS", "SET_RECEIVE_MODE"}

(* The AT command each configuration state transmits on entry. *)
BootCommand(s) ==
    CASE s = "GPS_USART_ECHO_ON"        -> "ATE1"
      [] s = "INIT"                     -> "AT"
      [] s = "AT_QBTPWR"                -> "AT+QBTPWR"
      [] s = "AT_QBTVISB"               -> "AT+QBTVISB"
      [] s = "AT_QBTGATSREG"            -> "AT+QBTGATSREG"
      [] s = "AT_QBTGATSL"              -> "AT+QBTGATSL"
      [] s = "PIN_STATUS_CHECK"         -> "AT+CPIN?"
      [] s = "ENTER_PIN"                -> "AT+CPIN="
      [] s = "GET_SIM_IMSI"             -> "AT+CIMI"
      [] s = "SIGNAL_QUALITY_CHECK"     -> "AT+CSQ"
      [] s = "REGISTRATION_CHECK"       -> "AT+CREG?"
      [] s = "GPRS_ATTACH_CHECK"        -> "AT+CGATT?"
      [] s = "SMS_TEXT_MODE"            -> "AT+CMGF=1"
      [] s = "SMS_CHARACTER_SET"        -> "AT+CSCS"
      [] s = "SET_CONTEXT"              -> "AT+QIFGCNT=0"
      [] s = "APN_USER_PASSWD_INPUT"    -> "AT+QICSGP"
      [] s = "MULTIPLE_CONNECTIONS_OFF" -> "AT+QIMUX"
      [] s = "SET_MODEM_MODE"           -> "AT+QIMODE=0"
      [] s = "USE_DNS"                  -> "AT+QIDNSIP"
      [] s = "SET_RECEIVE_MODE"         -> "AT+QINDI=1"

Rule(from, needs, next) == [from |-> from, needs |-> needs, next |-> next]

(* The transitions of the configuration states but INIT, which counts its   *)
(* own retries: the lines that must all have been seen, and the next state. *)
(* No line completes two rules of one state, so their order does not show.  *)
BootRules ==
    {Rule("GPS_USART_ECHO_ON", {"OK"}, "INIT"),
     Rule("AT_QBTPWR", {"AT+QBTPWR", "OK"}, "AT_QBTVISB"),
     Rule("AT_QBTVISB", {"AT+QBTVISB", "OK"}, "AT_QBTGATSREG"),
     Rule("AT_QBTGATSREG", {"AT+QBTGATSREG", "OK"}, "AT_QBTGATSL"),
     Rule("AT_QBTGATSREG", {"+CME ERROR: 100"}, "PIN_STATUS_CHECK"),
     Rule("AT_QBTGATSL", {"AT+QBTGATSL", "OK"}, "PIN_STATUS_CHECK"),
     Rule("AT_QBTGATSL", {"AT+QBTGATSL", "+CME ERROR: 100"}, "PIN_STATUS_CHECK"),
     Rule("PIN_STATUS_CHECK", {"+CPIN: READY", "OK"}, "GET_SIM_IMSI"),
     Rule("PIN_STATUS_CHECK", {"+CPIN: SIM PIN", "OK"}, "ENTER_PIN"),
     Rule("PIN_STATUS_CHECK", {"ERROR"}, "PIN_STATUS_CHECK"),
     Rule("ENTER_PIN", {"AT+CPIN=", "OK"}, "PIN_STATUS_CHECK"),
     Rule("ENTER_PIN", {"ERROR"}, "PIN_STATUS_CHECK"),
     Rule("GET_SIM_IMSI", {"OK"}, "SIGNAL_QUALITY_CHECK"),
     Rule("SIGNAL_QUALITY_CHECK", {"+CSQ: 99", "OK"}, "SIGNAL_QUALITY_CHECK"),
     Rule("SIGNAL_QUALITY_CHECK", {"+CSQ: n", "OK"}, "REGISTRATION_CHECK"),
     Rule("REGISTRATION_CHECK", {"+CREG: not registered", "OK"}, "SIGNAL_QUALITY_CHECK"),
     Rule("REGISTRATION_CHECK", {"ERROR"}, "INIT"),
     Rule("REGISTRATION_CHECK", {"+CREG: registered", "OK"}, "GPRS_ATTACH_CHECK"),
     Rule("GPRS_ATTACH_CHECK", {"+CGATT: 0", "OK"}, "GPRS_ATTACH_CHECK"),
     Rule("GPRS_ATTACH_CHECK", {"+CGATT: 1", "OK"}, "SMS_TEXT_MODE"),
     Rule("SMS_TEXT_MODE", {"OK"}, "SMS_CHARACTER_SET"),
     Rule("SMS_CHARACTER_SET", {"OK"}, "SET_CONTEXT"),
     Rule("SET_CONTEXT", {"AT+QIFGCNT=0", "OK"}, "APN_USER_PASSWD_INPUT"),
     Rule("APN_USER_PASSWD_INPUT", {"AT+QICSGP", "OK"}, "MULTIPLE_CONNECTIONS_OFF"),
     Rule("APN_USER_PASSWD_INPUT", {"ERROR"}, "GPRS_RESET"),
     Rule("MULTIPLE_CONNECTIONS_OFF", {"AT+QIMUX", "OK"}, "SET_MODEM_MODE"),
     Rule("SET_MODEM_MODE", {"AT+QIMODE=0", "OK"}, "USE_DNS"),
     Rule("USE_DNS", {"AT+QIDNSIP", "OK"}, "SET_RECEIVE_MODE"),
     Rule("SET_RECEIVE_MODE", {"AT+QINDI=1", "OK"}, "CONTROL_WAIT_FOR_CONNECT")}

(* What a working modem answers to each configuration command, after the    *)
(* echo, and what it answers when it, the SIM or the network is not ready.  *)
BootAnswer(command) ==
    CASE command = "AT+CPIN?"  -> <<"+CPIN: READY", "OK">>
      [] command = "AT+CSQ"    -> <<"+CSQ: n", "OK">>
      [] command = "AT+CREG?"  -> <<"+CREG: registered", "OK">>
      [] command = "AT+CGATT?" -> <<"+CGATT: 1", "OK">>
      [] OTHER                 -> <<"OK">>

BootRefusals(command) ==
    CASE command = "AT+CPIN?"  -> {<<"+CPIN: SIM PIN", "OK">>, <<"ERROR">>}
      [] command = "AT+CSQ"    -> {<<"+CSQ: 99", "OK">>}
      [] command = "AT+CREG?"  -> {<<"+CREG: not registered", "OK">>, <<"ERROR">>}
      [] command = "AT+CGATT?" -> {<<"+CGATT: 0", "OK">>}
      [] command \in {"AT+QBTGATSREG", "AT+QBTGATSL"} -> {<<"+CME ERROR: 100">>}
      [] OTHER                 -> {<<"ERROR">>}

(* Every line the configuration states can read. *)
BootLines ==
    {BootCommand(s) : s \in BootStates} \cup
    {"OK", "ERROR", "+CME ERROR: 100", "+CPIN: READY", "+CPIN: SIM PIN",
     "+CSQ: n", "+CSQ: 99", "+CREG: registered", "+CREG: not registered",
     "+CGATT: 0", "+CGATT: 1"}
=============================================================================
