---------------------------- MODULE MCMc60Modem -----------------------------
EXTENDS Mc60Modem
MCAllCalls == {"disconnect", "power off", "power on", "sms"}
MCNoCalls == {}
MCDisconnect == {"disconnect"}
MCPowerOff == {"power off"}
=============================================================================
