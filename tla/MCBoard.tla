------------------------------ MODULE MCBoard -------------------------------
EXTENDS Board

MCThresholds == {0, 2, 4}

MCCali ==
  [op : {"mode"}, x : 0 .. 1] \cup [op : {"cdac", "save"}, x : {2}]
    \cup [op : {"amp"}, hp : {TRUE}] \cup [op : {"load", "temp", "restore"}]

MCPower ==
  {[op |-> "charge", cali |-> c, cmd |-> IF c THEN 3 ELSE n] : c \in BOOLEAN, n \in {1, 2}}
    \cup [op : {"current"}, x : {1, 2}]
    \cup [op : {"regulator"}, x : {1000}] \cup [op : {"gpio"}, dir : 0 .. 2, x : {1}]
    \cup [op : {"mean", "ntc", "capacity", "typec", "getprop"}] \cup [op : {"setprop"}, x : {1}]
    \cup [op : {"reboot"}, to : Targets, framed : {FALSE}]
    \cup [op : {"reboot"}, to : {"short"}, framed : {TRUE}]
    \cup [op : {"dload", "recovery", "off", "bootreset", "sleep"}]

MCLevels == {-1, 2}
=============================================================================
