---------------------------- MODULE MCSwitches ----------------------------
(* An instance of Switches for TLC: the program starts with nothing        *)
(* disabled, or with all pumps.                                            *)
EXTENDS Switches

FirstSettings == [disabled : BOOLEAN, solarDisabled : {FALSE}]
=============================================================================
