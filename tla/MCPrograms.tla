----------------------------- MODULE MCPrograms -----------------------------
(***************************************************************************)
(* The small programs around the telescope, each by itself: they share     *)
(* nothing but the control system's data, which each module has as its     *)
(* environment.  A behaviour is one program's: unit says whose, and the    *)
(* variables of the others stay as they began.                             *)
(***************************************************************************)
EXTENDS Sequences, SingleInstance, NetPace, QuickSelect, Rotator, MirTemp,
        HeaderFile, MoveP2, JsonServer, Stellarium, Precip, ShmBlock, DatFile

VARIABLE unit

(* Names one letter and two long; pieces with one and two words, with and  *)
(* without a delimiter; a buffer of zeros, and one of something.           *)
JsonNames == {<<"v">>, <<"m", "o">>}
JsonPieces == {<<"v", " ">>, <<"m", "o", " ">>, <<"v", " ", "m", "o", " ">>,
               <<"m", "o", " ", "v", " ">>, <<"m">>, <<"o", " ">>, <<"v">>,
               <<"G">>, <<"W">>, <<"Q", "v", "&", "m", "o", " ">>,
               <<"Q", "v", " ">>, <<"W", " ", "v", " ">>}
JsonChars == {"v", "m", "o", " ", "&", "0", "G", "Q", "W"}
JsonGarbage == {[i \in 1 .. 6 |-> c] : c \in {"0", "o"}}

(* Tables with one column before the coefficients, and with two, one of    *)
(* them with a long name; five pieces of text, with and without the end of *)
(* a line; and files that hold a header alone.                             *)
DatHeads == {<<"time", "sp", "piston", "nl">>,
             <<"time", "sp", "word", "word", "sp", "piston", "sp", "nl">>}
DatWords == {<<"num", "sp">>, <<"num", "nl">>, <<"nl">>, <<"word">>, <<>>}
DatEnds == {<<"num">>, <<"num", "nl">>, <<"num", "sp">>, <<>>}
DatFiles ==
  {<<"time", "nl">>, <<"piston", "nl">>, <<"time", "piston", "nl">>} \cup
  {head \o a \o b \o c \o d \o ends :
     head \in DatHeads, a, b, c \in DatWords,
     d \in DatWords \cup {<<"sp">>}, ends \in DatEnds}

programs_vars ==
  <<unit, temp_vars, header_vars, rotator_vars, p2_vars, json_vars,
    stell_vars, rain_vars, pace_vars, select_vars, dat_vars, shm_vars,
    vars>>

(* A program that is not the one of the behaviour begins in one of its     *)
(* initial states.                                                         *)
ProgramsInit ==
  /\ unit \in {"MirTemp", "HeaderFile", "Rotator", "MoveP2", "JsonServer",
       "Stellarium", "Precip", "NetPace", "QuickSelect", "DatFile",
       "ShmBlock", "SingleInstance"}
  /\ TempInit
  /\ HeaderInit
  /\ RotatorInit /\ (unit # "Rotator" => place = 0)
  /\ P2Init /\ (unit # "MoveP2" => gotopos = 1 /\ relmove = 0 /\ val_P = 0)
  /\ JsonInit /\ (unit # "JsonServer" => buffer[1] = "0")
  /\ StellInit
  /\ RainInit /\ (unit # "Precip" => M_time = 0 /\ observing)
  /\ PaceInit
  /\ SelectInit /\ (unit # "QuickSelect" => n = 1 /\ idata[0] = 1)
  /\ DatInit /\ (unit # "DatFile" => file = <<"time", "nl">>)
  /\ ShmInit
  /\ Init /\ (unit # "SingleInstance" => pidfile = NoPid)

MirTempOnly ==
  UNCHANGED <<unit, header_vars, rotator_vars, p2_vars, json_vars,
    stell_vars, rain_vars, pace_vars, select_vars, dat_vars,
    shm_vars, vars>>
HeaderFileOnly ==
  UNCHANGED <<unit, temp_vars, rotator_vars, p2_vars, json_vars, stell_vars,
    rain_vars, pace_vars, select_vars, dat_vars, shm_vars, vars>>
RotatorOnly ==
  UNCHANGED <<unit, temp_vars, header_vars, p2_vars, json_vars, stell_vars,
    rain_vars, pace_vars, select_vars, dat_vars, shm_vars, vars>>
MoveP2Only ==
  UNCHANGED <<unit, temp_vars, header_vars, rotator_vars, json_vars,
    stell_vars, rain_vars, pace_vars, select_vars, dat_vars,
    shm_vars, vars>>
JsonServerOnly ==
  UNCHANGED <<unit, temp_vars, header_vars, rotator_vars, p2_vars,
    stell_vars, rain_vars, pace_vars, select_vars, dat_vars,
    shm_vars, vars>>
StellariumOnly ==
  UNCHANGED <<unit, temp_vars, header_vars, rotator_vars, p2_vars,
    json_vars, rain_vars, pace_vars, select_vars, dat_vars,
    shm_vars, vars>>
PrecipOnly ==
  UNCHANGED <<unit, temp_vars, header_vars, rotator_vars, p2_vars,
    json_vars, stell_vars, pace_vars, select_vars, dat_vars,
    shm_vars, vars>>
NetPaceOnly ==
  UNCHANGED <<unit, temp_vars, header_vars, rotator_vars, p2_vars,
    json_vars, stell_vars, rain_vars, select_vars, dat_vars,
    shm_vars, vars>>
QuickSelectOnly ==
  UNCHANGED <<unit, temp_vars, header_vars, rotator_vars, p2_vars,
    json_vars, stell_vars, rain_vars, pace_vars, dat_vars,
    shm_vars, vars>>
DatOnly ==
  UNCHANGED <<unit, temp_vars, header_vars, rotator_vars, p2_vars,
    json_vars, stell_vars, rain_vars, pace_vars, select_vars,
    shm_vars, vars>>
ShmBlockOnly ==
  UNCHANGED <<unit, temp_vars, header_vars, rotator_vars, p2_vars,
    json_vars, stell_vars, rain_vars, pace_vars, select_vars,
    dat_vars, vars>>
SingleInstanceOnly ==
  UNCHANGED <<unit, temp_vars, header_vars, rotator_vars, p2_vars,
    json_vars, stell_vars, rain_vars, pace_vars, select_vars,
    dat_vars, shm_vars>>

ProgramsNext ==
  \/ unit = "MirTemp" /\ TempNext /\ MirTempOnly
  \/ unit = "HeaderFile" /\ HeaderNext /\ HeaderFileOnly
  \/ unit = "Rotator" /\ RotatorNext /\ RotatorOnly
  \/ unit = "MoveP2" /\ P2Next /\ MoveP2Only
  \/ unit = "JsonServer" /\ JsonNext /\ JsonServerOnly
  \/ unit = "Stellarium" /\ StellNext /\ StellariumOnly
  \/ unit = "Precip" /\ RainNext /\ PrecipOnly
  \/ unit = "NetPace" /\ PaceNext /\ NetPaceOnly
  \/ unit = "QuickSelect" /\ SelectNext /\ QuickSelectOnly
  \/ unit = "DatFile" /\ DatNext /\ DatOnly
  \/ unit = "ShmBlock" /\ ShmNext /\ ShmBlockOnly
  \/ unit = "SingleInstance" /\ Next /\ SingleInstanceOnly

ProgramsSpec == ProgramsInit /\ [][ProgramsNext]_programs_vars

(* The fairness of each program.                                           *)
FairPrograms ==
  /\ ProgramsSpec
  /\ WF_programs_vars(unit = "MirTemp" /\ DeathSignal /\ MirTempOnly)
  /\ WF_programs_vars(unit = "HeaderFile" /\ ChildSteps /\ HeaderFileOnly)
  /\ WF_programs_vars(unit = "HeaderFile" /\ MasterSteps /\ HeaderFileOnly)
  /\ WF_programs_vars(unit = "Rotator" /\ Step /\ RotatorOnly)
  /\ WF_programs_vars(unit = "Rotator" /\ RotatorTick /\ RotatorOnly)
  /\ WF_programs_vars(unit = "QuickSelect" /\ SelectNext /\ QuickSelectOnly)

-----------------------------------------------------------------------------
(* Properties: those of the modules, for the program of the behaviour.     *)

(* Every variable has its type.                                            *)
TypesOK ==
  /\ TempTypeOK
  /\ HeaderTypeOK
  /\ RotatorTypeOK
  /\ P2TypeOK
  /\ JsonTypeOK
  /\ StellTypeOK
  /\ RainTypeOK
  /\ PaceTypeOK
  /\ SelectTypeOK
  /\ DatTypeOK
  /\ ShmTypeOK
  /\ TypeOK

(* QuickSelect: the median is returned.                                    *)
SelectReturnsMedian == (unit = "QuickSelect") => ReturnsMedian

(* HeaderFile: the header comes back whatever happened.                    *)
HdrComesBack == (unit = "HeaderFile") => HeaderComesBack
=============================================================================
