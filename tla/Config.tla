-------------------------------- MODULE Config --------------------------------
(***************************************************************************)
(* correctgps.conf: get_item_from_line of tools.cpp, which puts a line of  *)
(* the file into a map, and the settings that Ccfg::readConfigFile and     *)
(* Cdbdo::readConfigFile take from their maps.                             *)
(*                                                                         *)
(* A file is the sequence of lines that fgets returns, the rest of a line  *)
(* longer than 398 characters being a line of its own.  A value is the     *)
(* number atoi reads at its beginning, or Word if there is none.           *)
(***************************************************************************)
EXTENDS Integers, Sequences

CONSTANTS
    Word,           \* a value that does not begin with a number
    UIntRange       \* 2^32: the settings are unsigned

ASSUME WordAssumption == Word \notin Int
ASSUME UIntAssumption == UIntRange \in Nat \ {0}

\* What the two readers of the file ask for.
Readers == {"Ccfg", "Cdbdo"}

Asked(reader) ==
    IF reader = "Ccfg"
    THEN {"CARSERVER_PORT", "CARSERVER_IP", "CARSERVER_DOMAINNAME", "LOCAL_PORT",
          "MAX_CONNECTION_NUM", "LINK_TIMEOUT", "MAX_WORKER"}
    ELSE {"db_host_ip", "db_name", "db_user", "db_psw", "db_port"}

Names == UNION {Asked(reader) : reader \in Readers}

\* The others are kept as text.
Unsigned == {"CARSERVER_PORT", "MAX_CONNECTION_NUM", "LINK_TIMEOUT", "MAX_WORKER"}
Signed == {"db_port"}

Default(name) ==
    CASE name = "CARSERVER_PORT" -> 81
      [] name = "LOCAL_PORT" -> 8080
      [] name = "MAX_CONNECTION_NUM" -> 50000
      [] name = "LINK_TIMEOUT" -> 30
      [] name = "MAX_WORKER" -> 1
      [] name = "db_port" -> 3306
      [] OTHER -> Word

\* "skip": nothing but blanks, or # in front; "bare": no = in it; "item": a
\* name, which may be one that nobody asks for, and a value.
LineKinds == {"skip", "bare", "item"}

Line == [kind : LineKinds, name : STRING, value : Int \union {Word}]

NoItems == [k \in {} |-> Word]

\* Seeded defect: operator[] instead of insert, the last value counts.
get_item_from_lineLast(kvmap, line) ==
    IF line.kind = "item"
    THEN [k \in DOMAIN kvmap \union {line.name} |->
             IF k = line.name THEN line.value ELSE kvmap[k]]
    ELSE kvmap

\* map::insert keeps the value that is there.
get_item_from_line(kvmap, line) ==
    IF line.kind = "item"
    THEN [k \in DOMAIN kvmap \union {line.name} |->
             IF k \in DOMAIN kvmap THEN kvmap[k] ELSE line.value]
    ELSE kvmap

atoi(value) == IF value = Word THEN 0 ELSE value

Taken(name, value) ==
    CASE name \in Unsigned -> atoi(value) % UIntRange
      [] name \in Signed -> atoi(value)
      [] OTHER -> value

Setting(kvmap, name) ==
    IF name \in DOMAIN kvmap THEN Taken(name, kvmap[name]) ELSE Default(name)

(***************************************************************************)
(* The reference: a setting is what the first line of its name says.       *)
(***************************************************************************)
SaysFirst(file, l, name) ==
    /\ file[l].kind = "item" /\ file[l].name = name
    /\ \A j \in 1..(l - 1) : file[j].kind = "item" => file[j].name # name

Written(file, name) ==
    {Taken(name, file[l].value) : l \in {j \in 1..Len(file) : SaysFirst(file, j, name)}}
=============================================================================
