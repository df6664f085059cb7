------------------------------ MODULE KeyMaps ------------------------------
(***************************************************************************)
(* The four tables of keyboard.cpp, from scan codes of set 2 to the        *)
(* characters they print.  A code that is in the table but prints nothing  *)
(* (a zero) is not in the function's domain.  Control characters and the   *)
(* two quotes go by their names.                                           *)
(***************************************************************************)
EXTENDS Naturals

(* The function with these entries, <<argument, value>>. *)
Table(entries) ==
  [code \in {entry[1] : entry \in entries} |->
     (CHOOSE entry \in entries : entry[1] = code)[2]]

LowerCase == {
  <<21, "q">>, <<26, "z">>, <<27, "s">>, <<28, "a">>, <<29, "w">>, <<33, "c">>,
  <<34, "x">>, <<35, "d">>, <<36, "e">>, <<42, "v">>, <<43, "f">>, <<44, "t">>,
  <<45, "r">>, <<49, "n">>, <<50, "b">>, <<51, "h">>, <<52, "g">>, <<53, "y">>,
  <<58, "m">>, <<59, "j">>, <<60, "u">>, <<66, "k">>, <<67, "i">>, <<68, "o">>,
  <<75, "l">>, <<77, "p">>}

UpperCase == {
  <<21, "Q">>, <<26, "Z">>, <<27, "S">>, <<28, "A">>, <<29, "W">>, <<33, "C">>,
  <<34, "X">>, <<35, "D">>, <<36, "E">>, <<42, "V">>, <<43, "F">>, <<44, "T">>,
  <<45, "R">>, <<49, "N">>, <<50, "B">>, <<51, "H">>, <<52, "G">>, <<53, "Y">>,
  <<58, "M">>, <<59, "J">>, <<60, "U">>, <<66, "K">>, <<67, "I">>, <<68, "O">>,
  <<75, "L">>, <<77, "P">>}

(* The keys that print the same with and without shift.                    *)
Unchanging == {
  <<13, "TAB">>, <<41, " ">>, <<90, "LF">>, <<102, "BS">>, <<118, "ESC">>,
  <<105, "1">>, <<107, "4">>, <<108, "7">>, <<112, "0">>, <<113, ".">>,
  <<114, "2">>, <<115, "5">>, <<116, "6">>, <<117, "8">>, <<121, "+">>,
  <<122, "3">>, <<123, "-">>, <<124, "*">>, <<125, "9">>}

PlainSign == {
  <<14, "GRAVE">>, <<22, "1">>, <<30, "2">>, <<37, "4">>, <<38, "3">>, <<46, "5">>,
  <<54, "6">>, <<61, "7">>, <<62, "8">>, <<65, ",">>, <<69, "0">>, <<70, "9">>,
  <<73, ".">>, <<74, "/">>, <<76, ";">>, <<78, "-">>, <<82, "QUOTE">>, <<84, "[">>,
  <<85, "=">>, <<91, "]">>, <<93, "\\">>}

ShiftedSign == {
  <<14, "~">>, <<22, "!">>, <<30, "@">>, <<37, "$">>, <<38, "#">>, <<46, "%">>,
  <<54, "^">>, <<61, "&">>, <<62, "*">>, <<65, "<">>, <<69, ")">>, <<70, "(">>,
  <<73, ">">>, <<74, "?">>, <<76, ":">>, <<78, "_">>, <<82, "\"">>, <<84, "{">>,
  <<85, "+">>, <<91, "}">>, <<93, "|">>}

(* How many codes the tables cover: the first three, and the fourth.       *)
PRIMARY_SIZE == 132    \* 0x84
SECONDARY_SIZE == 125  \* 0x7d

SCAN_CODE_PRIMARY_MAP == Table(LowerCase \cup PlainSign \cup Unchanging)
SHIFTED_SCAN_CODE_PRIMARY_MAP == Table(UpperCase \cup ShiftedSign \cup Unchanging)

(* Under caps lock the digit row's nine and zero have changed places.      *)
Exchanged == {<<69, "9">>, <<70, "0">>}

CAPSLOCK_SCAN_CODE_PRIMARY_MAP ==
  Table(UpperCase \cup {entry \in PlainSign : entry[1] \notin {69, 70}} \cup Exchanged
        \cup Unchanging)

SCAN_CODE_SECONDARY_MAP == Table({<<74, "/">>, <<90, "LF">>, <<113, "DEL">>})
=============================================================================
