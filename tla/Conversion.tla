----------------------------- MODULE Conversion -----------------------------
(***************************************************************************)
(* Conversion of lists (util-gitfan/conversion.hxx).  A list of positive   *)
(* numbers, in ascending order, has a hexadecimal name in which bit i is   *)
(* set for the number i: it names cones in the storages, in the result     *)
(* and in file names.  A string is the sequence of its digits.             *)
(***************************************************************************)
EXTENDS Integers, SequencesExt

\* operator<< of a number below 16 with std::hex.
HexDigit == <<"0", "1", "2", "3", "4", "5", "6", "7",
              "8", "9", "a", "b", "c", "d", "e", "f">>

divru(a, b) == (a + b - 1) \div b

\* The last element exceeds maxValue: std::invalid_argument.
OutOfRange(l, maxValue) == l # <<>> /\ l[Len(l)] > maxValue

\* The elements of the block of four numbers, and its value.
InBlock(l, blockNumber) ==
  SelectSeq(l, LAMBDA v : (blockNumber - 1) * 4 < v /\ v <= blockNumber * 4)
blockValue(l, blockNumber) ==
  FoldLeft(LAMBDA sum, v : sum + <<1, 2, 4, 8>>[v - (blockNumber - 1) * 4],
           0, InBlock(l, blockNumber))

\* Fault: a last block that is not full is left out.
listToHexStringCut(l, maxValue) ==
  LET number_of_blocks == maxValue \div 4
  IN  [i \in 1..number_of_blocks |->
         HexDigit[blockValue(l, number_of_blocks + 1 - i) + 1]]

\* The highest block comes first.
listToHexString(l, maxValue) ==
  LET number_of_blocks == divru(maxValue, 4)
  IN  [i \in 1..number_of_blocks |->
         HexDigit[blockValue(l, number_of_blocks + 1 - i) + 1]]

\* What the switch of hexStringToList() inserts for a digit.
Inserted ==
  [f |-> <<1, 2, 3, 4>>, e |-> <<2, 3, 4>>, c |-> <<3, 4>>, d |-> <<1, 3, 4>>,
   b |-> <<1, 2, 4>>, a |-> <<2, 4>>] @@
  ("8" :> <<4>>) @@ ("7" :> <<1, 2, 3>>) @@ ("6" :> <<2, 3>>) @@
  ("4" :> <<3>>) @@ ("9" :> <<1, 4>>) @@ ("5" :> <<1, 3>>) @@
  ("3" :> <<1, 2>>) @@ ("2" :> <<2>>) @@ ("1" :> <<1>>) @@ ("0" :> <<>>)

\* The last digit comes first; each adds four to the base.
hexStringToList(hexString) ==
  LET digits == Reverse(hexString)
      at(i) == [j \in DOMAIN Inserted[digits[i]] |->
                  4 * (i - 1) + Inserted[digits[i]][j]]
  IN  FlattenSeq([i \in DOMAIN digits |-> at(i)])

\* bin/expand_orbits.cpp prints the names of the cones in the orbit of each
\* representative, as long as the name of the representative, and how many
\* there are.  computeOrbit[l] is what Singular returns for a list l.
expand_orbits(hashStrings, computeOrbit) ==
  LET expanded(hashString) ==
        LET orbit == computeOrbit[hexStringToList(hashString)]
        IN  [i \in DOMAIN orbit |->
               listToHexString(orbit[i], 4 * Len(hashString))]
      printed == [n \in DOMAIN hashStrings |-> expanded(hashStrings[n])]
  IN  [printed |-> printed, orbitCount |-> Len(hashStrings),
       coneCount |-> Len(FlattenSeq(printed))]

-----------------------------------------------------------------------------
(* Lists of lists of numbers, such as faces, as objects of Singular *)

createIntvec(l) == [rtyp |-> "INTVEC_CMD", data |-> l]

\* A list of lists of numbers; each of these is an intvec, or a list of ints.
toSingularList(l, lastLayerAsIntvec) ==
  LET ints(k) == [rtyp |-> "LIST_CMD",
                  data |-> [i \in DOMAIN k |-> [rtyp |-> "INT_CMD",
                                                data |-> k[i]]]]
  IN  [i \in DOMAIN l |-> IF lastLayerAsIntvec THEN createIntvec(l[i])
                          ELSE ints(l[i])]

\* Back again, layer by layer.
insertSingularObj(obj) ==
  CASE obj.rtyp = "INTVEC_CMD" -> obj.data
    [] obj.rtyp = "LIST_CMD" -> [i \in DOMAIN obj.data |-> obj.data[i].data]
toList(singularList) ==
  [i \in DOMAIN singularList |-> insertSingularObj(singularList[i])]
=============================================================================
