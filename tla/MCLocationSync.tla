---------------------------- MODULE MCLocationSync ----------------------------
(* A small instance of LocationSync: the provinces, in the table already, and *)
(* the cities of one of them.  The one city was there under another name, or  *)
(* is missing.                                                                *)
EXTENDS LocationSync, TLC

CONSTANTS provinces, cities, h1, h2, n1, n2

ProvincesFirst == provinces :> 1 @@ cities :> 2
CitiesBelow == provinces :> {cities} @@ cities :> {}
Row(c, n) == [code |-> c, name |-> n]
Rows == {Row(11, "old"), Row(1101, "old"), Row(1101, "new")}
Provinces == {provinces :> {Row(11, "old")} @@ cities :> c : c \in {{}, {Row(1101, "old")}}}
Replies == provinces :> {{Row(11, "old")}} @@ cities :> {{}, {Row(1101, "new")}}
\* One handler reads and starts full syncs in one process, the other starts
\* scoped ones in two.
Processes == h1 :> {n1} @@ h2 :> {n1, n2}
Reads == h1 :> {cities} @@ h2 :> {}
Syncs == h1 :> {Full} @@ h2 :> {Scoped(cities)}
=============================================================================
