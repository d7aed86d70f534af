----------------------------- MODULE MCBoundary -----------------------------
(* Inputs for TLC: addresses at the edges of every range.                    *)
EXTENDS Boundary

IPv4(a, b, c, d) == [family |-> 4, parts |-> <<a, b, c, d>>, zone |-> FALSE]
IPv6(first, second, last, zone) ==
  [family |-> 6, parts |-> <<first, second, 0, 0, 0, 0, 0, last>>, zone |-> zone]
Mapped(address, zone) ==
  [family |-> 6, zone |-> zone,
   parts |-> <<0, 0, 0, 0, 0, 65535, address.parts[1] * 256 + address.parts[2],
               address.parts[3] * 256 + address.parts[4]>>]

Edges4 ==
  {IPv4(a, b, c, d) :
     a \in {0, 1, 10, 100, 127, 169, 172, 192, 198, 203, 223, 224, 240, 255},
     b \in {0, 15, 16, 17, 18, 19, 31, 32, 51, 63, 64, 88, 113, 126, 127, 128, 168, 254},
     c \in {0, 1, 2, 99, 100, 113}, d \in {0, 1}}

Edges6 ==
  {IPv6(first, second, last, zone) :
     first \in {0, 100, 8191, 8192, 8193, 8194, 8195, 16383, 16384, 64512, 65023, 65024,
               65152, 65215, 65216, 65280},
     second \in {0, 1, 511, 512, 3512, 3513, 4095, 4096, 65435}, last \in {0, 1},
     zone \in BOOLEAN}

Edges == Edges4 \cup Edges6 \cup {Mapped(a, z) : a \in Edges4, z \in BOOLEAN}

(* Public, local and blocked addresses of both families, and mapped ones.    *)
FewAddresses ==
  LET few == {IPv4(8, 8, 8, 8), IPv4(10, 0, 0, 1), IPv4(169, 254, 0, 1)} IN
  few \cup {Mapped(a, FALSE) : a \in few}
    \cup {IPv6(8193, 512, 1, FALSE), IPv6(8193, 512, 1, TRUE), IPv6(64512, 0, 1, FALSE),
          IPv6(65152, 0, 1, FALSE)}

Rows == [userId : {1, 2}, name : {"a", "b"}, steamId : {"none"}, isBot : BOOLEAN]
Clients == [name : {"a", "b"}, steamId : {"none", "s1", "s2"}, bot : {"yes", "no", "unknown"}]
(* parseMaps: stock maps and Workshop files.  parseWorkshopMapList: Workshop *)
(* files, and bare names.  A name of digits is the id of its map, as         *)
(* mergeServerMaps takes for granted.                                        *)
Files == [name : {"x", "y"}, category : {"Workshop"}, workshopId : {"1", "2"}]
           \cup [name : {"1"}, category : {"Workshop"}, workshopId : {"1"}]
Bare(names, category) == [name : names, category : {category}, workshopId : {"none"}]
InstalledMaps == Files \cup Bare({"x", "y"}, "stock")
ListedMaps == Files \cup Bare({"x", "y", "1"}, "Workshop")

(* Deployments with and without a public origin, an access key and a list.   *)
Site == <<"https", "relay">>
Elsewhere == <<"https", "evil">>
Wildcard == Entry(TRUE, <<"lan">>)
Exact == Entry(FALSE, <<"cs", "lan">>)
SomeDeployments ==
  [publicOrigin : {<<>>, Site, <<"null">>}, secret : {0, 1}, allowPrivate : BOOLEAN,
   allowed : SUBSET {Wildcard, Exact, Entry(FALSE, <<"8", "8", "8", "8">>)}, development : BOOLEAN]
SomeRequests ==
  [crossSite : BOOLEAN, origin : {<<>>, <<"null">>, Site, <<"http", "relay">>, Elsewhere},
   host : {"none", "relay", "evil", "garbled"}, url : {<<"http", "relay">>, <<"https", "inner">>},
   key : {0, 1, 2}]
Hosts == {<<>>, <<"lan">>, <<"cs", "lan">>, <<"a", "cs", "lan">>, <<"8", "8", "8", "8">>}

(* Up to four maps of three names, one name with three keys.                 *)
Row(name, category, id) == [name |-> name, category |-> category, workshopId |-> id]
TableRows == {Row("x", "stock", "none"), Row("x", "Workshop", "1"), Row("x", "Workshop", "2"),
              Row("y", "stock", "none"), Row("z", "Workshop", "none")}
Places(map) == CASE map.name = "y" -> 1 [] map.name = "z" -> 5
                 [] OTHER -> CASE map.workshopId = "none" -> 2 [] map.workshopId = "1" -> 3
                               [] OTHER -> 4
SomeTables == {maps \in UpTo(TableRows, 4) : \A i, j \in DOMAIN maps : maps[i] = maps[j] => i = j}
=============================================================================
