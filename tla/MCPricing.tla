----------------------------- MODULE MCPricing -----------------------------
(***************************************************************************)
(* Instances of Pricing for TLC.                                           *)
(***************************************************************************)
EXTENDS Pricing

\* The half hours around the boundaries of the tariff on a Monday, from Friday
\* afternoon on, and at the weekend.
Boundaries == {17, 18, 23, 24, 27, 28, 35, 36, 4 * 48 + 27, 4 * 48 + 35,
               4 * 48 + 47, 5 * 48 + 20, 6 * 48 + 20, 6 * 48 + 47}

\* 4297 tokens of input are one more than the reservation for 100 bytes allows.
Tokens == {0, 512, 4297, 4809}

Full(hit, miss, output) ==
    [prompt |-> hit + miss, hit |-> hit, miss |-> miss, output |-> output,
     total |-> hit + miss + output, cached |-> hit, reasoning |-> 0]

\* Reports that add up, and whatever differs from one of them in two fields.
NearlyFull ==
    UNION {{[u EXCEPT ![j] = x, ![k] = y] : x, y \in Tokens \cup {Absent, Malformed},
                                           j, k \in DOMAIN NoUsage} :
              u \in {Full(0, 4297, 512), Full(4297, 512, 0), Full(0, 512, 0), Full(512, 0, 4297)}}
=============================================================================
