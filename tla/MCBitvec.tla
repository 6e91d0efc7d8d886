------------------------------- MODULE MCBitvec -------------------------------
(* A small instance of Bitvec for TLC. *)
EXTENDS Bitvec

\* The bits of a vector: each the vector's own input, or a constant.
Mixed(own) == [DOMAIN own -> {0, 1, 2}]
Bits(own) ==
  {[j \in DOMAIN own |-> CASE f[j] = 0 -> LITERAL_FALSE [] f[j] = 1 -> LITERAL_TRUE
                         [] f[j] = 2 -> own[j]] : f \in Mixed(own)}

\* Three bits, one of the two vectors symbolic and the other mixed.
Threes == {<<<<1, 2, 3>>, v>> : v \in Bits(<<4, 1, -2>>)}
            \cup {<<v, <<1, 2, 3>>>> : v \in Bits(<<4, 1, -2>>)}
\* Two bits, independent, shared, complementary and constant.
Twos == {<<<<1, a>>, <<b, c>>>> :
           a \in {2, -1, LITERAL_TRUE}, b, c \in {-1, 2, 3, LITERAL_FALSE}}
\* Values of four, two and one bits, and distances.
Distances == {<<<<1, 2, -1, -2>>, d>> : d \in Bits(<<2, 3, 4>>)}
               \cup {<<<<1, 2>>, <<3>>>>, <<<<1>>, <<2, 3>>>>, <<<<1>>, <<-1>>>>}
\* One vector, and two calls.
Alone == {<<<<1, -2, 3>>>>}
Starts == Threes \cup Twos \cup Distances \cup Alone

=============================================================================
