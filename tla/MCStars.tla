------------------------------ MODULE MCStars ------------------------------
(* The table of rndtable.h, as signed char: its entry 128 is stored as -128. *)
EXTENDS Stars, Sequences

Table == <<
  91, -97, -111, -14, 100, 28, -24, -51, 87, 61, -16, 95, -43, -95, -51, -54,
  69, 24, -128, 43, 115, 97, -39, 102, 56, -37, -117, -124, -115, -28, 24, -103,
  -16, 78, -83, -59, -118, -117, -90, 79, -10, -4, -42, 105, 20, 12, 66, -91,
  -40, 124, 115, -103, 103, -118, 6, -51, -119, 90, -82, 97, -68, 77, 56, -113,
  -34, -95, -40, 123, -41, 28, 68, 103, 38, 4, -21, -56, -75, 55, -52, 75,
  -19, -91, 48, 89, 88, -17, -32, 8, -42, -127, 3, 37, -77, -35, 82, 66,
  -103, 117, -69, 90, -70, -65, 45, 26, 31, -20, -87, 74, -119, -18, 69, 107,
  -65, 37, 69, 2, -70, 119, -12, -84, -100, 26, 107, 116, -54, -41, -27, 114,
  34, 15, -57, 78, -87, 80, 17, -112, -94, -76, 84, 104, 105, -28, -45, -41,
  16, -12, 6, -42, 8, -16, 24, 121, -34, 90, -116, -103, 92, 97, -72, 10,
  -2, 28, 52, -19, 38, -113, -20, 29, -9, -62, -10, 65, 55, -74, -32, -115,
  42, 116, -112, -64, -59, 16, 105, 85, 42, -38, -44, -121, -48, -117, -36, 24,
  59, -80, 5, 117, -74, 39, -2, 60, -18, -26, 98, -100, -36, -25, 32, -78,
  -32, 109, -55, 80, 124, 116, 79, 79, -109, -97, 122, -37, -110, 79, -88, -43,
  112, 74, 0, -52, -23, -86, -46, -113, -32, 86, 51, -22, 73, -27, -112, -111,
  -116, 16, 92, -63, -63, -92, 117, -99, -74, 19, 126, -40, 24, -117, -68, -93>>

MCrndtable == [n \in 0 .. 255 |-> Table[n + 1]]
============================================================================
