------------------------------ MODULE MCFollow ------------------------------
\* Four chains of five blocks that fork above heights 1, 2 and 3.
EXTENDS Follow

MCChains == { <<1, 2, 3, 4, 5>>, <<1, 12, 13, 14, 15>>,
              <<1, 2, 23, 24, 25>>, <<1, 2, 3, 34, 35>> }
=============================================================================
