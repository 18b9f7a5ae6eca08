------------------------------ MODULE MCCodecs ------------------------------
EXTENDS Codecs

MCSizes  == {0, 1, 4, 5}
MCPieces == 0..17
MCBytes  == {0, 1, 63, 128, 170, 255}
MCNames  == {"/", ".", "..", "a", "b"}

MCFields == {
  <<<<"num", 1>>, 7>>, <<<<"num", 2>>, 0>>,
  <<<<"str">>, <<>>>>, <<<<"str">>, <<8, 9>>>>,
  <<<<"cstr">>, <<5>>>>, <<<<"null", 1>>, <<>>>>,
  <<<<"vec", 2>>, <<>>>>, <<<<"vec", 2>>, <<3, 4>>>>,
  <<<<"sub", <<<<"str">>, <<"num", 1>>>>>>, <<<<6>>, 2>>>>,
  <<<<"arr", 2, <<<<"str">>>>>>, <<<<<<1>>>>, <<<<>>>>>>>>,
  <<<<"vsub", <<<<"num", 1>>>>>>, <<<<1>>, <<2>>>>>> }
=============================================================================
