\* Two of three cards, with every model; two of the controls; the third probe finds no room
\* for its mapping.
SPECIFICATION Spec
CONSTANTS
  SNDRV_CARDS = 3
  enable = {0, 2}
  Models = {"none", "emu10k1", "rme9652", "ice1712", "uda1341", "ac97", "ca0106"}
  pcm_devs = 2
  fake_buffer = TRUE
  Controls = 2
  IoSpace = 2
INVARIANTS
  VisibleComplete
  OnlyMappingsLeft
  DevicesKnown
  LimitsPossible
