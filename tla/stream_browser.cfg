\* One browser on one run.
CONSTANTS
  Task = task
  Calls = {}
  Remote = {}
  Readers = {}
  Browsers = {browser}
  MaxDrops = 0
SPECIFICATION FairSpec
PROPERTIES BrowsersSeeTheTimeline
