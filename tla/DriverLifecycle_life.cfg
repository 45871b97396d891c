CONSTANTS
  Crews = {
    {"dtb", "irt_work", "irt_irq"},
    {"irt_work", "pwm", "ap3216"},
    {"sem", "ds18b20", "platform_led"},
    {"io_mutil_dec", "input"},
    {"spinlock", "icm20608", "adc"},
    {"singal_io", "pwm"}}
  FaultyCrews = {
    {"spinlock"}, {"sem"}, {"dtb"}, {"irt_work"}, {"irt_irq"}, {"platform_led"},
    {"ds18b20"}, {"simple_io"}, {"adc"},
    {"io_mutil_dec", "singal_io"},
    {"pwm", "input"},
    {"pwm", "singal_io"},
    {"ap3216", "icm20608"}}
  Nodes = {"/gpio-keys", "/gpio_keys"}
SPECIFICATION Spec
INVARIANTS
  TypeOK
  NoCrash
  NothingLeftBehind
  FilesAreServed
  LoadedIsPublished
  DependenciesHeld
  LoadsUnlessSomethingFails
