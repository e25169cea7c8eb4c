---------------------------- MODULE SensorsEv200 ----------------------------
(***************************************************************************)
(* The sensors of hi3516ev200 (himpp-video-sensor.cpp).                    *)
(***************************************************************************)
EXTENDS Sensors

gc2053 == OnSensor("gc2053", Rect(0, 0, 2304, 1296), Rect(0, 0, 1920, 1080),
    Rect(0, 0, 1920, 1080), 30)

os05a == OnSensor("os05a", Rect(0, 0, 2688, 1944), Rect(0, 0, 2688, 1944),
    Rect(0, 0, 2688, 1944), 30)

sc5335 == OnSensor("sc5335", Rect(0, 0, 2592, 1944), Rect(0, 0, 2592, 1944),
    Rect(0, 0, 2592, 1944), 15)

sc4236 == OnSensor("sc4236", Rect(0, 0, 2304, 1296), Rect(0, 0, 2304, 1296),
    Rect(0, 0, 2304, 1296), 30)

sc2231 == OnSensor("sc2231", Rect(0, 0, 1920, 1080), Rect(0, 0, 1920, 1080),
    Rect(0, 0, 1920, 1080), 30)

sc2235 == OnSensor("sc2235", Rect(0, 0, 1920, 1080), Rect(0, 0, 1920, 1080),
    Rect(0, 0, 1920, 1080), 30)

sc3235 == OnSensor("sc3235", Rect(0, 0, 2304, 1296), Rect(0, 0, 2304, 1296),
    Rect(0, 0, 2304, 1296), 30)

f37 == OnSensor("f37", Rect(0, 0, 1920, 1080), Rect(0, 0, 1920, 1080),
    Rect(0, 0, 1920, 1080), 30)

imx307 == OnSensor("imx307", Rect(0, 0, 1920, 1080), Rect(0, 0, 1920, 1080),
    Rect(0, 0, 1920, 1080), 30)

imx327 == OnSensor("imx327", Rect(0, 0, 1920, 1080), Rect(0, 0, 1920, 1080),
    Rect(0, 0, 1920, 1080), 30)

imx335 == OnSensor("imx335", Rect(0, 0, 2592, 1944), Rect(0, 0, 2592, 1944),
    Rect(0, 0, 2592, 1944), 30)

\* himpp_video_sensor_map
SensorMap ==
    {gc2053, os05a, sc5335, sc4236, sc2231, sc2235, sc3235, f37, imx307,
     imx327, imx335}
=============================================================================
